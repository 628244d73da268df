--------------------------- MODULE ThreadsProofs ---------------------------
(***************************************************************************)
(* Proofs about Threads, for any number of programs, threads, semaphores   *)
(* and faults: no permit of the semaphore is duplicated or forgotten, and  *)
(* it excludes what it should.                                             *)
(***************************************************************************)
EXTENDS Threads, ScrollBar, TLAPS

Nap == [asked : Nat, req : Int, slept : Int]

Pcs == {"none", "failed", "joined", "ended"} \cup Alive

ThreadRecord == [pc : Pcs, held : Nat, nap : Nap]

TypeInv ==
  /\ program \in [Program -> [state : {"running", "undefined"}, pointer : Nat,
                              joining : Thread \cup {NoThread}]]
  /\ thread \in [Thread -> ThreadRecord]
  /\ value \in Seq(Nat)
  /\ name \in 0..Len(value)
  /\ \A p \in Program : program[p].pointer \in 0..Len(value)
  /\ lost \subseteq 1..Len(value)
  /\ unlinked \in BOOLEAN

(* A thread holds the semaphore that its program points to exactly while it*)
(* is in the critical section, and its program runs.                       *)
HoldsPointer ==
  \A t \in Thread :
    IF thread[t].pc = "critical"
    THEN /\ thread[t].held = program[ProgramOf[t]].pointer
         /\ thread[t].held # 0
         /\ program[ProgramOf[t]].state = "running"
    ELSE thread[t].held = 0

(* As long as no name was removed too early, what programs point to is what*)
(* the name stands for.                                                    *)
NameShared ==
  ~unlinked => \A p \in Program :
    program[p].state = "running" /\ program[p].pointer # 0 => program[p].pointer = name

(* The inductive invariant.                                                *)
IInv == TypeInv /\ HoldsPointer /\ NameShared /\ PermitKept

-----------------------------------------------------------------------------
LEMMA NewTyped ==
  /\ NoNap \in Nap
  /\ \A place : At(place).pc = place /\ At(place).held = 0
  /\ \A place \in Pcs : At(place) \in ThreadRecord
  /\ NewThread = At("none")
  /\ NewProgram \in [state : {"running", "undefined"}, pointer : Nat,
                     joining : Thread \cup {NoThread}]
BY DEF NoNap, Nap, At, NewThread, NewProgram, ThreadRecord

LEMMA PcsFacts == /\ \A place \in Alive : place \in Pcs
                  /\ "none" \in Pcs /\ "failed" \in Pcs /\ "joined" \in Pcs /\ "ended" \in Pcs
                  /\ "critical" \in Alive /\ "ended" \notin Alive
BY DEF Pcs, Alive

LEMMA InitInv == Init => IInv
<1> SUFFICES ASSUME Init PROVE IInv
  OBVIOUS
<1>1. /\ Len(value) = 0 /\ value \in Seq(Nat) /\ 1..Len(value) = {}
      /\ name = 0 /\ lost = {} /\ unlinked = FALSE
  BY DEF Init
<1>2. \A p \in Program : program[p] = NewProgram /\ program[p].pointer = 0
  BY DEF Init, NewProgram
<1>3. \A t \in Thread : thread[t] = At("none") /\ thread[t].pc = "none" /\ thread[t].held = 0
  BY NewTyped, PcsFacts DEF Init
<1>4. TypeInv
  <2>1. program \in [Program -> [state : {"running", "undefined"}, pointer : Nat,
                                 joining : Thread \cup {NoThread}]]
    BY NewTyped DEF Init
  <2>2. thread \in [Thread -> ThreadRecord]
    BY NewTyped, PcsFacts DEF Init
  <2>3. unlinked \in BOOLEAN /\ lost \subseteq 1..Len(value)
    BY <1>1, Zenon
  <2>4. name \in 0..Len(value) /\ \A p \in Program : program[p].pointer \in 0..Len(value)
    BY <1>1, <1>2
  <2> QED BY <1>1, <2>1, <2>2, <2>3, <2>4 DEF TypeInv
<1> QED BY <1>1, <1>2, <1>3, <1>4 DEF IInv, HoldsPointer, NameShared, PermitKept, Semaphores

(* Whatever leaves the semaphores and their holders alone.                 *)
LEMMA SameHolders ==
  ASSUME IInv, value' = value, lost' = lost,
         \A t \in Thread : thread'[t].held = thread[t].held
  PROVE  PermitKept'
<1>1. \A s : Holders(s)' = Holders(s)
  BY DEF Holders
<1> QED BY <1>1 DEF IInv, PermitKept, Semaphores

(* The threads of S are gone, and what they held is lost.                  *)
LEMMA HoldersGone ==
  ASSUME IInv, value' = value, NEW S \in SUBSET Thread, lost' = lost \cup HeldBy(S),
         \A t \in Thread : thread'[t].held = IF t \in S THEN 0 ELSE thread[t].held
  PROVE  PermitKept' /\ lost' \subseteq 1..Len(value)
<1>1. \A s \in Semaphores : s # 0 /\ Holders(s)' = Holders(s) \ S
  BY DEF Holders, Semaphores, IInv, TypeInv
<1>2. \A s \in Semaphores : s \in HeldBy(S) <=> Holders(s) \cap S # {}
  BY <1>1 DEF HeldBy, Holders
<1>3. ASSUME NEW s \in Semaphores
      PROVE  \/ value[s] = 1 /\ Holders(s)' = {} /\ s \notin lost'
             \/ value[s] = 0 /\ (\E t \in Thread : Holders(s)' = {t}) /\ s \notin lost'
             \/ value[s] = 0 /\ Holders(s)' = {} /\ s \in lost'
  <2>1. CASE Holders(s) = {}
    BY <1>1, <1>2, <2>1 DEF IInv, PermitKept
  <2>2. CASE value[s] = 0 /\ (\E t \in Thread : Holders(s) = {t}) /\ s \notin lost
    BY <1>1, <1>2, <2>2
  <2> QED BY <2>1, <2>2 DEF IInv, PermitKept
<1>4. HeldBy(S) \subseteq 1..Len(value)
  <2>1. ASSUME NEW t \in Thread, thread[t].held # 0 PROVE thread[t].held \in 1..Len(value)
    <3>1. thread[t].held = program[ProgramOf[t]].pointer
      BY <2>1 DEF IInv, HoldsPointer
    <3>2. program[ProgramOf[t]].pointer \in 0..Len(value)
      BY ThreadsAssumption DEF IInv, TypeInv
    <3> QED BY <2>1, <3>1, <3>2
  <2> QED BY <2>1 DEF HeldBy
<1> QED BY <1>3, <1>4 DEF PermitKept, Semaphores, IInv, TypeInv

(* Killed(S), of threads of one program or of one thread.                  *)
LEMMA KilledFacts ==
  ASSUME IInv, NEW S \in SUBSET Thread, Killed(S)
  PROVE  /\ thread' \in [Thread -> ThreadRecord]
         /\ \A t \in Thread : thread'[t].held = IF t \in S THEN 0 ELSE thread[t].held
         /\ \A t \in Thread : thread'[t].pc = "critical" => t \notin S /\ thread'[t] = thread[t]
         /\ \A t \in Thread : thread'[t].pc # "critical" => thread'[t].held = 0
<1>1. ASSUME NEW t \in Thread
      PROVE  /\ thread'[t] = IF t \in S /\ thread[t].pc \in Alive THEN At("ended") ELSE thread[t]
             /\ thread'[t] \in ThreadRecord
  <2>1. thread'[t] = IF t \in S /\ thread[t].pc \in Alive THEN At("ended") ELSE thread[t]
    BY DEF Killed
  <2>2. At("ended") \in ThreadRecord
    BY NewTyped, PcsFacts
  <2>3. thread[t] \in ThreadRecord
    BY DEF IInv, TypeInv
  <2> QED BY <2>1, <2>2, <2>3
<1>2. thread' \in [Thread -> ThreadRecord]
  BY <1>1 DEF Killed
<1>3. At("ended").pc = "ended" /\ At("ended").held = 0
  BY NewTyped
<1>4. \A t \in Thread : thread[t].pc # "critical" => thread[t].held = 0
  BY DEF IInv, HoldsPointer
<1>5. "critical" \in Alive
  BY DEF Alive
<1> QED BY <1>1, <1>2, <1>3, <1>4, <1>5

LEMMA UndefinedInv ==
  ASSUME IInv, NEW p \in Program, Undefined(p)
  PROVE  IInv'
<1>1. ThreadsOf(p) \in SUBSET Thread /\ Killed(ThreadsOf(p))
  BY DEF ThreadsOf, Undefined
<1>2. /\ program' = [program EXCEPT ![p].state = "undefined", ![p].joining = NoThread]
      /\ UNCHANGED <<value, name, unlinked>> /\ lost' = lost \cup HeldBy(ThreadsOf(p))
  BY DEF Undefined, Killed
<1>3. PermitKept' /\ lost' \subseteq 1..Len(value)
  BY <1>1, <1>2, KilledFacts, HoldersGone
<1>4. \A q \in Program : /\ program'[q].pointer = program[q].pointer
                         /\ q # p => program'[q] = program[q]
                         /\ program'[q].state = "running" => program[q].state = "running"
  BY <1>2 DEF IInv, TypeInv
<1>5. TypeInv'
  <2>1. program' \in [Program -> [state : {"running", "undefined"}, pointer : Nat,
                                  joining : Thread \cup {NoThread}]]
    BY <1>2 DEF IInv, TypeInv
  <2>2. thread' \in [Thread -> ThreadRecord]
    BY <1>1, KilledFacts
  <2> QED BY <1>2, <1>3, <1>4, <2>1, <2>2 DEF IInv, TypeInv
<1>6. HoldsPointer'
  <2>1. ASSUME NEW t \in Thread, thread'[t].pc = "critical"
        PROVE  /\ thread'[t] = thread[t] /\ ProgramOf[t] \in Program
               /\ program'[ProgramOf[t]] = program[ProgramOf[t]]
    <3>1. t \notin ThreadsOf(p) /\ thread'[t] = thread[t]
      BY <1>1, <2>1, KilledFacts
    <3> QED BY <1>4, <3>1, ThreadsAssumption DEF ThreadsOf
  <2>2. \A t \in Thread : thread'[t].pc # "critical" => thread'[t].held = 0
    BY <1>1, KilledFacts
  <2> QED BY <2>1, <2>2 DEF IInv, HoldsPointer
<1>7. NameShared'
  BY <1>2, <1>4 DEF IInv, NameShared
<1> QED BY <1>3, <1>5, <1>6, <1>7 DEF IInv

LEMMA RestartInv ==
  ASSUME IInv, NEW p \in Program, Restart(p)
  PROVE  IInv'
<1> DEFINE S == ThreadsOf(p)
<1>1. /\ S \in SUBSET Thread /\ lost' = lost \cup HeldBy(S)
      /\ program' = [program EXCEPT ![p] = NewProgram]
      /\ thread' = [t \in Thread |-> IF t \in S THEN NewThread ELSE thread[t]]
      /\ UNCHANGED <<value, name, unlinked>>
  BY DEF ThreadsOf, Restart
<1>2. \A t \in Thread : /\ t \in S => /\ thread'[t] = NewThread
                                      /\ thread'[t].pc # "critical" /\ thread'[t].held = 0
                        /\ t \notin S => thread'[t] = thread[t]
  BY <1>1, NewTyped
<1>3. PermitKept' /\ lost' \subseteq 1..Len(value)
  BY <1>1, <1>2, HoldersGone
<1>4. \A q \in Program : /\ q = p => program'[q].pointer = 0
                         /\ q # p => program'[q] = program[q]
  BY <1>1 DEF IInv, TypeInv, NewProgram
<1>5. TypeInv'
  <2>1. program' \in [Program -> [state : {"running", "undefined"}, pointer : Nat,
                                  joining : Thread \cup {NoThread}]]
    BY <1>1, NewTyped DEF IInv, TypeInv
  <2>2. thread' \in [Thread -> ThreadRecord]
    BY <1>1, NewTyped, PcsFacts DEF IInv, TypeInv
  <2>3. \A q \in Program : program'[q].pointer \in 0..Len(value)
    BY <1>4 DEF IInv, TypeInv
  <2> QED BY <1>1, <1>3, <2>1, <2>2, <2>3 DEF IInv, TypeInv
<1>6. HoldsPointer'
  <2>1. \A t \in Thread : t \notin S => program'[ProgramOf[t]] = program[ProgramOf[t]]
    BY <1>4, ThreadsAssumption DEF ThreadsOf
  <2> QED BY <1>2, <2>1 DEF IInv, HoldsPointer
<1>7. NameShared'
  BY <1>1, <1>4 DEF IInv, NameShared
<1> QED BY <1>3, <1>5, <1>6, <1>7 DEF IInv

(* While no thread of p is alive, none is in the critical section.         *)
LEMMA IdleHolds ==
  ASSUME NEW p \in Program, Idle(p), NEW t \in Thread, thread[t].pc = "critical"
  PROVE  ProgramOf[t] # p
BY PcsFacts DEF Idle, ThreadsOf

LEMMA OpenInv ==
  ASSUME IInv, NEW p \in Program, nova_create_semaphore(p)
  PROVE  IInv'
<1>1. /\ Idle(p) /\ program[p].state = "running" /\ program[p].pointer = 0
      /\ UNCHANGED <<thread, lost, unlinked>>
  BY DEF nova_create_semaphore, Calls
<1>2. HoldsPointer' /\ NameShared' /\ TypeInv' /\ PermitKept'
  <2>1. CASE name # 0 /\ program' = [program EXCEPT ![p].pointer = name]
             /\ UNCHANGED <<value, name>>
    <3>1. \A q \in Program : /\ q = p => program'[q].pointer = name
                             /\ program'[q].state = program[q].state
                             /\ q # p => program'[q] = program[q]
      BY <2>1 DEF IInv, TypeInv
    <3>2. TypeInv'
      <4>1. program' \in [Program -> [state : {"running", "undefined"}, pointer : Nat,
                                      joining : Thread \cup {NoThread}]]
        <5>1. name \in Nat
          BY DEF IInv, TypeInv
        <5> QED BY <2>1, <5>1 DEF IInv, TypeInv
      <4>2. \A q \in Program : program'[q].pointer \in 0..Len(value)
        BY <3>1 DEF IInv, TypeInv
      <4> QED BY <1>1, <2>1, <4>1, <4>2 DEF IInv, TypeInv
    <3>3. HoldsPointer'
      BY <1>1, <3>1, IdleHolds, ThreadsAssumption DEF IInv, HoldsPointer
    <3>4. NameShared'
      BY <1>1, <2>1, <3>1 DEF IInv, NameShared
    <3> QED BY <1>1, <2>1, <3>2, <3>3, <3>4, SameHolders
  <2>2. CASE name = 0 /\ value' = Append(value, 1) /\ name' = Len(value')
             /\ program' = [program EXCEPT ![p].pointer = name']
    <3>1. /\ value \in Seq(Nat) /\ Len(value) \in Nat
          /\ value' \in Seq(Nat) /\ Len(value') = Len(value) + 1
          /\ \A s \in 1..Len(value) : value'[s] = value[s]
          /\ value'[Len(value) + 1] = 1
      BY <2>2 DEF IInv, TypeInv
    <3>2. \A q \in Program : /\ q = p => program'[q].pointer = name'
                             /\ program'[q].state = program[q].state
                             /\ q # p => program'[q] = program[q]
      BY <2>2 DEF IInv, TypeInv
    <3>3. TypeInv'
      <4>1. program' \in [Program -> [state : {"running", "undefined"}, pointer : Nat,
                                      joining : Thread \cup {NoThread}]]
        <5>1. name' \in Nat
          BY <2>2, <3>1
        <5> QED BY <2>2, <5>1 DEF IInv, TypeInv
      <4>2. \A q \in Program : program'[q].pointer \in 0..Len(value')
        BY <2>2, <3>1, <3>2 DEF IInv, TypeInv
      <4>3. lost' \subseteq 1..Len(value') /\ name' \in 0..Len(value')
        BY <1>1, <2>2, <3>1 DEF IInv, TypeInv
      <4> QED BY <1>1, <3>1, <4>1, <4>2, <4>3 DEF IInv, TypeInv
    <3>4. HoldsPointer'
      BY <1>1, <3>2, IdleHolds, ThreadsAssumption DEF IInv, HoldsPointer
    <3>5. NameShared'
      <4>1. ~unlinked => \A q \in Program : program[q].state = "running" => program[q].pointer = 0
        BY <2>2 DEF IInv, NameShared, TypeInv
      <4> QED BY <1>1, <2>2, <3>2, <4>1 DEF NameShared
    <3>6. PermitKept'
      <4>1. \A t \in Thread : thread[t].held # Len(value) + 1
        <5> SUFFICES ASSUME NEW t \in Thread, thread[t].held = Len(value) + 1 PROVE FALSE
          OBVIOUS
        <5>1. thread[t].held = program[ProgramOf[t]].pointer
          BY <3>1 DEF IInv, HoldsPointer
        <5>2. program[ProgramOf[t]].pointer \in 0..Len(value)
          BY ThreadsAssumption DEF IInv, TypeInv
        <5> QED BY <3>1, <5>1, <5>2
      <4>2. \A s : Holders(s)' = Holders(s)
        BY <1>1 DEF Holders
      <4>3. Holders(Len(value) + 1) = {}
        BY <4>1 DEF Holders
      <4>4. Len(value) + 1 \notin lost
        BY <3>1 DEF IInv, TypeInv
      <4>5. \A s \in 1..Len(value') : s \in 1..Len(value) \/ s = Len(value) + 1
        BY <3>1
      <4> QED BY <1>1, <3>1, <4>2, <4>3, <4>4, <4>5 DEF IInv, PermitKept, Semaphores
    <3> QED BY <3>3, <3>4, <3>5, <3>6
  <2>3. CASE UNCHANGED <<program, value, name>>
    BY <1>1, <2>3, SameHolders DEF IInv, TypeInv, HoldsPointer, NameShared
  <2> QED BY <2>1, <2>2, <2>3 DEF nova_create_semaphore, Opened, Initially
<1> QED BY <1>2 DEF IInv

LEMMA CloseInv ==
  ASSUME IInv, NEW p \in Program, nova_close_semaphore(p)
  PROVE  IInv'
<1>1. /\ Idle(p) /\ program' = [program EXCEPT ![p].pointer = 0] /\ name' = 0
      /\ unlinked' = (unlinked \/ \E q \in Program \ {p} :
                         program[q].state = "running" /\ program[q].pointer # 0)
      /\ UNCHANGED <<thread, value, lost>>
  BY DEF nova_close_semaphore
<1>2. \A q \in Program : /\ q = p => program'[q].pointer = 0
                         /\ program'[q].state = program[q].state
                         /\ q # p => program'[q] = program[q]
  BY <1>1 DEF IInv, TypeInv
<1>3. TypeInv'
  <2>1. program' \in [Program -> [state : {"running", "undefined"}, pointer : Nat,
                                  joining : Thread \cup {NoThread}]]
    BY <1>1 DEF IInv, TypeInv
  <2>2. \A q \in Program : program'[q].pointer \in 0..Len(value)
    BY <1>2 DEF IInv, TypeInv
  <2>3. unlinked' \in BOOLEAN
    BY <1>1, Zenon
  <2> QED BY <1>1, <2>1, <2>2, <2>3 DEF IInv, TypeInv
<1>4. HoldsPointer'
  BY <1>1, <1>2, IdleHolds, ThreadsAssumption DEF IInv, HoldsPointer
<1>5. NameShared'
  <2>1. ASSUME ~unlinked', NEW q \in Program, program'[q].state = "running"
        PROVE  program'[q].pointer = 0
    <3>1. ~\E r \in Program \ {p} : program[r].state = "running" /\ program[r].pointer # 0
      BY <1>1, <2>1, Zenon
    <3>2. CASE q = p
      BY <1>2, <3>2
    <3>3. CASE q # p
      BY <1>2, <2>1, <3>1, <3>3
    <3> QED BY <3>2, <3>3
  <2> QED BY <1>1, <2>1 DEF NameShared
<1> QED BY <1>1, <1>3, <1>4, <1>5, SameHolders DEF IInv

(* One thread goes on; what it holds and its critical section stay, and so *)
(* do the semaphores.                                                      *)
LEMMA QuietInv ==
  ASSUME IInv, UNCHANGED <<value, name, lost, unlinked>>,
         NEW t \in Thread, NEW new \in ThreadRecord,
         thread' = [thread EXCEPT ![t] = new],
         thread[t].pc # "critical", new.pc # "critical", new.held = 0,
         program' \in [Program -> [state : {"running", "undefined"}, pointer : Nat,
                                   joining : Thread \cup {NoThread}]],
         \A p \in Program : /\ program'[p].state = program[p].state
                            /\ program'[p].pointer = program[p].pointer
  PROVE  IInv'
<1>1. \A u \in Thread : /\ u = t => thread'[u] = new
                        /\ u # t => thread'[u] = thread[u]
                        /\ thread'[u].held = thread[u].held
  BY DEF IInv, TypeInv, HoldsPointer
<1>2. TypeInv'
  BY DEF IInv, TypeInv
<1>3. HoldsPointer'
  BY <1>1, ThreadsAssumption DEF IInv, HoldsPointer
<1>4. NameShared'
  BY DEF IInv, NameShared
<1> QED BY <1>1, <1>2, <1>3, <1>4, SameHolders DEF IInv

LEMMA CreateInv ==
  ASSUME IInv, NEW t \in Thread, create_thread(t)
  PROVE  IInv'
<1>1. /\ thread[t].pc = "none" /\ UNCHANGED <<program, value, name, lost, unlinked>>
      /\ \/ thread' = [thread EXCEPT ![t] = At("created")]
         \/ thread' = [thread EXCEPT ![t] = At("failed")]
  BY DEF create_thread
<1>2. \A place \in {"created", "failed"} :
        At(place) \in ThreadRecord /\ At(place).pc # "critical" /\ At(place).held = 0
  BY NewTyped, PcsFacts DEF Alive
<1> QED BY <1>1, <1>2, QuietInv DEF IInv, TypeInv

LEMMA JoinInv ==
  ASSUME IInv, NEW t \in Thread, lib_nova_thread_join(t)
  PROVE  IInv'
<1>1. CASE Undefined(ProgramOf[t])
  BY <1>1, UndefinedInv, ThreadsAssumption
<1>2. CASE /\ program' = [program EXCEPT ![ProgramOf[t]].joining = t]
           /\ UNCHANGED <<thread, value, name, faults, lost, unlinked>>
  <2>1. program' \in [Program -> [state : {"running", "undefined"}, pointer : Nat,
                                  joining : Thread \cup {NoThread}]]
    BY <1>2 DEF IInv, TypeInv
  <2>2. \A p \in Program : /\ program'[p].state = program[p].state
                           /\ program'[p].pointer = program[p].pointer
    BY <1>2 DEF IInv, TypeInv
  <2>3. TypeInv' /\ NameShared'
    BY <1>2, <2>1, <2>2 DEF IInv, TypeInv, NameShared
  <2>4. HoldsPointer'
    BY <1>2, <2>2, ThreadsAssumption DEF IInv, HoldsPointer
  <2> QED BY <1>2, <2>3, <2>4, SameHolders DEF IInv
<1> QED BY <1>1, <1>2 DEF lib_nova_thread_join

LEMMA JoinReturnInv ==
  ASSUME IInv, NEW t \in Thread, JoinReturn(t)
  PROVE  IInv'
<1>1. /\ thread[t].pc = "ended" /\ thread' = [thread EXCEPT ![t] = At("joined")]
      /\ program' = [program EXCEPT ![ProgramOf[t]].joining = NoThread]
      /\ UNCHANGED <<value, name, lost, unlinked>>
  BY DEF JoinReturn
<1>2. /\ program' \in [Program -> [state : {"running", "undefined"}, pointer : Nat,
                                   joining : Thread \cup {NoThread}]]
      /\ \A p \in Program : /\ program'[p].state = program[p].state
                            /\ program'[p].pointer = program[p].pointer
  BY <1>1 DEF IInv, TypeInv
<1>3. At("joined") \in ThreadRecord /\ At("joined").pc # "critical" /\ At("joined").held = 0
  BY NewTyped, PcsFacts
<1> QED BY <1>1, <1>2, <1>3, QuietInv

LEMMA CancelInv ==
  ASSUME IInv, NEW t \in Thread, lib_nova_thread_cancel(t)
  PROVE  IInv'
<1>1. CASE Undefined(ProgramOf[t])
  BY <1>1, UndefinedInv, ThreadsAssumption
<1>2. CASE Killed({t}) /\ UNCHANGED <<program, value, name, unlinked>>
  <2>1. {t} \in SUBSET Thread /\ lost' = lost \cup HeldBy({t})
    BY <1>2 DEF Killed
  <2>2. PermitKept' /\ lost' \subseteq 1..Len(value)
    BY <1>2, <2>1, KilledFacts, HoldersGone
  <2>3. TypeInv'
    BY <1>2, <2>1, <2>2, KilledFacts DEF IInv, TypeInv
  <2>4. HoldsPointer'
    BY <1>2, <2>1, KilledFacts DEF IInv, HoldsPointer
  <2>5. NameShared'
    BY <1>2 DEF IInv, NameShared
  <2> QED BY <2>2, <2>3, <2>4, <2>5 DEF IInv
<1> QED BY <1>1, <1>2 DEF lib_nova_thread_cancel

-----------------------------------------------------------------------------
LEMMA QuietStep ==
  ASSUME IInv, NEW t \in Thread, NEW new \in ThreadRecord, Step(t, new),
         UNCHANGED <<value, lost>>,
         thread[t].pc # "critical", new.pc # "critical", new.held = 0
  PROVE  IInv'
BY QuietInv DEF Step, IInv, TypeInv

(* Updates of a thread's record that keep its type.                        *)
LEMMA Asleep ==
  ASSUME NEW r \in ThreadRecord, NEW nap \in Nap
  PROVE  /\ [r EXCEPT !.pc = "sleeping", !.nap = nap] \in ThreadRecord
         /\ [r EXCEPT !.pc = "sleeping", !.nap = nap].pc = "sleeping"
         /\ [r EXCEPT !.pc = "sleeping", !.nap = nap].held = r.held
<1>1. "sleeping" \in Pcs
  BY DEF Pcs, Alive
<1> QED BY <1>1 DEF ThreadRecord

LEMMA NapUpdated ==
  ASSUME NEW r \in ThreadRecord, NEW nap \in Nap
  PROVE  /\ [r EXCEPT !.nap = nap] \in ThreadRecord
         /\ [r EXCEPT !.nap = nap].pc = r.pc
         /\ [r EXCEPT !.nap = nap].held = r.held
BY DEF ThreadRecord

LEMMA ReqUpdated ==
  ASSUME NEW r \in ThreadRecord, NEW req \in Int
  PROVE  /\ [r EXCEPT !.nap.req = req] \in ThreadRecord
         /\ [r EXCEPT !.nap.req = req].pc = r.pc
         /\ [r EXCEPT !.nap.req = req].held = r.held
<1>1. r.nap \in Nap
  BY DEF ThreadRecord
<1>2. PICK nap \in Nap : nap = [r.nap EXCEPT !.req = req]
  BY <1>1 DEF Nap
<1>3. [r EXCEPT !.nap.req = req] = [r EXCEPT !.nap = nap]
  BY <1>2 DEF ThreadRecord
<1> QED BY <1>3, NapUpdated

LEMMA ReqSleptUpdated ==
  ASSUME NEW r \in ThreadRecord, NEW req \in Int, NEW slept \in Int
  PROVE  /\ [r EXCEPT !.nap.req = req, !.nap.slept = slept] \in ThreadRecord
         /\ [r EXCEPT !.nap.req = req, !.nap.slept = slept].pc = r.pc
         /\ [r EXCEPT !.nap.req = req, !.nap.slept = slept].held = r.held
<1>1. r.nap \in Nap
  BY DEF ThreadRecord
<1>2. PICK nap \in Nap : nap = [r.nap EXCEPT !.req = req, !.slept = slept]
  BY <1>1 DEF Nap
<1>3. [r EXCEPT !.nap.req = req, !.nap.slept = slept] = [r EXCEPT !.nap = nap]
  BY <1>1, <1>2 DEF ThreadRecord, Nap
<1> QED BY <1>3, NapUpdated

(* The parts of a sleep are integers.                                      *)
LEMMA SleepInv ==
  ASSUME IInv, NEW t \in Thread,
         \/ \E millis \in Millis[t] : thread_nanosleep(t, millis)
         \/ Interrupted(t) \/ Refused(t) \/ Awake(t)
  PROVE  IInv'
<1>1. thread[t] \in ThreadRecord /\ thread[t].nap \in Nap /\ IntMax \in Nat /\ PerMilli \in Nat
  BY ThreadsAssumption DEF IInv, TypeInv, ThreadRecord
<1>2. thread[t].pc # "critical" => thread[t].held = 0
  BY DEF IInv, HoldsPointer
<1>3. "sleeping" \in Pcs /\ "left" \in Pcs
  BY DEF Pcs, Alive
<1>4. ASSUME NEW millis \in Millis[t], thread_nanosleep(t, millis) PROVE IInv'
  <2>1. PICK nanos \in Nanos(millis) :
          Step(t, [thread[t] EXCEPT !.pc = "sleeping",
                                    !.nap = [asked |-> millis, req |-> nanos, slept |-> 0]])
    BY <1>4 DEF thread_nanosleep
  <2>2. millis \in Nat /\ nanos \in Int
    <3>1. millis \in Nat
      BY ThreadsAssumption
    <3>2. millis * PerMilli \in Int
      BY <1>1, <3>1
    <3>3. (millis * PerMilli + IntMax + 1) % (2 * (IntMax + 1)) \in Int
      BY <1>1, <3>2
    <3> QED BY <1>1, <3>1, <3>2, <3>3 DEF Nanos
  <2>3. PICK nap \in Nap : nap = [asked |-> millis, req |-> nanos, slept |-> 0]
    <3>1. [asked |-> millis, req |-> nanos, slept |-> 0] \in Nap
      BY <2>2 DEF Nap
    <3> QED BY <3>1
  <2>4. thread[t].pc = "running" /\ UNCHANGED <<value, lost>>
    BY <1>4 DEF thread_nanosleep, Runs
  <2>5. /\ [thread[t] EXCEPT !.pc = "sleeping", !.nap = nap] \in ThreadRecord
        /\ [thread[t] EXCEPT !.pc = "sleeping", !.nap = nap].pc = "sleeping"
        /\ [thread[t] EXCEPT !.pc = "sleeping", !.nap = nap].held = thread[t].held
    BY <1>1, Asleep, Zenon
  <2>6. PICK new \in ThreadRecord :
          /\ new = [thread[t] EXCEPT !.pc = "sleeping", !.nap = nap]
          /\ new.pc = "sleeping" /\ new.held = thread[t].held
    BY <2>5
  <2>7. Step(t, new)
    BY <2>1, <2>3, <2>6
  <2> QED BY <1>2, <2>4, <2>6, <2>7, QuietStep
<1>5. CASE Interrupted(t)
  <2>1. thread[t].pc = "sleeping" /\ UNCHANGED <<value, lost>>
    BY <1>5 DEF Interrupted, Sleeps, Runs
  <2>2. PICK slept \in 1..(thread[t].nap.req - 1) :
          Step(t, [thread[t] EXCEPT !.nap.req = Remaining(thread[t].nap.req, slept),
                                    !.nap.slept = thread[t].nap.slept + slept])
    BY <1>5 DEF Interrupted
  <2>3. PICK req \in Int, total \in Int :
          /\ req = Remaining(thread[t].nap.req, slept)
          /\ total = thread[t].nap.slept + slept
    <3>1. thread[t].nap.req \in Int /\ thread[t].nap.slept \in Int
      BY <1>1 DEF Nap
    <3>2. slept \in Int
      BY <3>1, <2>2
    <3>3. /\ Remaining(thread[t].nap.req, slept) \in Int
          /\ thread[t].nap.slept + slept \in Int
      BY <3>1, <3>2 DEF Remaining
    <3> QED BY <3>3
  <2>4. /\ [thread[t] EXCEPT !.nap.req = req, !.nap.slept = total] \in ThreadRecord
        /\ [thread[t] EXCEPT !.nap.req = req, !.nap.slept = total].pc = "sleeping"
        /\ [thread[t] EXCEPT !.nap.req = req, !.nap.slept = total].held = thread[t].held
    BY <1>1, <2>1, ReqSleptUpdated, Zenon
  <2>5. PICK new \in ThreadRecord :
          /\ new = [thread[t] EXCEPT !.nap.req = req, !.nap.slept = total]
          /\ new.pc = "sleeping" /\ new.held = thread[t].held
    BY <2>4
  <2>6. Step(t, new)
    BY <2>2, <2>3, <2>5
  <2> QED BY <1>2, <2>1, <2>5, <2>6, QuietStep
<1>6. CASE Refused(t)
  <2>1. thread[t].pc = "sleeping" /\ UNCHANGED <<value, lost>>
    BY <1>6 DEF Refused, Sleeps, Runs
  <2>2. PICK rem \in Garbage : Step(t, [thread[t] EXCEPT !.nap.req = rem])
    BY <1>6 DEF Refused
  <2>3. rem \in Int
    BY <1>1 DEF Garbage
  <2>4. /\ [thread[t] EXCEPT !.nap.req = rem] \in ThreadRecord
        /\ [thread[t] EXCEPT !.nap.req = rem].pc = "sleeping"
        /\ [thread[t] EXCEPT !.nap.req = rem].held = thread[t].held
    BY <1>1, <2>1, <2>3, ReqUpdated, Zenon
  <2>5. PICK new \in ThreadRecord :
          /\ new = [thread[t] EXCEPT !.nap.req = rem]
          /\ new.pc = "sleeping" /\ new.held = thread[t].held
    BY <2>4
  <2>6. Step(t, new)
    BY <2>2, <2>5
  <2> QED BY <1>2, <2>1, <2>5, <2>6, QuietStep
<1>7. CASE Awake(t)
  <2>1. thread[t].pc = "sleeping" /\ UNCHANGED <<value, lost>>
    BY <1>7 DEF Awake, Sleeps, Runs
  <2> DEFINE new == [thread[t] EXCEPT !.pc = "left", !.nap = NoNap]
  <2>2. new \in ThreadRecord /\ new.pc = "left" /\ new.held = thread[t].held /\ Step(t, new)
    BY <1>1, <1>3, <1>7, NewTyped DEF ThreadRecord, Awake
  <2> HIDE DEF new
  <2> QED BY <1>2, <2>1, <2>2, QuietStep
<1> QED BY <1>4, <1>5, <1>6, <1>7

(* The program points to a semaphore whenever a thread holds one, or none. *)
LEMMA PointerFacts ==
  ASSUME IInv, NEW t \in Thread
  PROVE  /\ ProgramOf[t] \in Program
         /\ program[ProgramOf[t]].pointer \in 0..Len(value)
         /\ Len(value) \in Nat /\ value \in Seq(Nat)
         /\ \A s \in 1..Len(value) : value[s] \in Nat
BY ThreadsAssumption DEF IInv, TypeInv

LEMMA WaitInv ==
  ASSUME IInv, NEW t \in Thread, Wait(t)
  PROVE  IInv'
<1>0. PICK s : s = program[ProgramOf[t]].pointer
  OBVIOUS
<1>1. thread[t].pc = "running" /\ program[ProgramOf[t]].state = "running"
  BY DEF Wait, Runs
<1>2. CASE Undefined(ProgramOf[t])
  BY <1>2, PointerFacts, UndefinedInv
<1>3. CASE /\ s # 0 /\ value[s] > 0
           /\ value' = [value EXCEPT ![s] = @ - 1]
           /\ Step(t, [thread[t] EXCEPT !.pc = "critical", !.held = s])
           /\ UNCHANGED lost
  <2>1. s \in 1..Len(value) /\ s \in Nat /\ Len(value) \in Nat /\ value[s] \in Nat
    BY <1>0, <1>3, PointerFacts
  <2> DEFINE new == [thread[t] EXCEPT !.pc = "critical", !.held = s]
  <2>2. new \in ThreadRecord /\ new.pc = "critical" /\ new.held = s
    <3>1. thread[t] \in ThreadRecord /\ "critical" \in Pcs
      BY PcsFacts DEF IInv, TypeInv
    <3> QED BY <2>1, <3>1 DEF ThreadRecord
  <2>3. /\ thread' = [thread EXCEPT ![t] = new] /\ UNCHANGED <<program, name, unlinked>>
    BY <1>3 DEF Step
  <2> HIDE DEF new
  <2>4. /\ value' \in Seq(Nat) /\ Len(value') = Len(value)
        /\ value'[s] = value[s] - 1
        /\ \A r \in 1..Len(value) : r # s => value'[r] = value[r]
    BY <1>3, <2>1, PointerFacts
  <2>5. \A u \in Thread : IF u = t THEN thread'[u] = new ELSE thread'[u] = thread[u]
    BY <2>3 DEF IInv, TypeInv
  <2>6. value[s] = 1 /\ Holders(s) = {} /\ s \notin lost
    BY <1>3, <2>1 DEF IInv, PermitKept, Semaphores
  <2>7. thread[t].held = 0
    BY <1>1 DEF IInv, HoldsPointer
  <2>8. Holders(s)' = {t} /\ \A r \in 1..Len(value) : r # s => Holders(r)' = Holders(r)
    BY <2>1, <2>2, <2>5, <2>6, <2>7 DEF Holders
  <2>9. PermitKept'
    <3> SUFFICES ASSUME NEW r \in 1..Len(value)
                 PROVE  \/ value'[r] = 1 /\ Holders(r)' = {} /\ r \notin lost
                        \/ value'[r] = 0 /\ (\E u \in Thread : Holders(r)' = {u}) /\ r \notin lost
                        \/ value'[r] = 0 /\ Holders(r)' = {} /\ r \in lost
      BY <1>3, <2>4 DEF PermitKept, Semaphores
    <3>1. CASE r = s
      BY <2>4, <2>6, <2>8, <3>1
    <3>2. CASE r # s
      BY <2>4, <2>8, <3>2 DEF IInv, PermitKept, Semaphores
    <3> QED BY <3>1, <3>2
  <2>10. TypeInv'
    BY <1>3, <2>2, <2>3, <2>4 DEF IInv, TypeInv
  <2>11. HoldsPointer'
    BY <1>0, <1>1, <1>3, <2>2, <2>3, <2>5 DEF IInv, HoldsPointer
  <2>12. NameShared'
    BY <2>3 DEF IInv, NameShared
  <2> QED BY <2>9, <2>10, <2>11, <2>12 DEF IInv
<1> QED BY <1>0, <1>2, <1>3 DEF Wait

LEMMA PostInv ==
  ASSUME IInv, NEW t \in Thread, Post(t)
  PROVE  IInv'
<1>0. PICK s : s = program[ProgramOf[t]].pointer
  OBVIOUS
<1> DEFINE new == [thread[t] EXCEPT !.pc = "left", !.held = 0]
<1>1. /\ thread[t].pc = "critical" /\ UNCHANGED <<program, name, lost, unlinked>>
      /\ value' = [value EXCEPT ![s] = @ + 1]
      /\ thread' = [thread EXCEPT ![t] = new]
  BY <1>0 DEF Post, Runs, Step
<1>2. new \in ThreadRecord /\ new.pc = "left" /\ new.held = 0
  <2>1. thread[t] \in ThreadRecord /\ "left" \in Pcs
    BY DEF IInv, TypeInv, Pcs, Alive
  <2> QED BY <2>1 DEF ThreadRecord
<1>3. thread[t].held = s /\ s # 0
  BY <1>0, <1>1 DEF IInv, HoldsPointer
<1>4. s \in 1..Len(value) /\ s \in Nat /\ Len(value) \in Nat /\ value[s] \in Nat
  BY <1>0, <1>3, PointerFacts
<1> HIDE DEF new
<1>5. /\ value' \in Seq(Nat) /\ Len(value') = Len(value)
      /\ value'[s] = value[s] + 1
      /\ \A r \in 1..Len(value) : r # s => value'[r] = value[r]
  BY <1>1, <1>4, PointerFacts
<1>6. \A u \in Thread : IF u = t THEN thread'[u] = new ELSE thread'[u] = thread[u]
  BY <1>1 DEF IInv, TypeInv
<1>7. t \in Holders(s)
  BY <1>3 DEF Holders
<1>8. value[s] = 0 /\ Holders(s) = {t} /\ s \notin lost
  BY <1>4, <1>7 DEF IInv, PermitKept, Semaphores
<1>9. Holders(s)' = {} /\ \A r \in 1..Len(value) : r # s => Holders(r)' = Holders(r)
  BY <1>2, <1>3, <1>4, <1>6, <1>8 DEF Holders
<1>10. PermitKept'
  <2> SUFFICES ASSUME NEW r \in 1..Len(value)
               PROVE  \/ value'[r] = 1 /\ Holders(r)' = {} /\ r \notin lost
                      \/ value'[r] = 0 /\ (\E u \in Thread : Holders(r)' = {u}) /\ r \notin lost
                      \/ value'[r] = 0 /\ Holders(r)' = {} /\ r \in lost
    BY <1>1, <1>5 DEF PermitKept, Semaphores
  <2>1. CASE r = s
    BY <1>5, <1>8, <1>9, <2>1
  <2>2. CASE r # s
    BY <1>5, <1>9, <2>2 DEF IInv, PermitKept, Semaphores
  <2> QED BY <2>1, <2>2
<1>11. TypeInv'
  BY <1>1, <1>2, <1>5 DEF IInv, TypeInv
<1>12. HoldsPointer'
  BY <1>1, <1>2, <1>6 DEF IInv, HoldsPointer
<1>13. NameShared'
  BY <1>1 DEF IInv, NameShared
<1> QED BY <1>10, <1>11, <1>12, <1>13 DEF IInv

LEMMA NextInv == IInv /\ [Next]_vars => IInv'
<1> SUFFICES ASSUME IInv, [Next]_vars PROVE IInv'
  OBVIOUS
<1>1. ASSUME NEW p \in Program,
             nova_create_semaphore(p) \/ nova_close_semaphore(p) \/ Restart(p)
      PROVE  IInv'
  BY <1>1, OpenInv, CloseInv, RestartInv
<1>2. ASSUME NEW t \in Thread,
             \/ create_thread(t) \/ lib_nova_thread_join(t) \/ JoinReturn(t)
             \/ lib_nova_thread_cancel(t)
      PROVE  IInv'
  BY <1>2, CreateInv, JoinInv, JoinReturnInv, CancelInv
<1>3. ASSUME NEW t \in Thread, lib_nova_thread_run(t) \/ End(t)
      PROVE  IInv'
  <2>1. "running" \in Pcs /\ "ended" \in Pcs
    BY DEF Pcs, Alive
  <2> QED BY <1>3, <2>1, NewTyped, QuietStep DEF lib_nova_thread_run, End, Runs
<1>4. ASSUME NEW t \in Thread, Wait(t) \/ Post(t) PROVE IInv'
  BY <1>4, WaitInv, PostInv
<1>5. ASSUME NEW t \in Thread,
             \/ \E millis \in Millis[t] : thread_nanosleep(t, millis)
             \/ Interrupted(t) \/ Refused(t) \/ Awake(t)
      PROVE  IInv'
  BY <1>5, SleepInv
<1>6. CASE UNCHANGED vars
  BY <1>6, SameHolders DEF vars, IInv, TypeInv, HoldsPointer, NameShared
<1> QED BY <1>1, <1>2, <1>3, <1>4, <1>5, <1>6 DEF Next, Works

LEMMA Invariance == Spec => []IInv
BY InitInv, NextInv, PTL DEF Spec

(* A permit is never duplicated, and is forgotten only with the thread that*)
(* held it, whatever is killed, cancelled, restarted or unlinked.          *)
THEOREM PermitsAreKept == Spec => []PermitKept
<1>1. IInv => PermitKept
  BY DEF IInv
<1> QED BY <1>1, Invariance, PTL

(* The threads of a program exclude each other in the critical section; so *)
(* do those of two programs, until a name is removed that is in use.       *)
THEOREM Exclusion == Spec => []OneInside
<1>1. IInv => OneInside
  <2> SUFFICES ASSUME IInv, NEW t \in Critical, NEW u \in Critical, t # u,
                      ProgramOf[t] = ProgramOf[u] \/ ~unlinked
               PROVE  FALSE
    BY DEF OneInside
  <2>1. /\ t \in Thread /\ thread[t].held = program[ProgramOf[t]].pointer
        /\ thread[t].held # 0 /\ program[ProgramOf[t]].state = "running"
        /\ u \in Thread /\ thread[u].held = program[ProgramOf[u]].pointer
        /\ thread[u].held # 0 /\ program[ProgramOf[u]].state = "running"
    BY DEF IInv, HoldsPointer, Critical
  <2>2. thread[t].held = thread[u].held
    BY <2>1, PointerFacts DEF IInv, NameShared
  <2>3. PICK s \in Semaphores : s = thread[t].held
    BY <2>1, PointerFacts DEF Semaphores
  <2>4. t \in Holders(s) /\ u \in Holders(s)
    BY <2>1, <2>2, <2>3 DEF Holders
  <2> QED BY <2>4 DEF IInv, PermitKept
<1> QED BY <1>1, Invariance, PTL

-----------------------------------------------------------------------------
(* What a sleep has slept and what it is still asked for make the whole.   *)
NapKept ==
  \A t \in Thread : thread[t].pc = "sleeping" =>
    \/ Overflows(thread[t].nap.asked)
    \/ /\ thread[t].nap.req >= 0
       /\ thread[t].nap.slept + thread[t].nap.req = thread[t].nap.asked * PerMilli

(* Every thread stays as it was or is not asleep afterwards.               *)
NoneFallsAsleep ==
  \A u \in Thread : thread'[u] = thread[u] \/ thread'[u].pc # "sleeping"

LEMMA AwakeKept == NapKept /\ NoneFallsAsleep => NapKept'
BY DEF NapKept, NoneFallsAsleep, Overflows

LEMMA StepKept ==
  ASSUME IInv, NapKept, NEW t \in Thread, NEW new, Step(t, new),
         new.pc = "sleeping" =>
           \/ Overflows(new.nap.asked)
           \/ new.nap.req >= 0 /\ new.nap.slept + new.nap.req = new.nap.asked * PerMilli
  PROVE  NapKept'
<1>1. /\ thread'[t] = new
      /\ \A u \in Thread : u # t => thread'[u] = thread[u]
  BY DEF Step, IInv, TypeInv
<1> QED BY <1>1 DEF NapKept, Overflows

LEMMA NapTyped ==
  ASSUME IInv, NEW t \in Thread
  PROVE  /\ thread[t] \in ThreadRecord /\ thread[t].nap \in Nap
         /\ thread[t].nap.asked \in Nat /\ thread[t].nap.req \in Int
         /\ thread[t].nap.slept \in Int
BY DEF IInv, TypeInv, ThreadRecord, Nap

(* A number that is too small to wrap around is taken as it is.            *)
LEMMA NanosExact ==
  ASSUME NEW millis \in Nat, ~Overflows(millis), NEW nanos \in Nanos(millis)
  PROVE  nanos = millis * PerMilli /\ nanos >= 0
<1> DEFINE exact == millis * PerMilli
<1>1. IntMax \in Nat /\ PerMilli \in Nat
  BY ThreadsAssumption
<1>2. exact \in Nat
  BY <1>1
<1>3. exact <= IntMax
  BY <1>1, <1>2 DEF Overflows
<1>4. nanos \in {exact, ((exact + IntMax + 1) % (2 * (IntMax + 1))) - (IntMax + 1)}
  BY DEF Nanos
<1> HIDE DEF exact
<1>5. \A a \in Nat, n \in Nat : a < n => a % n = a
  OBVIOUS
<1>6. (exact + IntMax + 1) % (2 * (IntMax + 1)) = exact + IntMax + 1
  BY <1>1, <1>2, <1>3, <1>5
<1>7. nanos = exact
  BY <1>1, <1>2, <1>4, <1>6
<1> QED BY <1>2, <1>7 DEF exact

LEMMA SleepKept ==
  ASSUME IInv, NapKept, NEW t \in Thread, NEW millis \in Millis[t], thread_nanosleep(t, millis)
  PROVE  NapKept'
<1>1. PICK nanos \in Nanos(millis) :
        Step(t, [thread[t] EXCEPT !.pc = "sleeping",
                                  !.nap = [asked |-> millis, req |-> nanos, slept |-> 0]])
  BY DEF thread_nanosleep
<1>2. PICK nap : nap = [asked |-> millis, req |-> nanos, slept |-> 0]
  OBVIOUS
<1>3. PICK new : new = [thread[t] EXCEPT !.pc = "sleeping", !.nap = nap]
  OBVIOUS
<1>4. new.nap = nap
  BY <1>3, NapTyped DEF ThreadRecord
<1>5. Step(t, new)
  BY <1>1, <1>2, <1>3
<1>6. millis \in Nat /\ nap.asked = millis /\ nap.req = nanos /\ nap.slept = 0
  BY <1>2, ThreadsAssumption
<1>7. ~Overflows(millis) => nanos >= 0 /\ 0 + nanos = millis * PerMilli
  <2> SUFFICES ASSUME ~Overflows(millis)
               PROVE  nanos >= 0 /\ 0 + nanos = millis * PerMilli
    OBVIOUS
  <2>1. nanos = millis * PerMilli /\ nanos >= 0 /\ millis * PerMilli \in Int
    BY <1>6, NanosExact, ThreadsAssumption
  <2> QED BY <2>1
<1> QED BY <1>4, <1>5, <1>6, <1>7, StepKept

LEMMA InterruptedKept ==
  ASSUME IInv, NapKept, NEW t \in Thread, Interrupted(t)
  PROVE  NapKept'
<1>1. thread[t].pc = "sleeping"
  BY DEF Interrupted, Sleeps, Runs
<1>2. PICK slept \in 1..(thread[t].nap.req - 1) :
        Step(t, [thread[t] EXCEPT !.nap.req = Remaining(thread[t].nap.req, slept),
                                  !.nap.slept = thread[t].nap.slept + slept])
  BY DEF Interrupted
<1>3. PICK req, total : /\ req = Remaining(thread[t].nap.req, slept)
                        /\ total = thread[t].nap.slept + slept
  OBVIOUS
<1>4. PICK new : new = [thread[t] EXCEPT !.nap.req = req, !.nap.slept = total]
  OBVIOUS
<1>5. Step(t, new)
  BY <1>2, <1>3, <1>4
<1>6. new.nap.asked = thread[t].nap.asked /\ new.nap.req = req /\ new.nap.slept = total
  BY <1>4, NapTyped DEF ThreadRecord, Nap
<1>7. /\ req >= 0
      /\ total + req = thread[t].nap.slept + thread[t].nap.req
  BY <1>2, <1>3, NapTyped DEF Remaining
<1> QED BY <1>1, <1>5, <1>6, <1>7, StepKept DEF NapKept

(* Only a time that overflowed is refused.                                 *)
LEMMA RefusedKept ==
  ASSUME IInv, NapKept, NEW t \in Thread, Refused(t)
  PROVE  NapKept'
<1>1. thread[t].pc = "sleeping" /\ thread[t].nap.req < 0
  BY DEF Refused, Sleeps, Runs
<1>2. Overflows(thread[t].nap.asked)
  BY <1>1, NapTyped DEF NapKept
<1>3. PICK rem : Step(t, [thread[t] EXCEPT !.nap.req = rem])
  BY DEF Refused
<1>4. PICK new : new = [thread[t] EXCEPT !.nap.req = rem]
  OBVIOUS
<1>5. new.nap.asked = thread[t].nap.asked
  BY <1>4, NapTyped DEF ThreadRecord, Nap
<1> QED BY <1>2, <1>3, <1>4, <1>5, StepKept

LEMMA ProgramKept ==
  ASSUME NapKept, NEW p \in Program,
         nova_create_semaphore(p) \/ nova_close_semaphore(p) \/ Restart(p)
  PROVE  NapKept'
<1>1. NewThread.pc # "sleeping"
  BY NewTyped
<1>2. \A u \in Thread : thread'[u] = thread[u] \/ thread'[u] = NewThread
  BY DEF nova_create_semaphore, nova_close_semaphore, Restart
<1> QED BY <1>1, <1>2, AwakeKept DEF NoneFallsAsleep

LEMMA ThreadKept ==
  ASSUME IInv, NapKept, NEW t \in Thread,
         \/ create_thread(t) \/ lib_nova_thread_join(t) \/ JoinReturn(t)
         \/ lib_nova_thread_cancel(t) \/ lib_nova_thread_run(t) \/ Awake(t)
         \/ Wait(t) \/ Post(t) \/ End(t)
  PROVE  NapKept'
<1>1. DOMAIN thread = Thread /\ thread[t] \in ThreadRecord
  BY DEF IInv, TypeInv
<1>2. \A place \in {"created", "failed", "joined", "running", "ended"} :
        At(place).pc # "sleeping"
  BY NewTyped
<1>3. CASE create_thread(t) \/ JoinReturn(t) \/ lib_nova_thread_run(t) \/ End(t)
  <2>1. PICK place \in {"created", "failed", "joined", "running", "ended"} :
          thread' = [thread EXCEPT ![t] = At(place)]
    BY <1>3 DEF create_thread, JoinReturn, lib_nova_thread_run, End, Step
  <2> QED BY <1>1, <1>2, <2>1, AwakeKept DEF NoneFallsAsleep
<1>4. CASE \/ lib_nova_thread_join(t) \/ lib_nova_thread_cancel(t)
           \/ Wait(t) /\ Undefined(ProgramOf[t])
  <2>1. thread' = thread \/ \E S : Killed(S)
    BY <1>4 DEF lib_nova_thread_join, lib_nova_thread_cancel, Undefined
  <2>2. \A u \in Thread : thread'[u] = thread[u] \/ thread'[u] = At("ended")
    BY <2>1 DEF Killed
  <2> QED BY <1>2, <2>2, AwakeKept DEF NoneFallsAsleep
<1>5. CASE Awake(t) \/ (Wait(t) /\ ~Undefined(ProgramOf[t])) \/ Post(t)
  <2>1. PICK new : thread' = [thread EXCEPT ![t] = new] /\ new.pc # "sleeping"
    <3>1. CASE Awake(t)
      <4>1. PICK new : new = [thread[t] EXCEPT !.pc = "left", !.nap = NoNap]
        OBVIOUS
      <4>2. new.pc # "sleeping"
        BY <1>1, <4>1 DEF ThreadRecord
      <4>3. thread' = [thread EXCEPT ![t] = new]
        BY <3>1, <4>1 DEF Awake, Step
      <4> QED BY <4>2, <4>3
    <3>2. CASE Wait(t) /\ ~Undefined(ProgramOf[t])
      <4>1. PICK s, new : /\ new = [thread[t] EXCEPT !.pc = "critical", !.held = s]
                          /\ Step(t, new)
        BY <3>2 DEF Wait
      <4>2. new.pc # "sleeping"
        BY <1>1, <4>1 DEF ThreadRecord
      <4>3. thread' = [thread EXCEPT ![t] = new]
        BY <4>1 DEF Step
      <4> QED BY <4>2, <4>3
    <3>3. CASE Post(t)
      <4>1. PICK new : new = [thread[t] EXCEPT !.pc = "left", !.held = 0]
        OBVIOUS
      <4>2. new.pc # "sleeping"
        BY <1>1, <4>1 DEF ThreadRecord
      <4>3. thread' = [thread EXCEPT ![t] = new]
        BY <3>3, <4>1 DEF Post, Step
      <4> QED BY <4>2, <4>3
    <3> QED BY <1>5, <3>1, <3>2, <3>3
  <2> QED BY <1>1, <2>1, AwakeKept DEF NoneFallsAsleep
<1> QED BY <1>3, <1>4, <1>5

LEMMA NapInvariance == Spec => [](IInv /\ NapKept)
<1>1. Init => NapKept
  BY NewTyped DEF Init, NapKept
<1>2. IInv /\ NapKept /\ [Next]_vars => NapKept'
  <2> SUFFICES ASSUME IInv, NapKept, [Next]_vars PROVE NapKept'
    OBVIOUS
  <2>1. CASE UNCHANGED vars
    BY <2>1, AwakeKept DEF NoneFallsAsleep, vars
  <2>2. ASSUME NEW p \in Program,
               nova_create_semaphore(p) \/ nova_close_semaphore(p) \/ Restart(p)
        PROVE  NapKept'
    BY <2>2, ProgramKept
  <2>3. ASSUME NEW t \in Thread,
               \/ create_thread(t) \/ lib_nova_thread_join(t) \/ JoinReturn(t)
               \/ lib_nova_thread_cancel(t) \/ Works(t) \/ Interrupted(t)
               \/ \E millis \in Millis[t] : thread_nanosleep(t, millis)
        PROVE  NapKept'
    BY <2>3, ThreadKept, SleepKept, InterruptedKept, RefusedKept DEF Works
  <2> QED BY <2>1, <2>2, <2>3 DEF Next
<1> QED BY <1>1, <1>2, InitInv, NextInv, PTL DEF Spec

(* A sleep that is interrupted any number of times takes what was asked    *)
(* for, if the nanoseconds fit an int.                                     *)
THEOREM SleepsTakeTheirTime == Spec => SleepsLongEnough
<1>1. IInv /\ NapKept =>
        \A t \in Thread : Awake(t) =>
          LET nap == thread[t].nap
          IN  nap.slept + nap.req >= nap.asked * PerMilli \/ Overflows(nap.asked)
  <2> SUFFICES ASSUME IInv, NapKept, NEW t \in Thread, Awake(t),
                      ~Overflows(thread[t].nap.asked)
               PROVE  thread[t].nap.slept + thread[t].nap.req >= thread[t].nap.asked * PerMilli
    OBVIOUS
  <2>1. thread[t].pc = "sleeping"
    BY DEF Awake, Sleeps, Runs
  <2>2. thread[t].nap.asked * PerMilli \in Int
    BY NapTyped, ThreadsAssumption
  <2> QED BY <2>1, <2>2 DEF NapKept
<1> QED BY <1>1, NapInvariance, PTL DEF SleepsLongEnough

-----------------------------------------------------------------------------
(***************************************************************************)
(* What csWheelLock protects when windows are opened only while nobody is  *)
(* in the critical section: for any number of windows, any deltas and any  *)
(* lines per click.                                                        *)
(***************************************************************************)
(* The thread between Enter and Leave is the one the lock names.           *)
InsideLocks == \A t \in Threads : Inside(t) => lock = t

(* Past Reset the shared window is the thread's own.                       *)
CurrentIsOwn ==
  \A t \in Threads : pc[t] \in {"accumulate", "leave"} => hwndCurrent = t

(* All deltas that are accumulated are the current window's.               *)
FromCurrent == \A d \in Directions : from[d] \subseteq {hwndCurrent}

(* The inductive invariant.                                                *)
ScrollBarInv == TypeOK /\ InsideLocks /\ CurrentIsOwn /\ FromCurrent

-----------------------------------------------------------------------------
LEMMA DivInt ==
  ASSUME NEW a \in Int, NEW b \in Nat \ {0}
  PROVE  Div(a, b) \in Int
BY DEF Div

LEMMA ScrollBarInitInv == ScrollBarInit => ScrollBarInv
BY DEF ScrollBarInit, ScrollBarInv, TypeOK, InsideLocks, CurrentIsOwn, FromCurrent, Inside, Event, Directions

LEMMA CreateWindowInv ==
  ASSUME ScrollBarInv, NEW t \in Threads, \A u \in Threads : ~Inside(u), Create(t)
  PROVE  ScrollBarInv'
<1>1. TypeOK'
  BY DEF ScrollBarInv, TypeOK, Create, Goto
<1>2. \A u \in Threads : ~Inside(u)'
  BY DEF ScrollBarInv, TypeOK, Create, Goto, Inside
<1>3. InsideLocks' /\ CurrentIsOwn'
  BY <1>2 DEF InsideLocks, CurrentIsOwn, Inside
<1>4. FromCurrent'
  BY DEF ScrollBarInv, FromCurrent, Create
<1> QED BY <1>1, <1>3, <1>4 DEF ScrollBarInv

(* Steps of a thread that is not in the critical section and stays outside.*)
LEMMA OutsideInv ==
  ASSUME ScrollBarInv, NEW t \in Threads,
         \/ Destroy(t)
         \/ \E delta \in Deltas, dir \in Directions : Wheel(t, delta, dir)
         \/ Scroll(t)
  PROVE  ScrollBarInv'
<1>1. TypeOK'
  <2>1. CASE Destroy(t)
    BY <2>1 DEF ScrollBarInv, TypeOK, Destroy, Goto, shared
  <2>2. ASSUME NEW delta \in Deltas, NEW dir \in Directions, Wheel(t, delta, dir)
        PROVE  TypeOK'
    BY <2>2 DEF ScrollBarInv, TypeOK, Wheel, Goto, shared, Event
  <2>3. CASE Scroll(t)
    <3>1. event[t].dir \in Directions /\ pos[t] \in [Directions -> Int]
      BY DEF ScrollBarInv, TypeOK, Event
    <3> QED BY <2>3, <3>1 DEF ScrollBarInv, TypeOK, Scroll, Goto, shared
  <2> QED BY <2>1, <2>2, <2>3
<1>2. /\ UNCHANGED shared
      /\ pc' = [pc EXCEPT ![t] = pc'[t]]
      /\ pc'[t] \in {"closed", "loop", "enter"}
  BY DEF ScrollBarInv, TypeOK, Destroy, Wheel, Scroll, Goto
<1>3. InsideLocks' /\ CurrentIsOwn' /\ FromCurrent'
  BY <1>2 DEF ScrollBarInv, TypeOK, InsideLocks, CurrentIsOwn, FromCurrent, Inside, shared
<1> QED BY <1>1, <1>3 DEF ScrollBarInv

LEMMA EnterInv ==
  ASSUME ScrollBarInv, NEW t \in Threads, EnterCriticalSection(t)
  PROVE  ScrollBarInv'
<1>1. TypeOK'
  BY DEF ScrollBarInv, TypeOK, EnterCriticalSection, Goto
<1>2. \A u \in Threads : ~Inside(u)
  BY ScrollBarAssumption DEF ScrollBarInv, TypeOK, InsideLocks, EnterCriticalSection, Inside
<1>3. InsideLocks' /\ CurrentIsOwn'
  BY <1>2 DEF ScrollBarInv, TypeOK, InsideLocks, CurrentIsOwn, EnterCriticalSection, Goto, Inside
<1>4. FromCurrent'
  BY DEF ScrollBarInv, FromCurrent, EnterCriticalSection
<1> QED BY <1>1, <1>3, <1>4 DEF ScrollBarInv

(* Nobody else is inside when a thread takes a step inside.                *)
LEMMA Alone ==
  ASSUME ScrollBarInv, NEW t \in Threads, Inside(t), NEW u \in Threads, u # t
  PROVE  ~Inside(u)
BY DEF ScrollBarInv, InsideLocks

LEMMA ResetInv ==
  ASSUME ScrollBarInv, NEW t \in Threads, NEW inactive \in BOOLEAN, Reset(t, inactive)
  PROVE  ScrollBarInv'
<1>1. event[t].dir \in Directions
  BY DEF ScrollBarInv, TypeOK, Event
<1>2. TypeOK'
  <2>1. pc' = [pc EXCEPT ![t] = "accumulate"] /\ hwndCurrent' = t
        /\ UNCHANGED <<event, lines, pos, lock>>
    BY DEF Reset, Goto
  <2>2. /\ \/ accumulator' = [e \in Directions |-> 0]
           \/ accumulator' = [accumulator EXCEPT ![event[t].dir] = 0]
           \/ accumulator' = accumulator
        /\ \/ from' = [e \in Directions |-> {}]
           \/ from' = [from EXCEPT ![event[t].dir] = {}]
           \/ from' = from
    BY DEF Reset
  <2> QED BY <1>1, <2>1, <2>2 DEF ScrollBarInv, TypeOK
<1>3. Inside(t)
  BY DEF Reset, Inside
<1>4. \A u \in Threads : u # t => ~Inside(u)
  BY <1>3, Alone
<1>5. InsideLocks' /\ CurrentIsOwn'
  BY <1>3, <1>4 DEF ScrollBarInv, TypeOK, InsideLocks, CurrentIsOwn, Reset, Goto, Inside
<1>6. FromCurrent'
  BY <1>1 DEF ScrollBarInv, TypeOK, FromCurrent, Reset
<1> QED BY <1>2, <1>5, <1>6 DEF ScrollBarInv

LEMMA AccumulateInv ==
  ASSUME ScrollBarInv, NEW t \in Threads, NEW per \in LinesPer, Accumulate(t, per)
  PROVE  ScrollBarInv'
<1> DEFINE d    == event[t].dir
           sum  == accumulator[d] + event[t].delta
           roll == IF per > 0 THEN Div(sum * per, WheelDelta) ELSE 0
           rest == IF per > 0 THEN sum - Div(roll * WheelDelta, per) ELSE 0
<1>1. d \in Directions /\ event[t].delta \in Int
  <2>1. event[t] \in Event
    BY DEF ScrollBarInv, TypeOK
  <2>2. \A x \in Deltas \cup {0} : x \in Int
    BY ScrollBarAssumption
  <2> QED BY <2>1, <2>2 DEF Event
<1>2. sum \in Int
  BY <1>1 DEF ScrollBarInv, TypeOK
<1>3. per \in Nat /\ WheelDelta \in Nat \ {0}
  BY ScrollBarAssumption
<1>4. sum * per \in Int
  BY <1>2, <1>3
<1>5. roll \in Int
  BY <1>3, <1>4, DivInt
<1>6. roll * WheelDelta \in Int
  BY <1>3, <1>5
<1>7. rest \in Int
  <2>1. CASE per > 0
    <3>1. Div(roll * WheelDelta, per) \in Int
      BY <1>3, <1>6, <2>1, DivInt
    <3> QED BY <1>2, <3>1
  <2>2. CASE ~(per > 0)
    BY <2>2
  <2> QED BY <2>1, <2>2
<1>8. /\ pc[t] = "accumulate"
      /\ accumulator' = [accumulator EXCEPT ![d] = rest]
      /\ from' = [from EXCEPT ![d] = IF per > 0 THEN @ \cup {t} ELSE {}]
      /\ lines' = [lines EXCEPT ![t] = IF d = "vert" THEN -roll ELSE roll]
      /\ pc' = [pc EXCEPT ![t] = "leave"]
      /\ UNCHANGED <<event, pos, lock, hwndCurrent>>
  BY DEF Accumulate, Goto
<1> HIDE DEF sum, roll, rest
<1>9. TypeOK'
  BY <1>1, <1>5, <1>7, <1>8 DEF ScrollBarInv, TypeOK
<1>10. Inside(t) /\ hwndCurrent = t
  BY <1>8 DEF ScrollBarInv, CurrentIsOwn, Inside
<1>11. \A u \in Threads : u # t => ~Inside(u)
  BY <1>10, Alone
<1>12. InsideLocks' /\ CurrentIsOwn'
  BY <1>8, <1>10, <1>11 DEF ScrollBarInv, TypeOK, InsideLocks, CurrentIsOwn, Inside
<1>13. FromCurrent'
  BY <1>1, <1>8, <1>10 DEF ScrollBarInv, TypeOK, FromCurrent
<1> QED BY <1>9, <1>12, <1>13 DEF ScrollBarInv

LEMMA LeaveInv ==
  ASSUME ScrollBarInv, NEW t \in Threads, LeaveCriticalSection(t)
  PROVE  ScrollBarInv'
<1>1. TypeOK'
  BY DEF ScrollBarInv, TypeOK, LeaveCriticalSection, Goto
<1>2. Inside(t)
  BY DEF LeaveCriticalSection, Inside
<1>3. \A u \in Threads : u # t => ~Inside(u)
  BY <1>2, Alone
<1>4. InsideLocks' /\ CurrentIsOwn'
  BY <1>3 DEF ScrollBarInv, TypeOK, InsideLocks, CurrentIsOwn, LeaveCriticalSection, Goto, Inside
<1>5. FromCurrent'
  BY DEF ScrollBarInv, FromCurrent, LeaveCriticalSection
<1> QED BY <1>1, <1>4, <1>5 DEF ScrollBarInv

LEMMA ScrollBarStepInv == ScrollBarInv /\ [ScrollBarNext]_scrollBarVars => ScrollBarInv'
<1> SUFFICES ASSUME ScrollBarInv, [ScrollBarNext]_scrollBarVars PROVE ScrollBarInv'
  OBVIOUS
<1>1. CASE UNCHANGED scrollBarVars
  BY <1>1 DEF ScrollBarInv, TypeOK, InsideLocks, CurrentIsOwn, FromCurrent, Inside, scrollBarVars, shared
<1>2. CASE ScrollBarNext
  <2>1. PICK t \in Threads :
          ((\A u \in Threads : ~Inside(u)) /\ Create(t)) \/ Message(t)
    BY <1>2 DEF ScrollBarNext
  <2> QED
    BY <2>1, CreateWindowInv, OutsideInv, EnterInv, ResetInv, AccumulateInv, LeaveInv DEF Message
<1> QED BY <1>1, <1>2

(* The invariant holds as long as windows are opened with care.            *)
THEOREM ScrollBarInvariance == ScrollBarSpec => []ScrollBarInv
BY ScrollBarInitInv, ScrollBarStepInv, PTL DEF ScrollBarSpec

(* The lock protects the static variables of WheelScrollLines: at most one *)
(* thread is between EnterCriticalSection and LeaveCriticalSection.        *)
THEOREM LockProtects == ScrollBarSpec => []MutualExclusion
<1>1. ScrollBarInv => MutualExclusion
  BY DEF ScrollBarInv, InsideLocks, MutualExclusion
<1> QED BY <1>1, ScrollBarInvariance, PTL

(* No window scrolls by what another window's wheel has accumulated.       *)
THEOREM ScrollsByOwnDeltas == ScrollBarSpec => []OwnDeltasOnly
<1>1. ScrollBarInv => OwnDeltasOnly
  BY DEF ScrollBarInv, CurrentIsOwn, FromCurrent, OwnDeltasOnly
<1> QED BY <1>1, ScrollBarInvariance, PTL

-----------------------------------------------------------------------------
(* x points in the direction of the delta, or nowhere.                     *)
Along(delta, x) == IF delta >= 0 THEN x >= 0 ELSE x <= 0

(* Once Reset is done, what is accumulated is not against the new delta.   *)
AccumulatorAlong ==
  \A t \in Threads : pc[t] = "accumulate" => Along(event[t].delta, accumulator[event[t].dir])

LinesAlong ==
  \A t \in Threads : pc[t] \in {"leave", "scroll"} =>
    Along(event[t].delta, IF event[t].dir = "vert" THEN -lines[t] ELSE lines[t])

LEMMA DivSign ==
  ASSUME NEW a \in Int, NEW b \in Nat \ {0}
  PROVE  /\ a >= 0 => Div(a, b) >= 0
         /\ a <= 0 => Div(a, b) <= 0
<1>1. \A c \in Nat : c \div b >= 0
  OBVIOUS
<1>2. 0 \div b = 0
  OBVIOUS
<1>3. CASE a > 0
  BY <1>1, <1>3 DEF Div
<1>4. CASE a = 0
  BY <1>2, <1>4 DEF Div
<1>5. CASE a < 0
  <2>1. -a \in Nat /\ (-a) \div b \in Int
    BY <1>5
  <2>2. (-a) \div b >= 0
    BY <1>1, <2>1
  <2> QED BY <1>5, <2>1, <2>2 DEF Div
<1> QED BY <1>3, <1>4, <1>5

LEMMA TimesSign ==
  ASSUME NEW a \in Int, NEW b \in Nat
  PROVE  /\ a >= 0 => a * b >= 0
         /\ a <= 0 => a * b <= 0
OBVIOUS

LEMMA AlongProduct ==
  ASSUME NEW a \in Int, NEW b \in Int, Along(a, b)
  PROVE  b * a >= 0
BY DEF Along

LEMMA EventTyped ==
  ASSUME ScrollBarInv, NEW t \in Threads
  PROVE  event[t].delta \in Int /\ event[t].dir \in Directions
<1>1. event[t] \in Event
  BY DEF ScrollBarInv, TypeOK
<1>2. \A x \in Deltas \cup {0} : x \in Int
  BY ScrollBarAssumption
<1> QED BY <1>1, <1>2 DEF Event

LEMMA AlongInv == ScrollBarInv /\ AccumulatorAlong /\ LinesAlong /\ [ScrollBarNext]_scrollBarVars
                    => AccumulatorAlong' /\ LinesAlong'
<1> SUFFICES ASSUME ScrollBarInv, AccumulatorAlong, LinesAlong, [ScrollBarNext]_scrollBarVars
             PROVE  AccumulatorAlong' /\ LinesAlong'
  OBVIOUS
<1>1. CASE UNCHANGED scrollBarVars
  BY <1>1 DEF AccumulatorAlong, LinesAlong, scrollBarVars, shared
<1>2. ASSUME NEW t \in Threads, Message(t) \/ Create(t)
      PROVE  AccumulatorAlong' /\ LinesAlong'
  <2>1. /\ event[t].delta \in Int /\ event[t].dir \in Directions
        /\ accumulator \in [Directions -> Int]
    BY EventTyped DEF ScrollBarInv, TypeOK
  <2>2. CASE Create(t) \/ Destroy(t) \/ EnterCriticalSection(t)
             \/ \E delta \in Deltas, dir \in Directions : Wheel(t, delta, dir)
    <3>1. /\ pc'[t] \notin {"accumulate", "leave", "scroll"}
          /\ \A u \in Threads : u # t => pc'[u] = pc[u] /\ event'[u] = event[u]
          /\ accumulator' = accumulator /\ lines' = lines
      BY <2>2 DEF ScrollBarInv, TypeOK, Create, Destroy, EnterCriticalSection, Wheel, Goto, shared
    <3> QED BY <3>1 DEF AccumulatorAlong, LinesAlong
  <2>3. CASE LeaveCriticalSection(t) \/ Scroll(t)
    <3>1. /\ pc[t] \in {"leave", "scroll"} /\ pc'[t] \notin {"accumulate"}
          /\ \A u \in Threads : u # t => pc'[u] = pc[u]
          /\ accumulator' = accumulator /\ lines' = lines /\ event' = event
      BY <2>3 DEF ScrollBarInv, TypeOK, LeaveCriticalSection, Scroll, Goto, shared
    <3> QED BY <3>1 DEF AccumulatorAlong, LinesAlong
  <2>4. ASSUME NEW inactive \in BOOLEAN, Reset(t, inactive)
        PROVE  AccumulatorAlong' /\ LinesAlong'
    <3>1. /\ Inside(t) /\ pc'[t] = "accumulate" /\ event' = event /\ lines' = lines
          /\ \A u \in Threads : u # t => pc'[u] = pc[u] /\ ~Inside(u)
      BY <2>4, Alone DEF ScrollBarInv, TypeOK, Reset, Goto, Inside
    <3>2. Along(event[t].delta, accumulator'[event[t].dir])
      <4>1. CASE accumulator'[event[t].dir] = 0
        BY <4>1 DEF Along
      <4>2. CASE accumulator'[event[t].dir] # 0
        <5>1. accumulator' = accumulator
              /\ (accumulator[event[t].dir] > 0) # (event[t].delta < 0)
          BY <2>1, <2>4, <4>2 DEF Reset
        <5> QED BY <2>1, <5>1 DEF Along
      <4> QED BY <4>1, <4>2
    <3> QED BY <3>1, <3>2 DEF AccumulatorAlong, LinesAlong, Inside
  <2>5. ASSUME NEW per \in LinesPer, Accumulate(t, per)
        PROVE  AccumulatorAlong' /\ LinesAlong'
    <3> DEFINE sum  == accumulator[event[t].dir] + event[t].delta
               roll == IF per > 0 THEN Div(sum * per, WheelDelta) ELSE 0
    <3>1. /\ Inside(t) /\ pc'[t] = "leave" /\ event' = event
          /\ lines'[t] = IF event[t].dir = "vert" THEN -roll ELSE roll
          /\ \A u \in Threads : u # t => pc'[u] = pc[u] /\ lines'[u] = lines[u] /\ ~Inside(u)
      BY <2>5, Alone DEF ScrollBarInv, TypeOK, Accumulate, Goto, Inside
    <3>2. Along(event[t].delta, sum) /\ sum \in Int
      BY <2>1, <2>5 DEF AccumulatorAlong, Accumulate, Along
    <3>3. per \in Nat /\ WheelDelta \in Nat \ {0}
      BY ScrollBarAssumption
    <3> HIDE DEF sum
    <3>4. Along(event[t].delta, roll) /\ roll \in Int
      <4>1. sum * per \in Int /\ (sum >= 0 => sum * per >= 0) /\ (sum <= 0 => sum * per <= 0)
        BY <3>2, <3>3, TimesSign
      <4>2. /\ Div(sum * per, WheelDelta) \in Int
            /\ sum * per >= 0 => Div(sum * per, WheelDelta) >= 0
            /\ sum * per <= 0 => Div(sum * per, WheelDelta) <= 0
        BY <3>3, <4>1, DivInt, DivSign
      <4> QED BY <3>2, <4>1, <4>2 DEF Along
    <3> HIDE DEF roll
    <3>5. (IF event[t].dir = "vert" THEN -lines'[t] ELSE lines'[t]) = roll
      BY <3>1, <3>4
    <3> QED BY <3>1, <3>4, <3>5 DEF AccumulatorAlong, LinesAlong, Inside
  <2> QED BY <1>2, <2>2, <2>3, <2>4, <2>5 DEF Message
<1> QED BY <1>1, <1>2 DEF ScrollBarNext

(* No window scrolls against its wheel: what was accumulated in the other  *)
(* direction is gone when the lines are computed.                          *)
THEOREM ScrollsWithTheWheel == ScrollBarSpec => []NeverBackwards
<1>1. ScrollBarInit => AccumulatorAlong /\ LinesAlong
  BY DEF ScrollBarInit, AccumulatorAlong, LinesAlong
<1>2. ScrollBarInv /\ LinesAlong => NeverBackwards
  <2> SUFFICES ASSUME ScrollBarInv, LinesAlong, NEW t \in Threads, pc[t] \in {"leave", "scroll"}
               PROVE  lines[t] * event[t].delta
                        * (IF event[t].dir = "vert" THEN -1 ELSE 1) >= 0
    BY DEF NeverBackwards
  <2>1. event[t].delta \in Int /\ lines[t] \in Int
    BY EventTyped DEF ScrollBarInv, TypeOK
  <2>2. CASE event[t].dir = "vert"
    <3>1. -lines[t] \in Int /\ (-lines[t]) * event[t].delta >= 0
      BY <2>1, <2>2, AlongProduct DEF LinesAlong
    <3> QED BY <2>1, <2>2, <3>1
  <2>3. CASE event[t].dir # "vert"
    <3>1. lines[t] * event[t].delta >= 0
      BY <2>1, <2>3, AlongProduct DEF LinesAlong
    <3> QED BY <2>1, <2>3, <3>1
  <2> QED BY <2>2, <2>3
<1> QED BY <1>1, <1>2, ScrollBarInitInv, ScrollBarStepInv, AlongInv, PTL DEF ScrollBarSpec

=============================================================================
