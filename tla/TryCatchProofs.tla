--------------------------- MODULE TryCatchProofs ---------------------------
(***************************************************************************)
(* For every number of contexts, calls and exception classes: a throw      *)
(* finds each TRY statement whose body control is in; a handler is not     *)
(* entered again from within itself; a throw that jumps into a function    *)
(* that has returned goes to a statement whose body was left without an    *)
(* exception; and with no leftover on the chain a throw enters the         *)
(* innermost statement that catches its exception.                         *)
(*                                                                         *)
(* None is inductive, since a throw brings back the stack of an earlier    *)
(* moment.  The invariants therefore say of the stack that every context   *)
(* has saved what they say of the stack that control is in: its bodies are *)
(* on the chain that was current then, and its handlers are not (IInv);    *)
(* its frames are nested (NestedInv); and nothing else is on the chain but *)
(* what has been left without an exception since (CleanInv).               *)
(***************************************************************************)
EXTENDS TryCatch, SequenceTheorems, WellFoundedInduction, TLAPS

(* The bodies that the frames are in are on the chain of c, the handlers   *)
(* are not.                                                                *)
OnChain(frames, c) ==
  \A i \in 1..Len(frames) :
    /\ frames[i].phase = "body" => frames[i].ctx \in Chain(c)
    /\ frames[i].phase = "catch" => frames[i].ctx \notin Chain(c)

FrameOf(n) == [ctx : 1..n, phase : {"body", "catch", "finally"}]
Frames(n) == Seq(FrameOf(n))

HeapOK ==
  /\ heap \in Seq(Context)
  /\ \A c \in Contexts : heap[c].parent \in 0..(c - 1)

(* What a context has saved: the stack in which it was entered, with its   *)
(* own body on top.                                                        *)
HomeOK(c) ==
  LET home == heap[c].home
      n    == Len(home)
  IN  /\ n > 0
      /\ home \in Frames(c)
      /\ home[n] = [ctx |-> c, phase |-> "body"]
      /\ \A i \in 1..(n - 1) : home[i].ctx # c
      /\ OnChain(home, c)

IInv ==
  /\ TypeOK
  /\ stack \in Frames(Len(heap))
  /\ OnChain(stack, exceptionData)
  /\ \A c \in Contexts : HomeOK(c)

-----------------------------------------------------------------------------
(* The chain of a context is the context and the chain of its parent.      *)
LEMMA ChainOfNone == Chain(0) = {}
BY DEF Chain

LEMMA ChainStep ==
  ASSUME HeapOK, NEW c \in Contexts
  PROVE  /\ Chain(c) = {c} \cup Chain(heap[c].parent)
         /\ c \notin Chain(heap[c].parent)
<1> DEFINE p == heap[c].parent
<1>0. p \in 0..(c - 1) /\ c \in Nat /\ c # 0
  BY DEF HeapOK, Contexts
<1>1. ASSUME NEW d \in Chain(c), d # c
      PROVE  d \in Chain(p)
  <2>1. d \in Contexts
    BY DEF Chain
  <2>2. CASE p = 0
    <3>1. Closed({c}) /\ {c} \in SUBSET Contexts
      BY <2>2 DEF Closed
    <3> QED BY <3>1, <1>1 DEF Chain
  <2>3. CASE p # 0
    <3>1. ASSUME NEW S \in SUBSET Contexts, p \in S, Closed(S)
          PROVE  d \in S
      <4>1. Closed(S \cup {c}) /\ S \cup {c} \in SUBSET Contexts
        BY <3>1 DEF Closed
      <4>2. d \in S \cup {c}
        BY <4>1, <1>1, <1>0 DEF Chain
      <4> QED BY <4>2, <1>1
    <3> QED BY <3>1, <2>1, <2>3 DEF Chain
  <2> QED BY <2>2, <2>3
<1>2. ASSUME NEW d \in Chain(p)
      PROVE  d \in Chain(c)
  <2>1. d \in Contexts /\ p # 0
    BY DEF Chain
  <2>2. ASSUME NEW S \in SUBSET Contexts, c \in S, Closed(S)
        PROVE  d \in S
    <3>1. p \in S
      BY <2>1, <2>2 DEF Closed
    <3> QED BY <3>1, <2>2, <1>2 DEF Chain
  <2> QED BY <2>1, <2>2, <1>0 DEF Chain
<1>3. c \in Chain(c)
  BY <1>0 DEF Chain
<1>4. c \notin Chain(p)
  <2>1. SUFFICES ASSUME c \in Chain(p)
                 PROVE  FALSE
    OBVIOUS
  <2>2. p # 0
    BY <2>1 DEF Chain
  <2> DEFINE S == {x \in Contexts : x <= p}
  <2>3. S \in SUBSET Contexts /\ p \in S
    BY <1>0, <2>2 DEF Contexts, HeapOK
  <2>4. Closed(S)
    <3>1. SUFFICES ASSUME NEW x \in S, heap[x].parent # 0
                   PROVE  heap[x].parent \in S
      BY DEF Closed
    <3>2. heap[x].parent \in 0..(x - 1)
      BY DEF HeapOK
    <3> QED BY <3>1, <3>2, <1>0 DEF Contexts, HeapOK
  <2>5. c \in S
    BY <2>1, <2>3, <2>4 DEF Chain
  <2> QED BY <2>5, <1>0
<1> QED BY <1>1, <1>2, <1>3, <1>4

Linked == \A c \in Contexts : Chain(c) = {c} \cup Chain(heap[c].parent)

LEMMA ChainsLinked == HeapOK => Linked
BY ChainStep DEF Linked

(* A new context leaves the chains of the others as they are.              *)
LEMMA ChainsStay ==
  ASSUME HeapOK, HeapOK',
         Contexts \subseteq Contexts',
         \A x \in Contexts : heap'[x] = heap[x],
         NEW c \in 0..Len(heap)
  PROVE  Chain(c)' = Chain(c)
<1>0. \A x \in Contexts : heap'[x].parent = heap[x].parent /\ heap[x].parent \in 0..(x - 1)
  BY DEF HeapOK
<1>1. CASE c = 0
  BY <1>1 DEF Chain
<1>2. CASE c # 0
  <2>0. c \in Contexts
    BY <1>2 DEF Contexts, HeapOK
  <2>1. ASSUME NEW S \in SUBSET Contexts, Closed(S)
        PROVE  Closed(S)' /\ S \in SUBSET Contexts'
    BY <2>1, <1>0 DEF Closed
  <2>2. ASSUME NEW S \in SUBSET Contexts', Closed(S)'
        PROVE  Closed(S \cap Contexts)
    <3>1. SUFFICES ASSUME NEW x \in S \cap Contexts, heap[x].parent # 0
                   PROVE  heap[x].parent \in S \cap Contexts
      BY DEF Closed
    <3>2. heap[x].parent \in S
      BY <2>2, <3>1, <1>0 DEF Closed
    <3>3. heap[x].parent \in Contexts
      BY <3>1, <1>0 DEF Contexts, HeapOK
    <3> QED BY <3>2, <3>3
  <2>3. Closed(Contexts)
    <3>1. ASSUME NEW x \in Contexts, heap[x].parent # 0
          PROVE  heap[x].parent \in Contexts
      BY <3>1, <1>0 DEF Contexts, HeapOK
    <3> QED BY <3>1 DEF Closed
  <2>4. ASSUME NEW d \in Chain(c)
        PROVE  d \in Chain(c)'
    <3>1. d \in Contexts'
      BY DEF Chain
    <3>2. ASSUME NEW S \in SUBSET Contexts', c \in S, Closed(S)'
          PROVE  d \in S
      <4>1. Closed(S \cap Contexts) /\ c \in S \cap Contexts
        BY <3>2, <2>2, <2>0
      <4> QED BY <4>1, <2>4 DEF Chain
    <3> QED BY <3>1, <3>2, <1>2 DEF Chain
  <2>5. ASSUME NEW d \in Chain(c)'
        PROVE  d \in Chain(c)
    <3>1. d \in Contexts
      <4>1. PICK K : K = Contexts
        OBVIOUS
      <4>2. K \in SUBSET Contexts /\ Closed(K) /\ c \in K
        BY <4>1, <2>3, <2>0
      <4>3. Closed(K)' /\ K \in SUBSET Contexts'
        BY <4>2, <2>1
      <4> QED BY <4>1, <4>2, <4>3, <2>5 DEF Chain
    <3>2. ASSUME NEW S \in SUBSET Contexts, c \in S, Closed(S)
          PROVE  d \in S
      <4>1. Closed(S)' /\ S \in SUBSET Contexts'
        BY <3>2, <2>1
      <4> QED BY <4>1, <3>2, <2>5 DEF Chain
    <3> QED BY <3>1, <3>2, <1>2 DEF Chain
  <2> QED BY <2>4, <2>5
<1> QED BY <1>1, <1>2

-----------------------------------------------------------------------------
LEMMA TypeGivesHeap == TypeOK => HeapOK
BY DEF TypeOK, HeapOK

LEMMA EndOfSequence ==
  ASSUME NEW S, NEW s \in Seq(S), Len(s) > 0
  PROVE  /\ Len(s) \in Nat \ {0} /\ s[Len(s)] \in S
         /\ AllButLast(s) \in Seq(S)
         /\ Len(AllButLast(s)) = Len(s) - 1
         /\ \A i \in 1..(Len(s) - 1) : AllButLast(s)[i] = s[i]
<1>1. Len(s) \in Nat \ {0} /\ \A i \in 1..Len(s) : s[i] \in S
  OBVIOUS
<1>2. PICK n \in Nat : n = Len(s) - 1
  BY <1>1
<1>3. \A i \in 1..n : s[i] \in S
  BY <1>1, <1>2
<1>4. /\ SubSeq(s, 1, n) \in Seq(S)
      /\ Len(SubSeq(s, 1, n)) = n
      /\ \A i \in 1..n : SubSeq(s, 1, n)[i] = s[i]
  BY <1>3, SubSeqProperties
<1> QED BY <1>1, <1>2, <1>4 DEF AllButLast

LEMMA PhaseOfTop ==
  ASSUME NEW n \in Nat, NEW frames \in Frames(n), Len(frames) > 0,
         NEW phase \in {"body", "catch", "finally"}
  PROVE  /\ WithPhase(frames, phase) \in Frames(n)
         /\ Len(WithPhase(frames, phase)) = Len(frames)
         /\ \A i \in 1..(Len(frames) - 1) : WithPhase(frames, phase)[i] = frames[i]
         /\ WithPhase(frames, phase)[Len(frames)]
              = [ctx |-> frames[Len(frames)].ctx, phase |-> phase]
<1> DEFINE top == [ctx |-> frames[Len(frames)].ctx, phase |-> phase]
<1>2. frames[Len(frames)] \in FrameOf(n) /\ frames \in Seq(FrameOf(n))
  BY EndOfSequence DEF Frames
<1>1. Len(frames) \in 1..Len(frames) /\ Len(frames) \in Nat
  BY <1>2
<1>3. top \in FrameOf(n)
  BY <1>2 DEF FrameOf
<1>4. [frames[Len(frames)] EXCEPT !.phase = phase] = top
  <2>1. PICK f : f = frames[Len(frames)]
    OBVIOUS
  <2>2. f = [ctx |-> f.ctx, phase |-> f.phase]
    BY <1>2, <2>1 DEF FrameOf
  <2>3. [f EXCEPT !.phase = phase] = [ctx |-> f.ctx, phase |-> phase]
    BY <2>2
  <2> QED BY <2>1, <2>3
<1>5. WithPhase(frames, phase) = [frames EXCEPT ![Len(frames)] = top]
  BY <1>1, <1>4 DEF WithPhase
<1>6. PICK t : t = top
  OBVIOUS
<1>7. WithPhase(frames, phase) = [frames EXCEPT ![Len(frames)] = t] /\ t \in FrameOf(n)
  BY <1>3, <1>5, <1>6
<1> HIDE DEF top
<1>8. /\ WithPhase(frames, phase) \in Seq(FrameOf(n))
      /\ Len(WithPhase(frames, phase)) = Len(frames)
      /\ \A i \in 1..(Len(frames) - 1) : WithPhase(frames, phase)[i] = frames[i]
      /\ WithPhase(frames, phase)[Len(frames)] = t
  BY <1>1, <1>2, <1>7
<1> QED BY <1>6, <1>8 DEF Frames, top

(* A frame that is left, or whose handler or body is over, takes nothing   *)
(* from what holds of the others.                                          *)
LEMMA LeaveFrame ==
  ASSUME NEW n \in Nat, NEW frames \in Frames(n), Len(frames) > 0,
         NEW c, OnChain(frames, c)
  PROVE  /\ WithPhase(frames, "finally") \in Frames(n)
         /\ OnChain(WithPhase(frames, "finally"), c)
         /\ AllButLast(frames) \in Frames(n)
         /\ OnChain(AllButLast(frames), c)
<1>1. Len(frames) \in Nat /\ Len(frames) \in 1..Len(frames)
  BY DEF Frames
<1> DEFINE g == WithPhase(frames, "finally")
<1>0. /\ g \in Frames(n) /\ Len(g) = Len(frames)
      /\ \A i \in 1..(Len(frames) - 1) : g[i] = frames[i]
      /\ g[Len(frames)] = [ctx |-> frames[Len(frames)].ctx, phase |-> "finally"]
  BY PhaseOfTop
<1> HIDE DEF g
<1>2. OnChain(g, c)
  <2>1. SUFFICES ASSUME NEW i \in 1..Len(frames)
                 PROVE  /\ g[i].phase = "body" => g[i].ctx \in Chain(c)
                        /\ g[i].phase = "catch" => g[i].ctx \notin Chain(c)
    BY <1>0 DEF OnChain
  <2>2. CASE i = Len(frames)
    BY <2>2, <1>0
  <2>3. CASE i # Len(frames)
    <3>1. g[i] = frames[i]
      BY <2>3, <1>1, <1>0
    <3> QED BY <3>1 DEF OnChain
  <2> QED BY <2>2, <2>3
<1>3. /\ AllButLast(frames) \in Frames(n)
      /\ Len(AllButLast(frames)) = Len(frames) - 1
      /\ \A i \in 1..(Len(frames) - 1) : AllButLast(frames)[i] = frames[i]
  BY EndOfSequence DEF Frames
<1>4. OnChain(AllButLast(frames), c)
  BY <1>1, <1>3 DEF OnChain
<1> QED BY <1>0, <1>2, <1>3, <1>4 DEF g

(* Leaving all frames but the first ones takes nothing from these.         *)
LEMMA FirstFrames ==
  ASSUME NEW n \in Nat, NEW frames \in Frames(n), NEW k \in 0..Len(frames),
         NEW c, OnChain(frames, c)
  PROVE  /\ SubSeq(frames, 1, k) \in Frames(n)
         /\ Len(SubSeq(frames, 1, k)) = k
         /\ \A i \in 1..k : SubSeq(frames, 1, k)[i] = frames[i]
         /\ OnChain(SubSeq(frames, 1, k), c)
<1>1. Len(frames) \in Nat /\ \A i \in 1..Len(frames) : frames[i] \in FrameOf(n)
  BY DEF Frames
<1>2. \A i \in 1..k : i \in 1..Len(frames)
  BY <1>1
<1>3. PICK g : g = SubSeq(frames, 1, k)
  OBVIOUS
<1>4. g \in Seq(FrameOf(n)) /\ Len(g) = k /\ \A i \in 1..k : g[i] = frames[i]
  BY <1>1, <1>2, <1>3, SubSeqProperties
<1>5. OnChain(g, c)
  BY <1>2, <1>4 DEF OnChain
<1> QED
  BY <1>3, <1>4, <1>5 DEF Frames

(* A step that allocates no context leaves everything about them.          *)
LEMMA SameHeap ==
  ASSUME IInv, UNCHANGED heap
  PROVE  /\ \A c \in 0..Len(heap) : Chain(c)' = Chain(c)
         /\ \A c \in Contexts' : HomeOK(c)'
<1>1. ASSUME NEW c
      PROVE  Chain(c)' = Chain(c)
  <2>1. Contexts' = Contexts
    BY DEF Contexts
  <2>2. \A S : Closed(S)' <=> Closed(S)
    BY DEF Closed
  <2> QED BY <2>1, <2>2 DEF Chain
<1>2. ASSUME NEW c \in Contexts'
      PROVE  HomeOK(c)'
  <2>1. HomeOK(c)
    BY DEF IInv, Contexts
  <2>2. PICK home : home = heap[c].home
    OBVIOUS
  <2>3. home = heap[c].home'
    BY <2>2
  <2>4. OnChain(home, c)'
    BY <2>1, <2>2, <1>1 DEF HomeOK, OnChain
  <2> QED BY <2>1, <2>2, <2>3, <2>4 DEF HomeOK, Frames
<1> QED BY <1>1, <1>2

LEMMA Framed ==
  ASSUME NEW n \in Nat, NEW m \in Nat, n <= m
  PROVE  /\ Frames(n) \subseteq Frames(m)
         /\ Frames(n) \subseteq Seq(Frame)
<1>1. FrameOf(n) \subseteq FrameOf(m) /\ FrameOf(n) \subseteq Frame
  BY DEF FrameOf, Frame
<1> QED BY <1>1 DEF Frames

(* What a step that allocates no context has to establish.                 *)
LEMMA KeepsInvariant ==
  ASSUME IInv, UNCHANGED heap, TypeOK',
         NEW s, s = stack', NEW x \in 0..Len(heap), x = exceptionData',
         s \in Frames(Len(heap)), OnChain(s, x)
  PROVE  IInv'
<1>1. OnChain(s, x)'
  BY SameHeap DEF OnChain
<1>2. OnChain(stack, exceptionData)'
  BY <1>1
<1>3. (stack \in Frames(Len(heap)))'
  OBVIOUS
<1> QED BY <1>2, <1>3, SameHeap DEF IInv

LEMMA InitOK == Init => IInv
<1>1. ASSUME Init
      PROVE  IInv
  <2>1. TypeOK
    BY <1>1, TryCatchAssumption DEF Init, TypeOK, Contexts
  <2>2. stack \in Frames(Len(heap)) /\ OnChain(stack, exceptionData)
    BY <1>1 DEF Init, Frames, OnChain
  <2>3. Contexts = {}
    BY <1>1 DEF Init, Contexts
  <2> QED BY <2>1, <2>2, <2>3 DEF IInv
<1> QED BY <1>1

(* TRY: the new context's chain is the context and the chain so far, the   *)
(* bodies of the stack stay on it, and no handler is the new context.      *)
LEMMA EnterTryKeeps ==
  ASSUME IInv, NEW caught \in SUBSET Types, EnterTry(caught)
  PROVE  IInv'
<1> DEFINE n == Len(heap)
<1> PICK new \in Nat : new = n + 1
  BY DEF IInv, TypeOK
<1>0. /\ TypeOK /\ HeapOK /\ n \in Nat /\ new = n + 1 /\ Contexts = 1..n
      /\ exceptionData \in 0..n
  BY TypeGivesHeap DEF IInv, TypeOK, Contexts
<1> HIDE DEF n
<1>s. PICK top : top = [ctx |-> new, phase |-> "body"]
  OBVIOUS
<1>1. /\ stack' = Append(stack, top)
      /\ heap' = Append(heap, [parent |-> exceptionData, caught |-> caught,
                               home |-> stack', calls |-> active])
      /\ exceptionData' = new
      /\ UNCHANGED <<active, nextCall, state, completed>>
  BY <1>s DEF EnterTry, Enter, n
<1>2. top \in FrameOf(new) /\ top \in Frame
  BY <1>s, <1>0 DEF FrameOf, Frame
<1>3. stack \in Seq(FrameOf(new)) /\ stack \in Seq(FrameOf(n))
  BY <1>0, Framed DEF IInv, Frames, n
<1>4. PICK st : st = stack'
  OBVIOUS
<1>5. /\ st \in Seq(FrameOf(new)) /\ Len(st) = Len(stack) + 1
      /\ \A i \in 1..Len(stack) : st[i] = stack[i]
      /\ st[Len(st)] = top /\ Len(stack) \in Nat
  BY <1>1, <1>2, <1>3, <1>4
<1>6. st \in Seq(Frame)
  BY <1>0, <1>5, Framed DEF Frames
<1>r. PICK r : r = [parent |-> exceptionData, caught |-> caught, home |-> st, calls |-> active]
  OBVIOUS
<1>7. r \in Context /\ r.parent = exceptionData /\ r.home = st
  <2>1. exceptionData \in Nat /\ active \in Seq(0..MaxCalls)
    BY <1>0 DEF TypeOK
  <2> QED BY <1>r, <1>6, <2>1 DEF Context
<1>8. /\ heap' = Append(heap, r) /\ heap' \in Seq(Context)
      /\ Len(heap') = new /\ heap'[new] = r
      /\ \A c \in 1..n : heap'[c] = heap[c]
  <2>1. heap' = Append(heap, r)
    BY <1>1, <1>4, <1>r
  <2>2. heap \in Seq(Context)
    BY <1>0 DEF TypeOK
  <2> QED BY <2>1, <2>2, <1>7, <1>0 DEF n
<1>9. Contexts' = 1..new /\ Contexts \subseteq Contexts'
  BY <1>8, <1>0 DEF Contexts
<1>10. TypeOK'
  <2>1. \A c \in Contexts' : heap'[c].parent \in 0..(c - 1)
    BY <1>0, <1>7, <1>8, <1>9 DEF TypeOK
  <2> QED BY <2>1, <1>0, <1>1, <1>4, <1>6, <1>8, <1>9 DEF TypeOK
<1>11. HeapOK' /\ new \in Contexts'
  BY <1>10, <1>9, <1>0, TypeGivesHeap DEF HeapOK, TypeOK
<1>12. \A c \in 0..n : Chain(c)' = Chain(c)
  BY <1>0, <1>8, <1>9, <1>11, ChainsStay DEF n
<1>13. Chain(new)' = {new} \cup Chain(exceptionData)
  <2>0. (HeapOK => Linked)'
    BY ChainsLinked, PTL
  <2>1. Chain(new)' = {new} \cup Chain(heap[new].parent)'
    BY <2>0, <1>11 DEF Linked
  <2>2. PICK x \in 0..n : x = exceptionData
    BY <1>0
  <2>3. heap'[new].parent = x
    BY <1>8, <1>7, <2>2
  <2>4. Chain(heap[new].parent)' = Chain(x)'
    BY <2>3
  <2> QED BY <2>1, <2>2, <2>4, <1>11, <1>12
<1>14. OnChain(st, new)'
  <2>1. SUFFICES ASSUME NEW i \in 1..Len(st)
                 PROVE  /\ st[i].phase = "body" => st[i].ctx \in Chain(new)'
                        /\ st[i].phase = "catch" => st[i].ctx \notin Chain(new)'
    BY DEF OnChain
  <2>2. CASE i = Len(st)
    BY <2>2, <1>5, <1>s, <1>13
  <2>3. CASE i # Len(st)
    <3>1. i \in 1..Len(stack) /\ st[i] = stack[i]
      BY <2>3, <1>5
    <3>2. st[i] \in FrameOf(n)
      BY <3>1, <1>3
    <3>3. st[i].ctx # new
      BY <3>2, <1>0 DEF FrameOf
    <3> QED BY <3>1, <3>3, <1>13 DEF IInv, OnChain
  <2> QED BY <2>2, <2>3
<1>15. ASSUME NEW c \in Contexts'
       PROVE  HomeOK(c)'
  <2>1. CASE c = new
    <3>1. heap'[c].home = st
      BY <2>1, <1>7, <1>8
    <3>2. ASSUME NEW i \in 1..(Len(st) - 1)
          PROVE  st[i].ctx # new
      <4>1. st[i] \in FrameOf(n)
        BY <1>3, <1>5
      <4> QED BY <4>1, <1>0 DEF FrameOf
    <3> QED BY <2>1, <3>1, <3>2, <1>5, <1>s, <1>14 DEF HomeOK, Frames
  <2>2. CASE c # new
    <3>1. c \in Contexts /\ c \in 0..n /\ heap'[c] = heap[c]
      BY <2>2, <1>0, <1>8, <1>9
    <3>2. HomeOK(c)
      BY <3>1 DEF IInv
    <3>3. PICK home : home = heap[c].home
      OBVIOUS
    <3>4. OnChain(home, c)'
      BY <3>1, <3>2, <3>3, <1>12 DEF HomeOK, OnChain
    <3>5. heap'[c].home = home
      BY <3>1, <3>3
    <3> QED BY <3>2, <3>3, <3>4, <3>5 DEF HomeOK
  <2> QED BY <2>1, <2>2
<1>16. OnChain(stack, exceptionData)' /\ (stack \in Frames(Len(heap)))'
  BY <1>1, <1>4, <1>5, <1>8, <1>14 DEF Frames
<1> QED BY <1>10, <1>15, <1>16 DEF IInv

(* The end of a body, of a handler and of a statement.                     *)
LEMMA EndKeeps ==
  ASSUME IInv, EndBody \/ EndCatch \/ EndFinally
  PROVE  IInv'
<1>1. PICK n \in Nat : n = Len(heap)
  BY DEF IInv, TypeOK
<1>2. /\ TypeOK /\ stack \in Frames(n) /\ OnChain(stack, exceptionData)
      /\ exceptionData \in 0..n
  BY <1>1 DEF IInv, TypeOK
<1>3. stack # << >> /\ UNCHANGED <<heap, exceptionData, active, nextCall, state>>
  BY DEF EndBody, EndCatch, EndFinally, Running, InTry
<1>4. Len(stack) > 0 /\ Top \in FrameOf(n)
  BY <1>2, <1>3, EndOfSequence, EmptySeq DEF Frames, Top
<1>5. PICK s : s = stack'
  OBVIOUS
<1>6. s \in Frames(n) /\ OnChain(s, exceptionData)
  BY <1>2, <1>4, <1>5, LeaveFrame DEF EndBody, EndCatch, EndFinally
<1>7. completed' \subseteq Contexts
  <2>1. Top.ctx \in Contexts
    BY <1>1, <1>4 DEF FrameOf, Contexts
  <2> QED BY <1>2, <2>1 DEF TypeOK, EndBody, EndCatch, EndFinally
<1>8. TypeOK'
  <2>1. s \in Seq(Frame)
    BY <1>6, Framed
  <2>2. Contexts' = Contexts
    BY <1>3 DEF Contexts
  <2> QED BY <1>2, <1>3, <1>5, <1>7, <2>1, <2>2 DEF TypeOK
<1>9. PICK x \in 0..n : x = exceptionData
  BY <1>2
<1> QED BY <1>1, <1>3, <1>5, <1>6, <1>8, <1>9, KeepsInvariant

LEMMA CallKeeps ==
  ASSUME IInv, Call \/ UNCHANGED vars
  PROVE  IInv'
<1>1. UNCHANGED <<heap, exceptionData, stack, completed>>
  BY DEF Call, vars
<1>2. /\ TypeOK /\ stack \in Frames(Len(heap)) /\ OnChain(stack, exceptionData)
  BY DEF IInv
<1>3. active' \in Seq(0..MaxCalls) /\ nextCall' \in 1..(MaxCalls + 1)
  <2>1. active \in Seq(0..MaxCalls) /\ nextCall \in 1..(MaxCalls + 1) /\ MaxCalls \in Nat
    BY <1>2, TryCatchAssumption DEF TypeOK
  <2>2. CASE Call
    BY <2>1, <2>2 DEF Call
  <2>3. CASE UNCHANGED vars
    BY <2>1, <2>3 DEF vars
  <2> QED BY <2>2, <2>3
<1>4. state' \in {"running", "exited", "undefined"}
  BY <1>2 DEF TypeOK, Call, vars
<1>5. TypeOK'
  BY <1>1, <1>2, <1>3, <1>4 DEF TypeOK, Contexts
<1>6. PICK s, x : s = stack /\ x = exceptionData
  OBVIOUS
<1>7. s = stack' /\ x = exceptionData' /\ x \in 0..Len(heap)
      /\ s \in Frames(Len(heap)) /\ OnChain(s, x)
  BY <1>1, <1>2, <1>6 DEF TypeOK
<1> QED BY <1>1, <1>5, <1>7, KeepsInvariant

(* Break and return leave the last frames, wherever control is in them.    *)
LEMMA LeaveKeeps ==
  ASSUME IInv, Break \/ Return
  PROVE  IInv'
<1>1. PICK n \in Nat : n = Len(heap)
  BY DEF IInv, TypeOK
<1>2. /\ TypeOK /\ stack \in Frames(n) /\ OnChain(stack, exceptionData)
      /\ exceptionData \in 0..n /\ Len(stack) \in Nat
      /\ active \in Seq(0..MaxCalls)
  BY <1>1, LenProperties DEF IInv, TypeOK, Frames
<1>3. UNCHANGED <<heap, exceptionData, nextCall>>
  BY DEF Break, Return
<1>4. PICK k \in 0..Len(stack) : Leave(k)
  <2>1. 0..(Len(stack) - 1) \subseteq 0..Len(stack)
    BY <1>2
  <2> QED
    BY <2>1 DEF Break, Return
<1>5. PICK s : s = stack'
  OBVIOUS
<1>6. s \in Frames(n) /\ OnChain(s, exceptionData)
  BY <1>2, <1>4, <1>5, FirstFrames DEF Leave
<1>7. completed' \subseteq Contexts
  <2>1. \A i \in (k + 1)..Len(stack) : stack[i] \in FrameOf(n)
    BY <1>2, <1>4 DEF Frames
  <2>2. \A i \in (k + 1)..Len(stack) : stack[i].ctx \in Contexts
    BY <1>1, <2>1 DEF FrameOf, Contexts
  <2> QED
    BY <1>2, <1>4, <2>2 DEF Leave, TypeOK
<1>8. active' \in Seq(0..MaxCalls)
  BY <1>2, EndOfSequence DEF Break, Return
<1>9. state' \in {"running", "exited", "undefined"}
  BY <1>2 DEF TypeOK, Break, Return
<1>10. TypeOK'
  <2>1. s \in Seq(Frame)
    BY <1>6, Framed
  <2>2. Contexts' = Contexts
    BY <1>3 DEF Contexts
  <2> QED BY <1>2, <1>3, <1>5, <1>7, <1>8, <1>9, <2>1, <2>2 DEF TypeOK
<1>11. PICK x \in 0..n : x = exceptionData
  BY <1>2
<1> QED BY <1>1, <1>3, <1>5, <1>6, <1>10, <1>11, KeepsInvariant

(* A throw brings back the stack that the context saved, with its own frame*)
(* in a handler or over, and the chain of the context's parent: of the     *)
(* context's chain just the context is missing.                            *)
LEMMA LandKeeps ==
  ASSUME IInv, NEW c \in Contexts, NEW e \in Types, Land(c, e),
         UNCHANGED <<heap, nextCall, completed, state>>
  PROVE  IInv'
<1>1. PICK home : home = heap[c].home
  OBVIOUS
<1>2. PICK p : p = heap[c].parent
  OBVIOUS
<1>3. /\ TypeOK /\ HeapOK /\ c \in Nat /\ c <= Len(heap) /\ Len(heap) \in Nat
      /\ p \in 0..Len(heap) /\ heap[c] \in Context
  <2>1. TypeOK /\ HeapOK
    BY TypeGivesHeap DEF IInv
  <2>2. Len(heap) \in Nat /\ c \in 1..Len(heap) /\ heap[c] \in Context
    BY <2>1 DEF HeapOK, Contexts
  <2>3. p \in 0..(c - 1)
    BY <1>2, <2>1 DEF HeapOK
  <2> QED
    BY <2>1, <2>2, <2>3
<1>4. PICK phase \in {"catch", "finally"} :
        stack' = WithPhase(home, phase) /\ exceptionData' = p /\ active' = heap[c].calls
  BY <1>1, <1>2 DEF Land
<1>5. /\ Len(home) > 0 /\ home \in Frames(c) /\ OnChain(home, c)
      /\ home[Len(home)].ctx = c
      /\ \A i \in 1..(Len(home) - 1) : home[i].ctx # c
  <2>1. HomeOK(c)
    BY DEF IInv
  <2>2. home[Len(home)] = [ctx |-> c, phase |-> "body"]
    BY <2>1, <1>1 DEF HomeOK
  <2>3. home[Len(home)].ctx = c
    BY <2>2
  <2> QED BY <2>1, <2>3, <1>1 DEF HomeOK
<1>6. PICK s : s = stack'
  OBVIOUS
<1>7. /\ s \in Frames(c) /\ Len(s) = Len(home)
      /\ \A i \in 1..(Len(home) - 1) : s[i] = home[i]
      /\ s[Len(home)] = [ctx |-> home[Len(home)].ctx, phase |-> phase]
  <2>1. phase \in {"body", "catch", "finally"}
    OBVIOUS
  <2>2. s = WithPhase(home, phase)
    BY <1>4, <1>6
  <2> QED BY <1>3, <1>5, <2>1, <2>2, PhaseOfTop
<1>8. Chain(c) = {c} \cup Chain(p) /\ c \notin Chain(p)
  BY <1>2, <1>3, ChainStep
<1>9. OnChain(s, p)
  <2>1. SUFFICES ASSUME NEW i \in 1..Len(s)
                 PROVE  /\ s[i].phase = "body" => s[i].ctx \in Chain(p)
                        /\ s[i].phase = "catch" => s[i].ctx \notin Chain(p)
    BY DEF OnChain
  <2>0. Len(home) \in Nat
    BY <1>5, EndOfSequence DEF Frames
  <2>2. CASE i = Len(home)
    <3>1. s[i].phase = phase /\ s[i].ctx = c
      BY <2>2, <1>5, <1>7
    <3> QED BY <3>1, <1>8
  <2>3. CASE i # Len(home)
    <3>1. i \in 1..(Len(home) - 1) /\ i \in 1..Len(home)
      BY <2>0, <2>3, <1>7
    <3> QED BY <3>1, <1>5, <1>7, <1>8 DEF OnChain
  <2> QED BY <2>2, <2>3
<1>10. s \in Frames(Len(heap)) /\ s \in Seq(Frame)
  BY <1>3, <1>7, Framed
<1>11. TypeOK'
  <2>1. active' \in Seq(0..MaxCalls)
    BY <1>3, <1>4 DEF Context
  <2> QED BY <2>1, <1>3, <1>4, <1>6, <1>10 DEF TypeOK, Contexts
<1> QED BY <1>3, <1>4, <1>6, <1>9, <1>10, <1>11, KeepsInvariant

LEMMA ThrowKeeps ==
  ASSUME IInv, NEW e \in Types, Throw(e)
  PROVE  IInv'
<1>1. UNCHANGED <<heap, nextCall, completed>>
  BY DEF Throw
<1>2. CASE UNCHANGED <<exceptionData, active, stack>>
  <2>1. state' \in {"running", "exited", "undefined"}
    BY DEF Throw, IInv, TypeOK
  <2>2. TypeOK'
    BY <1>1, <1>2, <2>1 DEF IInv, TypeOK, Contexts
  <2>3. PICK s, x : s = stack /\ x = exceptionData
    OBVIOUS
  <2>4. s = stack' /\ x = exceptionData' /\ x \in 0..Len(heap)
        /\ s \in Frames(Len(heap)) /\ OnChain(s, x)
    BY <1>2, <2>3 DEF IInv, TypeOK
  <2> QED BY <1>1, <2>2, <2>4, KeepsInvariant
<1>3. CASE ~UNCHANGED <<exceptionData, active, stack>>
  <2>1. PICK c \in Handlers(e) : Land(c, e) /\ UNCHANGED state
    BY <1>3 DEF Throw
  <2>2. c \in Contexts
    BY DEF Handlers, Chain
  <2> QED BY <1>1, <2>1, <2>2, LandKeeps
<1> QED BY <1>2, <1>3

LEMMA StepOK == IInv /\ [Next]_vars => IInv'
<1>1. ASSUME IInv, [Next]_vars
      PROVE  IInv'
  <2>1. ASSUME NEW caught \in SUBSET Types, EnterTry(caught)
        PROVE  IInv'
    BY <2>1, <1>1, EnterTryKeeps
  <2>2. CASE EndBody \/ EndCatch \/ EndFinally
    BY <2>2, <1>1, EndKeeps
  <2>3. CASE Call \/ UNCHANGED vars
    BY <2>3, <1>1, CallKeeps
  <2>4. CASE Break \/ Return
    BY <2>4, <1>1, LeaveKeeps
  <2>5. ASSUME NEW e \in Types, Throw(e)
        PROVE  IInv'
    BY <2>5, <1>1, ThrowKeeps
  <2> QED BY <1>1, <2>1, <2>2, <2>3, <2>4, <2>5 DEF Next, Stopped
<1> QED BY <1>1

LEMMA Invariance == Spec => []IInv
BY InitOK, StepOK, PTL DEF Spec

-----------------------------------------------------------------------------
(* The variables stay in their ranges; a context's parent is older.        *)
THEOREM TypeCorrect == Spec => []TypeOK
BY Invariance, PTL DEF IInv

(* Whatever was thrown before, a throw finds every TRY whose body control  *)
(* is in.                                                                  *)
THEOREM BodiesFound == Spec => []LiveBodiesOnChain
<1>1. IInv => LiveBodiesOnChain
  BY DEF IInv, OnChain, LiveBodiesOnChain, LiveBodies
<1> QED BY <1>1, Invariance, PTL

(* An exception thrown in a handler never comes back to the same TRY.      *)
THEOREM HandlersLeft == Spec => []HandlerNotReentered
<1>1. IInv => HandlerNotReentered
  BY DEF IInv, OnChain, HandlerNotReentered
<1> QED BY <1>1, Invariance, PTL

-----------------------------------------------------------------------------
(***************************************************************************)
(* Where a throw goes.  The frames of the stack are nested: a frame is     *)
(* younger than those below it, its function was called by theirs, and a   *)
(* body still has below it what its context saved.  The same holds of the  *)
(* stack that every context saved.  So the youngest matching context on a  *)
(* chain of live bodies is the innermost statement, and landing there      *)
(* restores what is below.                                                 *)
(***************************************************************************)
Begins(s, t) == Len(s) <= Len(t) /\ \A k \in 1..Len(s) : t[k] = s[k]

Nested(frames, calls) ==
  \A i \in 1..Len(frames) :
    /\ Begins(heap[frames[i].ctx].calls, calls)
    /\ \A j \in 1..(i - 1) :
         /\ frames[j].ctx < frames[i].ctx
         /\ Begins(heap[frames[j].ctx].calls, heap[frames[i].ctx].calls)
    /\ frames[i].phase = "body" => heap[frames[i].ctx].home = SubSeq(frames, 1, i)

NestedInv ==
  /\ Nested(stack, active)
  /\ \A c \in Contexts : Nested(heap[c].home, heap[c].calls)

(* On the chain of c are bodies of the frames, and contexts whose body was *)
(* left.                                                                   *)
OnlyBodies(frames, c, left) ==
  \A d \in Chain(c) :
    \/ d \in left
    \/ \E i \in 1..Len(frames) : frames[i].ctx = d /\ frames[i].phase = "body"

CleanInv ==
  /\ OnlyBodies(stack, exceptionData, completed)
  /\ \A c \in Contexts : OnlyBodies(heap[c].home, c, completed)

-----------------------------------------------------------------------------
(* Two sequences that agree up to n have the same first n elements.        *)
LEMMA SameStart ==
  ASSUME NEW S, NEW s \in Seq(S), NEW t \in Seq(S), NEW n \in Nat, n <= Len(s), n <= Len(t),
         \A i \in 1..n : s[i] = t[i]
  PROVE  SubSeq(s, 1, n) = SubSeq(t, 1, n)
<1>1. Len(s) \in Nat /\ Len(t) \in Nat
      /\ \A i \in 1..n : s[i] \in S /\ t[i] \in S
  BY LenProperties, ElementOfSeq
<1>2. /\ SubSeq(s, 1, n) \in Seq(S) /\ Len(SubSeq(s, 1, n)) = n
      /\ \A i \in 1..n : SubSeq(s, 1, n)[i] = s[i]
  BY <1>1, SubSeqProperties
<1>3. /\ SubSeq(t, 1, n) \in Seq(S) /\ Len(SubSeq(t, 1, n)) = n
      /\ \A i \in 1..n : SubSeq(t, 1, n)[i] = t[i]
  BY <1>1, SubSeqProperties
<1> QED
  BY <1>2, <1>3, SeqEqual

LEMMA BeginsItself ==
  ASSUME NEW S, NEW s \in Seq(S)
  PROVE  Begins(s, s)
BY LenProperties DEF Begins

LEMMA BeginsTransitive ==
  ASSUME NEW S, NEW s \in Seq(S), NEW t \in Seq(S), NEW u \in Seq(S),
         Begins(s, t), Begins(t, u)
  PROVE  Begins(s, u)
BY LenProperties DEF Begins

(* The calls a context saved are still active if the active ones begin so. *)
LEMMA BeginsActive ==
  ASSUME NEW S, NEW s \in Seq(S), active \in Seq(S), Begins(s, active)
  PROVE  StillActive(s)
<1>1. PICK n \in Nat : n = Len(s)
  BY LenProperties
<1>2. n <= Len(active) /\ \A i \in 1..n : active[i] = s[i]
  BY <1>1 DEF Begins
<1>3. Len(active) \in Nat
  BY LenProperties
<1>4. SubSeq(active, 1, n) = SubSeq(s, 1, n)
  BY <1>1, <1>2, <1>3, SameStart
<1>5. SubSeq(s, 1, n) = s
  BY <1>1, SubSeqFull
<1> QED
  BY <1>1, <1>2, <1>4, <1>5 DEF StillActive

(* The calls and the home of a context are of their types.                 *)
LEMMA SavedTypes ==
  ASSUME IInv, NEW c \in Contexts
  PROVE  /\ heap[c].calls \in Seq(0..MaxCalls)
         /\ heap[c].home \in Frames(c) /\ heap[c].home \in Frames(Len(heap))
         /\ Len(heap[c].home) \in Nat \ {0}
         /\ heap[c].home[Len(heap[c].home)] = [ctx |-> c, phase |-> "body"]
         /\ \A f \in Frames(Len(heap)) : \A i \in 1..Len(f) : f[i].ctx \in Contexts
<1>1. heap[c] \in Context /\ c \in Nat /\ Len(heap) \in Nat /\ c <= Len(heap)
  BY DEF IInv, TypeOK, Contexts
<1>2. HomeOK(c)
  BY DEF IInv
<1>3. Len(heap[c].home) \in Nat
  BY <1>2, LenProperties DEF HomeOK, Frames
<1>4. ASSUME NEW f \in Frames(Len(heap)), NEW i \in 1..Len(f) PROVE f[i].ctx \in Contexts
  <2>1. f[i] \in FrameOf(Len(heap))
    BY DEF Frames
  <2> QED
    BY <2>1 DEF FrameOf, Contexts
<1> QED
  BY <1>1, <1>2, <1>3, <1>4, Framed DEF Context, HomeOK

LEMMA FrameContexts ==
  ASSUME IInv, NEW f \in Frames(Len(heap)), NEW i \in 1..Len(f)
  PROVE  /\ f[i].ctx \in Contexts /\ heap[f[i].ctx].calls \in Seq(0..MaxCalls)
         /\ f[i].ctx \in Nat
<1>1. f[i] \in FrameOf(Len(heap)) /\ Len(heap) \in Nat
  BY DEF Frames, IInv, TypeOK
<1>2. f[i].ctx \in Contexts /\ f[i].ctx \in Nat
  BY <1>1 DEF FrameOf, Contexts
<1> QED
  BY <1>2, SavedTypes

(* What is nested stays so as long as the contexts it is about do.         *)
LEMMA NestedStays ==
  ASSUME IInv, \A c \in Contexts : heap'[c] = heap[c],
         NEW f \in Frames(Len(heap)), NEW q, Nested(f, q)
  PROVE  Nested(f, q)'
<1>1. \A i \in 1..Len(f) : heap'[f[i].ctx] = heap[f[i].ctx]
  BY FrameContexts
<1>2. PICK new : new = heap'
  OBVIOUS
<1>3. \A i \in 1..Len(f) : \A j \in 1..(i - 1) : j \in 1..Len(f)
  BY LenProperties DEF Frames
<1>4. \A i \in 1..Len(f) : new[f[i].ctx] = heap[f[i].ctx]
  BY <1>1, <1>2
<1>5. \A i \in 1..Len(f) :
        /\ Begins(new[f[i].ctx].calls, q)
        /\ \A j \in 1..(i - 1) :
             /\ f[j].ctx < f[i].ctx
             /\ Begins(new[f[j].ctx].calls, new[f[i].ctx].calls)
        /\ f[i].phase = "body" => new[f[i].ctx].home = SubSeq(f, 1, i)
  BY <1>3, <1>4 DEF Nested
<1> QED
  BY <1>2, <1>5 DEF Nested, Begins

(* Leaving the top frame, or its body or handler, keeps the others nested. *)
LEMMA NestedTop ==
  ASSUME IInv, NEW f \in Frames(Len(heap)), Len(f) > 0, NEW q, Nested(f, q)
  PROVE  /\ Nested(AllButLast(f), q)
         /\ \A phase \in {"catch", "finally"} : Nested(WithPhase(f, phase), q)
<1>1. PICK n \in Nat : n = Len(f) /\ n > 0
  BY LenProperties DEF Frames
<1>2. Len(heap) \in Nat /\ f \in Seq(FrameOf(Len(heap)))
  BY DEF IInv, TypeOK, Frames
<1>3. \A i \in 1..n :
        /\ Begins(heap[f[i].ctx].calls, q)
        /\ \A j \in 1..(i - 1) :
             /\ f[j].ctx < f[i].ctx
             /\ Begins(heap[f[j].ctx].calls, heap[f[i].ctx].calls)
        /\ f[i].phase = "body" => heap[f[i].ctx].home = SubSeq(f, 1, i)
  BY <1>1 DEF Nested
<1>4. Nested(AllButLast(f), q)
  <2>1. PICK g : g = AllButLast(f)
    OBVIOUS
  <2>2. g \in Seq(FrameOf(Len(heap))) /\ Len(g) = n - 1 /\ \A i \in 1..(n - 1) : g[i] = f[i]
    BY <1>1, <1>2, <2>1, EndOfSequence
  <2>3. \A i \in 1..(n - 1) : SubSeq(g, 1, i) = SubSeq(f, 1, i)
    BY <1>1, <1>2, <2>2, SameStart
  <2>4. \A i \in 1..(n - 1) : i \in 1..n /\ \A j \in 1..(i - 1) : j \in 1..(n - 1)
    BY <1>1
  <2>5. Nested(g, q)
    BY <1>3, <2>2, <2>3, <2>4 DEF Nested
  <2> QED
    BY <2>1, <2>5
<1>5. ASSUME NEW phase \in {"catch", "finally"} PROVE Nested(WithPhase(f, phase), q)
  <2>1. PICK g : g = WithPhase(f, phase)
    OBVIOUS
  <2>2. /\ g \in Frames(Len(heap)) /\ Len(g) = n
        /\ \A i \in 1..(n - 1) : g[i] = f[i]
        /\ g[n] = [ctx |-> f[n].ctx, phase |-> phase]
    <3>1. phase \in {"body", "catch", "finally"}
      OBVIOUS
    <3> QED
      BY <1>1, <1>2, <2>1, <3>1, PhaseOfTop
  <2>3. \A i \in 1..(n - 1) : SubSeq(g, 1, i) = SubSeq(f, 1, i)
    BY <1>1, <1>2, <2>2, SameStart DEF Frames
  <2>4. \A i \in 1..n : g[i].ctx = f[i].ctx
    BY <1>1, <2>2
  <2>5. \A i \in 1..n : g[i].phase = "body" => i \in 1..(n - 1) /\ g[i] = f[i]
    BY <1>1, <2>2
  <2>6. \A i \in 1..n : \A j \in 1..(i - 1) : j \in 1..n
    BY <1>1
  <2>7. Nested(g, q)
    BY <1>3, <2>2, <2>3, <2>4, <2>5, <2>6 DEF Nested
  <2> QED
    BY <2>1, <2>7
<1> QED
  BY <1>4, <1>5

(* A step that allocates no context.                                       *)
LEMMA KeepsNested ==
  ASSUME IInv, NestedInv, UNCHANGED heap,
         NEW f \in Frames(Len(heap)), f = stack', NEW q, q = active', Nested(f, q)
  PROVE  NestedInv'
<1>1. Contexts' = Contexts /\ \A c \in Contexts : heap'[c] = heap[c]
  BY DEF Contexts
<1>2. Nested(stack, active)'
  <2>1. Nested(f, q)'
    BY <1>1, NestedStays
  <2> QED
    BY <2>1
<1>3. ASSUME NEW c \in Contexts PROVE Nested(heap[c].home, heap[c].calls)'
  <2>1. PICK h, r : h = heap[c].home /\ r = heap[c].calls
    OBVIOUS
  <2>2. h \in Frames(Len(heap)) /\ Nested(h, r)
    BY <2>1, SavedTypes DEF NestedInv
  <2>3. Nested(h, r)'
    BY <1>1, <2>2, NestedStays
  <2>4. heap'[c].home = h /\ heap'[c].calls = r
    BY <2>1
  <2> QED
    BY <2>3, <2>4 DEF Nested, Begins
<1> QED
  BY <1>1, <1>2, <1>3 DEF NestedInv

(* TRY: the new context saves the stack with its body on top.              *)
LEMMA EnterTryNested ==
  ASSUME IInv, NestedInv, NEW caught \in SUBSET Types, EnterTry(caught)
  PROVE  NestedInv'
<1>1. PICK n \in Nat : n = Len(heap)
  BY DEF IInv, TypeOK
<1>2. PICK top : top = [ctx |-> n + 1, phase |-> "body"]
  OBVIOUS
<1>3. PICK st : st = stack'
  OBVIOUS
<1>4. PICK r : r = [parent |-> exceptionData, caught |-> caught, home |-> st, calls |-> active]
  OBVIOUS
<1>5. st = Append(stack, top) /\ heap' = Append(heap, r) /\ UNCHANGED active
  BY <1>1, <1>2, <1>3, <1>4 DEF EnterTry, Enter
<1>6. stack \in Seq(FrameOf(n)) /\ heap \in Seq(Context) /\ active \in Seq(0..MaxCalls)
  BY <1>1 DEF IInv, TypeOK, Frames
<1>7. IInv'
  BY EnterTryKeeps
<1>8. PICK k \in Nat : k = Len(stack)
  BY <1>6, LenProperties
<1>9. st \in Seq(FrameOf(n + 1)) /\ stack \in Seq(FrameOf(n + 1)) /\ Len(st) = k + 1
      /\ (\A i \in 1..k : st[i] = stack[i]) /\ st[k + 1] = top
  <2>1. stack \in Seq(FrameOf(n + 1))
    BY <1>6, Framed DEF Frames
  <2>2. top \in FrameOf(n + 1)
    BY <1>2 DEF FrameOf
  <2> QED
    BY <1>5, <1>8, <2>1, <2>2
<1>10. /\ Len(heap') = n + 1 /\ heap'[n + 1] = r
       /\ \A c \in 1..n : heap'[c] = heap[c]
  <2>1. r.parent \in Nat /\ r \in Context
    <3>1. exceptionData \in Nat /\ st \in Seq(Frame)
      <4>1. exceptionData \in Nat
        BY <1>1 DEF IInv, TypeOK
      <4>2. st \in Frames(n + 1)
        BY <1>9 DEF Frames
      <4> QED
        BY <4>1, <4>2, Framed
    <3> QED
      BY <1>4, <1>6, <3>1 DEF Context
  <2> QED
    BY <1>1, <1>5, <1>6, <2>1
<1>11. Contexts = 1..n /\ Contexts' = 1..(n + 1)
  BY <1>1, <1>10 DEF Contexts
<1>12. Nested(stack, active)'
  <2>1. PICK q : q = active
    OBVIOUS
  <2>2. q \in Seq(0..MaxCalls) /\ Begins(q, q)
    BY <1>6, <2>1, BeginsItself
  <2>3. PICK new : new = heap'
    OBVIOUS
  <2>4. new[n + 1].calls = q /\ new[n + 1].home = st
    BY <1>4, <1>10, <2>1, <2>3
  <2>5. ASSUME NEW i \in 1..k
        PROVE  /\ st[i].ctx < n + 1 /\ Begins(new[st[i].ctx].calls, q)
               /\ \A j \in 1..(i - 1) :
                    /\ st[j].ctx < st[i].ctx
                    /\ Begins(new[st[j].ctx].calls, new[st[i].ctx].calls)
               /\ st[i].phase = "body" => new[st[i].ctx].home = SubSeq(st, 1, i)
    <3>1. /\ st[i] = stack[i]
          /\ Begins(heap[stack[i].ctx].calls, q)
          /\ \A j \in 1..(i - 1) :
               /\ stack[j].ctx < stack[i].ctx
               /\ Begins(heap[stack[j].ctx].calls, heap[stack[i].ctx].calls)
          /\ stack[i].phase = "body" => heap[stack[i].ctx].home = SubSeq(stack, 1, i)
      BY <1>8, <1>9, <2>1 DEF NestedInv, Nested
    <3>2. \A j \in 1..i : st[j] = stack[j] /\ stack[j].ctx \in 1..n
      <4>1. \A j \in 1..i : j \in 1..k
        BY <1>8
      <4>2. \A j \in 1..k : stack[j] \in FrameOf(n)
        BY <1>6, <1>8
      <4> QED
        BY <1>9, <4>1, <4>2 DEF FrameOf
    <3>3. \A j \in 1..i : new[st[j].ctx] = heap[stack[j].ctx]
      BY <1>10, <2>3, <3>2
    <3>4. SubSeq(st, 1, i) = SubSeq(stack, 1, i)
      BY <1>8, <1>9, <3>2, SameStart
    <3>5. i \in 1..i /\ \A j \in 1..(i - 1) : j \in 1..i
      BY <1>8
    <3> QED
      BY <3>1, <3>2, <3>3, <3>4, <3>5
  <2>6. SubSeq(st, 1, k + 1) = st
    BY <1>9, SubSeqFull
  <2>7. st[k + 1].ctx = n + 1
    BY <1>2, <1>9
  <2>8. ASSUME NEW i \in 1..(k + 1)
        PROVE  /\ Begins(new[st[i].ctx].calls, q)
               /\ \A j \in 1..(i - 1) :
                    /\ st[j].ctx < st[i].ctx
                    /\ Begins(new[st[j].ctx].calls, new[st[i].ctx].calls)
               /\ st[i].phase = "body" => new[st[i].ctx].home = SubSeq(st, 1, i)
    <3>1. CASE i \in 1..k
      BY <2>5, <3>1
    <3>2. CASE i = k + 1
      BY <2>2, <2>4, <2>5, <2>6, <2>7, <3>2
    <3> QED
      BY <1>8, <3>1, <3>2
  <2>9. stack' = st /\ active' = q /\ Len(st) = k + 1
    BY <1>3, <1>5, <1>9, <2>1
  <2> QED
    BY <2>3, <2>8, <2>9 DEF Nested, Begins
<1>13. ASSUME NEW c \in Contexts' PROVE Nested(heap[c].home, heap[c].calls)'
  <2>1. CASE c = n + 1
    <3>1. heap'[c].home = stack' /\ heap'[c].calls = active'
      BY <1>3, <1>4, <1>5, <1>10, <2>1
    <3> QED
      BY <1>12, <3>1 DEF Nested, Begins
  <2>2. CASE c # n + 1
    <3>1. c \in Contexts /\ heap'[c] = heap[c]
      BY <1>10, <1>11, <2>2
    <3>2. PICK h, q : h = heap[c].home /\ q = heap[c].calls
      OBVIOUS
    <3>3. h \in Frames(Len(heap)) /\ Nested(h, q)
      BY <3>1, <3>2, SavedTypes DEF NestedInv
    <3>4. Nested(h, q)'
      BY <1>10, <1>11, <3>3, NestedStays
    <3>5. heap'[c].home = h /\ heap'[c].calls = q
      BY <3>1, <3>2
    <3> QED
      BY <3>4, <3>5 DEF Nested, Begins
  <2> QED
    BY <2>1, <2>2
<1> QED
  BY <1>12, <1>13 DEF NestedInv

LEMMA EndNested ==
  ASSUME IInv, NestedInv, EndBody \/ EndCatch \/ EndFinally
  PROVE  NestedInv'
<1>1. stack # << >> /\ UNCHANGED <<heap, active>>
  BY DEF EndBody, EndCatch, EndFinally, Running, InTry
<1>2. stack \in Frames(Len(heap)) /\ Len(heap) \in Nat /\ Len(stack) > 0
  BY <1>1, EmptySeq DEF IInv, TypeOK, Frames
<1>3. Nested(AllButLast(stack), active) /\ Nested(WithPhase(stack, "finally"), active)
  BY <1>2, NestedTop DEF NestedInv
<1>4. PICK f : f = stack'
  OBVIOUS
<1>5. f \in Frames(Len(heap)) /\ Nested(f, active)
  <2>1. AllButLast(stack) \in Frames(Len(heap)) /\ WithPhase(stack, "finally") \in Frames(Len(heap))
    BY <1>2, LeaveFrame DEF IInv
  <2> QED
    BY <1>3, <1>4, <2>1 DEF EndBody, EndCatch, EndFinally
<1>6. PICK q : q = active
  OBVIOUS
<1> QED
  BY <1>1, <1>4, <1>5, <1>6, KeepsNested

(* A call adds one to the active calls.                                    *)
LEMMA CallNested ==
  ASSUME IInv, NestedInv, Call \/ UNCHANGED vars
  PROVE  NestedInv'
<1>1. UNCHANGED <<heap, stack>>
  BY DEF Call, vars
<1>2. /\ stack \in Frames(Len(heap)) /\ Len(stack) \in Nat
      /\ active \in Seq(0..MaxCalls) /\ Len(active) \in Nat
  BY LenProperties DEF IInv, TypeOK, Frames
<1>3. PICK q : q = active'
  OBVIOUS
<1>4. PICK f : f = stack
  OBVIOUS
<1>5. ASSUME \A i \in 1..Len(stack) : Begins(heap[stack[i].ctx].calls, q)
      PROVE  NestedInv'
  <2>1. Nested(f, q)
    BY <1>4, <1>5 DEF NestedInv, Nested
  <2> QED
    BY <1>1, <1>2, <1>3, <1>4, <2>1, KeepsNested
<1>6. CASE q = active
  BY <1>5, <1>6 DEF NestedInv, Nested
<1>7. CASE Call
  <2>1. Begins(active, q)
    <3>1. nextCall \in Nat /\ q = Append(active, nextCall)
      BY <1>3, <1>7, TryCatchAssumption DEF Call, IInv, TypeOK
    <3>2. active \in Seq(Nat)
      BY <1>2, TryCatchAssumption, SeqMonotonic
    <3> QED
      BY <3>1, <3>2 DEF Begins
  <2>2. ASSUME NEW i \in 1..Len(stack) PROVE Begins(heap[stack[i].ctx].calls, q)
    <3>1. Begins(heap[stack[i].ctx].calls, active)
      BY DEF NestedInv, Nested
    <3>2. Len(heap[stack[i].ctx].calls) \in Nat
      BY <1>2, FrameContexts, LenProperties
    <3>3. PICK s : s = heap[stack[i].ctx].calls
      OBVIOUS
    <3>4. Len(q) \in Nat
      BY <1>3, CallKeeps, LenProperties DEF IInv, TypeOK
    <3> QED
      BY <1>2, <2>1, <3>1, <3>2, <3>3, <3>4 DEF Begins
  <2> QED
    BY <1>5, <2>2
<1>8. CASE UNCHANGED vars
  <2>1. q = active
    BY <1>3, <1>8 DEF vars
  <2> QED
    BY <1>6, <2>1
<1> QED
  BY <1>6, <1>7, <1>8

(* The first frames are nested as they were, in the calls that all begin   *)
(* with theirs.                                                            *)
LEMMA NestedFirst ==
  ASSUME IInv, NEW f \in Frames(Len(heap)), NEW k \in 0..Len(f), NEW p, NEW q,
         Nested(f, p), \A i \in 1..k : Begins(heap[f[i].ctx].calls, q)
  PROVE  Nested(SubSeq(f, 1, k), q)
<1>1. Len(heap) \in Nat /\ f \in Seq(FrameOf(Len(heap))) /\ Len(f) \in Nat /\ k \in Nat
      /\ k <= Len(f)
  BY LenProperties DEF IInv, TypeOK, Frames
<1>2. PICK g : g = SubSeq(f, 1, k)
  OBVIOUS
<1>3. g \in Seq(FrameOf(Len(heap))) /\ Len(g) = k /\ \A i \in 1..k : g[i] = f[i]
  <2>1. \A i \in 1..k : f[i] \in FrameOf(Len(heap))
    BY <1>1
  <2> QED
    BY <1>1, <1>2, <2>1, SubSeqProperties
<1>4. \A i \in 1..k : SubSeq(g, 1, i) = SubSeq(f, 1, i)
  BY <1>1, <1>3, SameStart
<1>5. \A i \in 1..k : i \in 1..Len(f) /\ \A j \in 1..(i - 1) : j \in 1..k
  BY <1>1
<1>6. \A i \in 1..k :
        /\ \A j \in 1..(i - 1) :
             /\ f[j].ctx < f[i].ctx
             /\ Begins(heap[f[j].ctx].calls, heap[f[i].ctx].calls)
        /\ f[i].phase = "body" => heap[f[i].ctx].home = SubSeq(f, 1, i)
  BY <1>5 DEF Nested
<1>7. Nested(g, q)
  BY <1>3, <1>4, <1>5, <1>6 DEF Nested
<1> QED
  BY <1>2, <1>7

(* A break or a return leaves the last frames; a return also takes off the *)
(* last call, in which no other TRY statement was entered.                 *)
LEMMA LeaveNested ==
  ASSUME IInv, NestedInv, Break \/ Return
  PROVE  NestedInv'
<1>1. UNCHANGED heap
  BY DEF Break, Return
<1>2. /\ stack \in Frames(Len(heap)) /\ Len(stack) \in Nat /\ Len(heap) \in Nat
      /\ active \in Seq(0..MaxCalls) /\ Len(active) \in Nat
      /\ OnChain(stack, exceptionData)
  BY LenProperties DEF IInv, TypeOK, Frames
<1>3. PICK q : q = active'
  OBVIOUS
<1>4. PICK g : g = stack'
  OBVIOUS
<1>5. PICK k \in 0..Len(stack) :
        /\ Leave(k)
        /\ q = active \/ (/\ k > 0 => heap[stack[k].ctx].calls # active
                          /\ Len(active) > 1 /\ q = AllButLast(active))
  <2>1. 0..(Len(stack) - 1) \subseteq 0..Len(stack)
    BY <1>2
  <2>2. CASE Break
    BY <1>3, <2>1, <2>2 DEF Break
  <2>3. CASE Return
    BY <1>3, <2>3 DEF Return
  <2> QED
    BY <2>2, <2>3
<1>6. ASSUME NEW i \in 1..k PROVE Begins(heap[stack[i].ctx].calls, q)
  <2>1. CASE q = active
    <3>1. i \in 1..Len(stack)
      BY <1>2, <1>5
    <3> QED
      BY <2>1, <3>1 DEF NestedInv, Nested
  <2>2. CASE q # active
    <3>1. k \in 1..Len(stack) /\ i \in 1..Len(stack) /\ (i = k \/ i \in 1..(k - 1))
      BY <1>2, <1>5
    <3>2. PICK s : s = heap[stack[i].ctx].calls
      OBVIOUS
    <3>3. PICK t : t = heap[stack[k].ctx].calls
      OBVIOUS
    <3>4. s \in Seq(0..MaxCalls) /\ t \in Seq(0..MaxCalls)
      <4>1. s \in Seq(0..MaxCalls)
        BY <1>2, <3>1, <3>2, FrameContexts
      <4>2. t \in Seq(0..MaxCalls)
        BY <1>2, <3>1, <3>3, FrameContexts
      <4> QED
        BY <4>1, <4>2
    <3>5. Begins(t, active) /\ (i = k \/ Begins(s, t))
      BY <3>1, <3>2, <3>3 DEF NestedInv, Nested
    <3>6. t # active /\ q = AllButLast(active) /\ Len(active) > 1
      <4>1. k > 0
        BY <3>1
      <4> QED
        BY <1>5, <2>2, <3>3, <4>1
    <3>7. q \in Seq(0..MaxCalls) /\ Len(q) = Len(active) - 1
          /\ \A j \in 1..(Len(active) - 1) : q[j] = active[j]
      BY <1>2, <3>6, EndOfSequence
    <3>8. Len(t) # Len(active)
      BY <1>2, <3>4, <3>5, <3>6, SeqEqual DEF Begins
    <3>9. Len(t) \in Nat /\ Len(s) \in Nat
      BY <3>4, LenProperties
    <3>10. Begins(t, q)
      BY <1>2, <3>5, <3>7, <3>8, <3>9 DEF Begins
    <3>11. Begins(s, q)
      BY <3>2, <3>3, <3>4, <3>5, <3>7, <3>10, BeginsTransitive
    <3> QED
      BY <3>2, <3>11
  <2> QED
    BY <2>1, <2>2
<1>7. g = SubSeq(stack, 1, k)
  BY <1>4, <1>5 DEF Leave
<1>8. g \in Frames(Len(heap))
  BY <1>2, <1>5, <1>7, FirstFrames
<1>9. Nested(g, q)
  <2>1. Nested(stack, active)
    BY DEF NestedInv
  <2> QED
    BY <1>2, <1>5, <1>6, <1>7, <2>1, NestedFirst
<1> QED
  BY <1>1, <1>3, <1>4, <1>8, <1>9, KeepsNested

LEMMA LandNested ==
  ASSUME IInv, NestedInv, NEW c \in Contexts, NEW e \in Types, Land(c, e), UNCHANGED heap
  PROVE  NestedInv'
<1>1. PICK home : home = heap[c].home
  OBVIOUS
<1>2. PICK q : q = heap[c].calls
  OBVIOUS
<1>3. home \in Frames(Len(heap)) /\ Len(home) > 0 /\ Nested(home, q) /\ Len(heap) \in Nat
  <2>1. Len(heap) \in Nat
    BY DEF IInv, TypeOK
  <2>2. home \in Frames(Len(heap)) /\ Len(home) > 0
    <3>1. heap[c].home \in Frames(Len(heap)) /\ Len(heap[c].home) \in Nat \ {0}
      BY SavedTypes, Zenon
    <3> QED
      BY <1>1, <3>1
  <2>3. Nested(home, q)
    BY <1>1, <1>2 DEF NestedInv
  <2> QED
    BY <2>1, <2>2, <2>3
<1>4. PICK phase \in {"catch", "finally"} : stack' = WithPhase(home, phase) /\ active' = q
  BY <1>1, <1>2 DEF Land
<1>5. PICK f : f = stack'
  OBVIOUS
<1>6. Nested(f, q)
  BY <1>3, <1>4, <1>5, NestedTop
<1>7. f \in Frames(Len(heap))
  <2>1. phase \in {"body", "catch", "finally"}
    OBVIOUS
  <2> QED
    BY <1>3, <1>4, <1>5, <2>1, PhaseOfTop
<1> QED
  BY <1>4, <1>5, <1>6, <1>7, KeepsNested

LEMMA NestedStep == IInv /\ NestedInv /\ [Next]_vars => NestedInv'
<1> SUFFICES ASSUME IInv, NestedInv, [Next]_vars PROVE NestedInv'
  OBVIOUS
<1>1. ASSUME NEW caught \in SUBSET Types, EnterTry(caught) PROVE NestedInv'
  BY <1>1, EnterTryNested
<1>2. CASE EndBody \/ EndCatch \/ EndFinally
  BY <1>2, EndNested
<1>3. CASE Call \/ UNCHANGED vars
  BY <1>3, CallNested
<1>4. CASE Break \/ Return
  BY <1>4, LeaveNested
<1>5. ASSUME NEW e \in Types, Throw(e) PROVE NestedInv'
  <2>1. UNCHANGED heap
    BY <1>5 DEF Throw
  <2>2. CASE UNCHANGED <<active, stack>>
    <3>1. PICK f, q : f = stack /\ q = active
      OBVIOUS
    <3>2. f = stack' /\ q = active' /\ f \in Frames(Len(heap)) /\ Nested(f, q)
      BY <2>2, <3>1 DEF IInv, NestedInv
    <3> QED
      BY <2>1, <3>2, KeepsNested
  <2>3. CASE ~UNCHANGED <<active, stack>>
    <3>1. PICK c \in Handlers(e) : Land(c, e)
      BY <1>5, <2>3 DEF Throw
    <3>2. c \in Contexts
      BY DEF Handlers, Chain
    <3> QED
      BY <2>1, <3>1, <3>2, LandNested
  <2> QED
    BY <2>2, <2>3
<1> QED
  BY <1>1, <1>2, <1>3, <1>4, <1>5 DEF Next, Stopped

-----------------------------------------------------------------------------
(* Changing the phase of the last frame touches none of those below.       *)
LEMMA PhaseBelow ==
  ASSUME IInv, NEW f \in Frames(Len(heap)), Len(f) > 0, NEW phase \in {"catch", "finally"}
  PROVE  /\ Len(WithPhase(f, phase)) = Len(f)
         /\ \A i \in 1..(Len(f) - 1) : WithPhase(f, phase)[i] = f[i]
<1>1. Len(heap) \in Nat /\ phase \in {"body", "catch", "finally"}
  BY DEF IInv, TypeOK
<1> QED
  BY <1>1, PhaseOfTop, Zenon

(* A step that allocates no context leaves the chains alone, and a body    *)
(* that was left stays so.                                                 *)
LEMMA KeepsClean ==
  ASSUME IInv, CleanInv, UNCHANGED heap, completed \subseteq completed',
         NEW f, f = stack', NEW x \in 0..Len(heap), x = exceptionData',
         NEW left, left = completed', OnlyBodies(f, x, left)
  PROVE  CleanInv'
<1>1. Contexts' = Contexts /\ Len(heap) \in Nat /\ \A c \in Contexts : c \in 0..Len(heap)
  BY DEF Contexts, IInv, TypeOK
<1>2. \A c \in 0..Len(heap) : Chain(c)' = Chain(c)
  BY SameHeap
<1>3. OnlyBodies(stack, exceptionData, completed)'
  <2>1. OnlyBodies(f, x, left)'
    BY <1>2 DEF OnlyBodies
  <2> QED
    BY <2>1
<1>4. ASSUME NEW c \in Contexts PROVE OnlyBodies(heap[c].home, c, completed)'
  <2>1. PICK h : h = heap[c].home
    OBVIOUS
  <2>2. OnlyBodies(h, c, completed)
    BY <2>1 DEF CleanInv
  <2>3. Chain(c)' = Chain(c)
    BY <1>1, <1>2
  <2>4. OnlyBodies(h, c, left)'
    BY <2>2, <2>3 DEF OnlyBodies
  <2>5. heap'[c].home = h
    BY <2>1
  <2> QED
    BY <2>4, <2>5 DEF OnlyBodies
<1> QED
  BY <1>1, <1>3, <1>4 DEF CleanInv

(* TRY puts a live body on the chain.                                      *)
LEMMA EnterTryClean ==
  ASSUME IInv, CleanInv, NEW caught \in SUBSET Types, EnterTry(caught)
  PROVE  CleanInv'
<1>1. PICK n \in Nat : n = Len(heap)
  BY DEF IInv, TypeOK
<1>2. PICK x \in 0..n : x = exceptionData
  BY <1>1 DEF IInv, TypeOK
<1>3. PICK st : st = stack'
  OBVIOUS
<1>4. PICK top : top = [ctx |-> n + 1, phase |-> "body"]
  OBVIOUS
<1>5. PICK r : r = [parent |-> x, caught |-> caught, home |-> st, calls |-> active]
  OBVIOUS
<1>6. /\ st = Append(stack, top) /\ heap' = Append(heap, r) /\ exceptionData' = n + 1
      /\ UNCHANGED completed
  BY <1>1, <1>2, <1>3, <1>4, <1>5 DEF EnterTry, Enter
<1>7. PICK left : left = completed
  OBVIOUS
<1>8. /\ IInv' /\ HeapOK /\ HeapOK' /\ heap \in Seq(Context) /\ stack \in Seq(Frame)
      /\ top \in Frame
  <2>1. IInv'
    BY EnterTryKeeps
  <2>2. (TypeOK => HeapOK)'
    BY TypeGivesHeap, PTL
  <2>3. HeapOK' /\ HeapOK
    BY <2>1, <2>2, TypeGivesHeap DEF IInv
  <2>4. top \in Frame
    BY <1>4 DEF Frame
  <2> QED
    BY <2>1, <2>3, <2>4 DEF IInv, TypeOK
<1>9. PICK k \in Nat : k = Len(stack)
  BY <1>8, LenProperties
<1>10. Len(st) = k + 1 /\ (\A i \in 1..k : st[i] = stack[i]) /\ st[k + 1] = top
  BY <1>6, <1>8, <1>9
<1>11. /\ Len(heap') = n + 1 /\ heap'[n + 1] = r
       /\ \A c \in 1..n : heap'[c] = heap[c]
  BY <1>1, <1>6, <1>8
<1>12. Contexts = 1..n /\ Contexts' = 1..(n + 1)
  BY <1>1, <1>11 DEF Contexts
<1>13. \A c \in 0..n : Chain(c)' = Chain(c)
  BY <1>1, <1>8, <1>11, <1>12, ChainsStay
<1>14. Chain(n + 1)' = {n + 1} \cup Chain(x)
  <2>1. (HeapOK => Linked)'
    BY ChainsLinked, PTL
  <2>2. PICK m : m = n + 1
    OBVIOUS
  <2>3. m \in Contexts'
    BY <1>12, <2>2
  <2>4. Chain(m)' = {m} \cup Chain(heap[m].parent)'
    BY <1>8, <2>1, <2>3 DEF Linked
  <2>5. heap'[m].parent = x
    BY <1>5, <1>11, <2>2
  <2>6. Chain(heap[m].parent)' = Chain(x)'
    BY <2>5
  <2>7. Chain(m)' = {m} \cup Chain(x)
    BY <1>13, <2>4, <2>6
  <2> QED
    BY <2>2, <2>7
<1>15. \A d \in {n + 1} \cup Chain(x) :
         d \in left \/ \E i \in 1..Len(st) : st[i].ctx = d /\ st[i].phase = "body"
  <2>1. st[k + 1].ctx = n + 1 /\ st[k + 1].phase = "body" /\ k + 1 \in 1..(k + 1)
    BY <1>4, <1>10
  <2>2. ASSUME NEW d \in Chain(x), d \notin left
        PROVE  \E i \in 1..k : stack[i].ctx = d /\ stack[i].phase = "body"
    BY <1>2, <1>7, <1>9, <2>2 DEF CleanInv, OnlyBodies
  <2>3. \A i \in 1..k : i \in 1..(k + 1)
    OBVIOUS
  <2> QED
    BY <1>10, <2>1, <2>2, <2>3
<1>16. OnlyBodies(stack, exceptionData, completed)'
  <2>1. Chain(exceptionData)' = Chain(n + 1)'
    BY <1>6
  <2>2. PICK S : S = {n + 1} \cup Chain(x)
    OBVIOUS
  <2>3. /\ Chain(exceptionData)' = S /\ stack' = st /\ completed' = left
        /\ \A d \in S :
             d \in left \/ \E i \in 1..Len(st) : st[i].ctx = d /\ st[i].phase = "body"
    BY <1>3, <1>6, <1>7, <1>14, <1>15, <2>1, <2>2
  <2> QED
    BY <2>3 DEF OnlyBodies
<1>17. ASSUME NEW c \in Contexts' PROVE OnlyBodies(heap[c].home, c, completed)'
  <2>1. CASE c = n + 1
    <3>1. heap'[c].home = stack' /\ c = exceptionData'
      BY <1>3, <1>5, <1>6, <1>11, <2>1
    <3>2. Chain(c)' = Chain(exceptionData)'
      BY <3>1
    <3> QED
      BY <1>16, <3>1, <3>2 DEF OnlyBodies
  <2>2. CASE c # n + 1
    <3>1. c \in Contexts /\ c \in 0..n /\ heap'[c] = heap[c]
      BY <1>11, <1>12, <2>2
    <3>2. PICK h : h = heap[c].home
      OBVIOUS
    <3>3. OnlyBodies(h, c, left)
      BY <1>7, <3>1, <3>2 DEF CleanInv
    <3>4. Chain(c)' = Chain(c) /\ heap'[c].home = h
      BY <1>13, <3>1, <3>2
    <3> QED
      BY <1>6, <1>7, <3>3, <3>4 DEF OnlyBodies
  <2> QED
    BY <2>1, <2>2
<1> QED
  BY <1>16, <1>17 DEF CleanInv

(* A body that ends was left; the end of a handler or of a statement takes *)
(* no body off the stack.                                                  *)
LEMMA EndClean ==
  ASSUME IInv, CleanInv, EndBody \/ EndCatch \/ EndFinally
  PROVE  CleanInv'
<1>1. /\ stack # << >> /\ UNCHANGED <<heap, exceptionData>>
      /\ completed \subseteq completed'
      /\ Top.phase = "body" => Top.ctx \in completed'
  BY DEF EndBody, EndCatch, EndFinally, Running, InTry
<1>2. /\ stack \in Frames(Len(heap)) /\ Len(heap) \in Nat /\ Len(stack) \in Nat \ {0}
      /\ exceptionData \in 0..Len(heap)
  BY <1>1, EmptySeq DEF IInv, TypeOK, Frames
<1>3. PICK f, left : f = stack' /\ left = completed'
  OBVIOUS
<1>4. PICK n \in Nat : n = Len(stack) /\ n > 0
  BY <1>2
<1>5. Len(f) >= n - 1 /\ Len(f) \in Nat /\ \A i \in 1..(n - 1) : f[i] = stack[i]
  <2>1. CASE EndBody \/ EndCatch
    <3>1. f = WithPhase(stack, "finally") /\ Len(stack) > 0
      BY <1>3, <1>4, <2>1 DEF EndBody, EndCatch
    <3>2. "finally" \in {"catch", "finally"}
      OBVIOUS
    <3>3. Len(f) = Len(stack) /\ \A i \in 1..(Len(stack) - 1) : f[i] = stack[i]
      BY <1>2, <3>1, <3>2, PhaseBelow, Zenon
    <3> QED
      BY <1>4, <3>3
  <2>2. CASE EndFinally
    BY <1>2, <1>3, <1>4, <2>2, EndOfSequence DEF EndFinally, Frames
  <2> QED
    BY <2>1, <2>2
<1>6. PICK x \in 0..Len(heap) : x = exceptionData
  BY <1>2
<1>7. OnlyBodies(f, x, left)
  <2>1. SUFFICES ASSUME NEW d \in Chain(x), d \notin left
                 PROVE  \E i \in 1..Len(f) : f[i].ctx = d /\ f[i].phase = "body"
    BY DEF OnlyBodies
  <2>2. PICK i \in 1..n : stack[i].ctx = d /\ stack[i].phase = "body"
    BY <1>1, <1>3, <1>4, <1>6, <2>1 DEF CleanInv, OnlyBodies
  <2>3. i # n
    BY <1>1, <1>3, <1>4, <2>1, <2>2 DEF Top
  <2>4. i \in 1..(n - 1) /\ i \in 1..Len(f)
    BY <1>4, <1>5, <2>3
  <2> QED
    BY <1>5, <2>2, <2>4
<1> QED
  BY <1>1, <1>3, <1>6, <1>7, KeepsClean

(* The bodies that a break or a return is in are left.                     *)
LEMMA LeaveClean ==
  ASSUME IInv, CleanInv, Break \/ Return
  PROVE  CleanInv'
<1>1. /\ stack \in Frames(Len(heap)) /\ Len(heap) \in Nat /\ Len(stack) \in Nat
      /\ exceptionData \in 0..Len(heap) /\ OnChain(stack, exceptionData)
  BY LenProperties DEF IInv, TypeOK, Frames
<1>2. PICK k \in 0..Len(stack) : Leave(k) /\ UNCHANGED <<heap, exceptionData>>
  <2>1. 0..(Len(stack) - 1) \subseteq 0..Len(stack)
    BY <1>1
  <2> QED
    BY <2>1 DEF Break, Return
<1>3. PICK f, left : f = stack' /\ left = completed'
  OBVIOUS
<1>4. /\ completed \subseteq left
      /\ \A i \in (k + 1)..Len(stack) : stack[i].phase = "body" => stack[i].ctx \in left
      /\ f = SubSeq(stack, 1, k)
  BY <1>2, <1>3 DEF Leave
<1>5. Len(f) = k /\ \A i \in 1..k : f[i] = stack[i]
  BY <1>1, <1>4, FirstFrames
<1>6. PICK x \in 0..Len(heap) : x = exceptionData
  BY <1>1
<1>7. OnlyBodies(f, x, left)
  <2>1. SUFFICES ASSUME NEW d \in Chain(x), d \notin left
                 PROVE  \E i \in 1..k : f[i].ctx = d /\ f[i].phase = "body"
    BY <1>5 DEF OnlyBodies
  <2>2. PICK i \in 1..Len(stack) : stack[i].ctx = d /\ stack[i].phase = "body"
    BY <1>4, <1>6, <2>1 DEF CleanInv, OnlyBodies
  <2>3. i \in 1..k
    <3>1. i \notin (k + 1)..Len(stack)
      BY <1>4, <2>1, <2>2
    <3> QED
      BY <1>1, <3>1
  <2> QED
    BY <1>5, <2>2, <2>3
<1> QED
  BY <1>2, <1>3, <1>4, <1>6, <1>7, KeepsClean

(* The function of a frame on the stack has not returned.                  *)
LEMMA OnStackActive ==
  ASSUME IInv, NestedInv, NEW i \in 1..Len(stack)
  PROVE  stack[i].ctx \in Contexts /\ StillActive(heap[stack[i].ctx].calls)
<1>1. stack \in Frames(Len(heap)) /\ active \in Seq(0..MaxCalls)
  BY DEF IInv, TypeOK
<1>2. Begins(heap[stack[i].ctx].calls, active)
  BY DEF NestedInv, Nested
<1> QED
  BY <1>1, <1>2, FrameContexts, BeginsActive

(* Of the chain that the context saved, landing takes the context off.     *)
LEMMA LandClean ==
  ASSUME IInv, CleanInv, NEW c \in Contexts, NEW e \in Types, Land(c, e),
         UNCHANGED <<heap, completed>>
  PROVE  CleanInv'
<1>1. PICK home : home = heap[c].home
  OBVIOUS
<1>2. PICK p : p = heap[c].parent
  OBVIOUS
<1>3. PICK phase \in {"catch", "finally"} : stack' = WithPhase(home, phase) /\ exceptionData' = p
  BY <1>1, <1>2 DEF Land
<1>4. /\ Len(heap) \in Nat /\ c \in 1..Len(heap) /\ p \in 0..Len(heap)
      /\ Chain(c) = {c} \cup Chain(p) /\ c \notin Chain(p)
  <2>1. HeapOK
    BY TypeGivesHeap DEF IInv
  <2>2. Len(heap) \in Nat /\ c \in 1..Len(heap) /\ p \in 0..(c - 1)
    BY <1>2 DEF IInv, TypeOK, Contexts
  <2> QED
    BY <1>2, <2>1, <2>2, ChainStep
<1>5. PICK n \in Nat : n = Len(home) /\ n > 0
  <2>1. Len(heap[c].home) \in Nat \ {0}
    BY SavedTypes, Zenon
  <2> QED
    BY <1>1, <2>1
<1>6. home \in Frames(Len(heap)) /\ home[n] = [ctx |-> c, phase |-> "body"]
  <2>1. /\ heap[c].home \in Frames(Len(heap))
        /\ heap[c].home[Len(heap[c].home)] = [ctx |-> c, phase |-> "body"]
    BY SavedTypes, Zenon
  <2> QED
    BY <1>1, <1>5, <2>1
<1>7. PICK f, left : f = stack' /\ left = completed
  OBVIOUS
<1>8. Len(f) = n /\ \A i \in 1..(n - 1) : f[i] = home[i]
  <2>1. f = WithPhase(home, phase) /\ Len(home) > 0
    BY <1>3, <1>5, <1>7
  <2>2. Len(f) = Len(home) /\ \A i \in 1..(Len(home) - 1) : f[i] = home[i]
    BY <1>6, <2>1, PhaseBelow, Zenon
  <2> QED
    BY <1>5, <2>2
<1>9. OnlyBodies(f, p, left)
  <2>1. SUFFICES ASSUME NEW d \in Chain(p), d \notin left
                 PROVE  \E i \in 1..Len(f) : f[i].ctx = d /\ f[i].phase = "body"
    BY DEF OnlyBodies
  <2>2. d \in Chain(c) /\ d # c
    BY <1>4, <2>1
  <2>3. PICK i \in 1..n : home[i].ctx = d /\ home[i].phase = "body"
    BY <1>1, <1>5, <1>7, <2>1, <2>2 DEF CleanInv, OnlyBodies
  <2>4. home[n].ctx = c
    BY <1>6
  <2>5. i # n
    BY <2>2, <2>3, <2>4
  <2>6. i \in 1..(n - 1)
    BY <1>5, <2>5
  <2> QED
    BY <1>8, <2>3, <2>6
<1> QED
  BY <1>3, <1>4, <1>7, <1>9, KeepsClean

(* A step that leaves stack, chain and history alone.                      *)
LEMMA SameClean ==
  ASSUME IInv, CleanInv, UNCHANGED <<heap, stack, exceptionData, completed>>
  PROVE  CleanInv'
<1>1. PICK f, x, left : f = stack /\ x = exceptionData /\ left = completed
  OBVIOUS
<1>2. /\ f = stack' /\ x = exceptionData' /\ left = completed'
      /\ x \in 0..Len(heap) /\ OnlyBodies(f, x, left)
  BY <1>1 DEF CleanInv, IInv, TypeOK
<1> QED
  BY <1>2, KeepsClean

LEMMA ThrowClean ==
  ASSUME IInv, CleanInv, NEW e \in Types, Throw(e)
  PROVE  CleanInv'
<1>1. UNCHANGED <<heap, completed>>
  BY DEF Throw
<1>2. CASE UNCHANGED <<exceptionData, stack>>
  BY <1>1, <1>2, SameClean
<1>3. CASE ~UNCHANGED <<exceptionData, stack>>
  <2>1. PICK c \in Handlers(e) : Land(c, e)
    BY <1>3 DEF Throw
  <2>2. c \in Contexts
    BY DEF Handlers, Chain
  <2> QED
    BY <1>1, <2>1, <2>2, LandClean
<1> QED
  BY <1>2, <1>3

LEMMA CleanStep == IInv /\ CleanInv /\ [Next]_vars => CleanInv'
<1> SUFFICES ASSUME IInv, CleanInv, [Next]_vars PROVE CleanInv'
  OBVIOUS
<1>1. ASSUME NEW caught \in SUBSET Types, EnterTry(caught) PROVE CleanInv'
  BY <1>1, EnterTryClean
<1>2. CASE EndBody \/ EndCatch \/ EndFinally
  BY <1>2, EndClean
<1>3. CASE Call \/ UNCHANGED vars
  BY <1>3, SameClean DEF Call, vars
<1>4. CASE Break \/ Return
  BY <1>4, LeaveClean
<1>5. ASSUME NEW e \in Types, Throw(e) PROVE CleanInv'
  BY <1>5, ThrowClean
<1> QED
  BY <1>1, <1>2, <1>3, <1>4, <1>5 DEF Next, Stopped

LEMMA NestedInvariance == Spec => [](IInv /\ NestedInv /\ CleanInv)
<1>1. Init => IInv /\ NestedInv /\ CleanInv
  <2>1. SUFFICES ASSUME Init PROVE NestedInv /\ CleanInv
    BY InitOK
  <2>2. Contexts = {} /\ stack = << >> /\ exceptionData = 0
    BY <2>1 DEF Init, Contexts
  <2> QED
    BY <2>2, ChainOfNone DEF NestedInv, CleanInv, Nested, OnlyBodies
<1>2. IInv /\ [Next]_vars => IInv'
  BY StepOK
<1> QED
  BY <1>1, <1>2, NestedStep, CleanStep, PTL DEF Spec

(* A handler that was not left is that of a frame on the stack, whose      *)
(* function has not returned.  So what a throw into a function that has    *)
(* returned goes to was left without an exception, for every program: by   *)
(* the end of its body, or a return, break or continue out of it.          *)
THEOREM UndefinedOnlyAfterCompletion == Spec => OnlyLeftBodiesGoWrong
<1>1. ASSUME IInv, NestedInv, CleanInv, NEW e \in Types, Throw(e), state' = "undefined",
             NEW d \in Handlers(e)
      PROVE  d \in completed
  <2>1. state = "running"
    BY <1>1 DEF Throw
  <2>2. PICK c \in Handlers(e) : ~StillActive(heap[c].calls)
    BY <1>1, <2>1 DEF Throw
  <2>3. c \in Chain(exceptionData) /\ c = d
    <3>1. c \in Nat /\ d \in Nat
      BY DEF Handlers, Chain, Contexts
    <3>2. c <= d /\ d <= c
      BY DEF Handlers
    <3> QED
      BY <3>1, <3>2 DEF Handlers
  <2>4. ASSUME NEW i \in 1..Len(stack), stack[i].ctx = c PROVE FALSE
    BY <1>1, <2>2, <2>4, OnStackActive
  <2> QED
    BY <1>1, <2>3, <2>4 DEF CleanInv, OnlyBodies
<1>2. IInv /\ NestedInv /\ CleanInv /\ [Next]_vars =>
        [\A e \in Types : Throw(e) /\ state' = "undefined" => Handlers(e) \subseteq completed]_vars
  BY <1>1
<1> QED
  BY <1>2, NestedInvariance, PTL DEF Spec, OnlyLeftBodiesGoWrong

-----------------------------------------------------------------------------
(* A nonempty set of numbers has a smallest one, and a bounded one a       *)
(* largest.                                                                *)
LEMMA SmallestOf ==
  ASSUME NEW T \in SUBSET Nat, T # {}
  PROVE  \E x \in T : \A y \in T : x <= y
<1>1. PICK R : R = OpToRel(<, Nat)
  OBVIOUS
<1>2. IsWellFoundedOn(R, Nat)
  BY <1>1, NatLessThanWellFounded
<1>3. PICK x \in T : \A y \in T : ~ (<<y, x>> \in R)
  BY <1>2, WFMin
<1>4. \A y \in T : y < x => <<y, x>> \in R
  BY <1>1, <1>3 DEF OpToRel
<1>5. \A y \in T : y \in Nat /\ x \in Nat /\ ~(y < x)
  BY <1>3, <1>4
<1>6. \A y \in T : x <= y
  BY <1>5
<1> QED
  BY <1>6

LEMMA LargestOf ==
  ASSUME NEW n \in Nat, NEW T \in SUBSET (0..n), T # {}
  PROVE  \E x \in T : \A y \in T : y <= x
<1>1. PICK U : U = {n - x : x \in T}
  OBVIOUS
<1>2. \A u \in U : u \in Nat
  BY <1>1
<1>3. U # {} /\ \A y \in T : n - y \in U
  BY <1>1
<1>4. PICK m \in U : \A k \in U : m <= k
  BY <1>2, <1>3, SmallestOf
<1>5. PICK x \in T : m = n - x
  BY <1>1, <1>4
<1>6. \A y \in T : y \in 0..n /\ x \in 0..n /\ n - x <= n - y
  BY <1>3, <1>4, <1>5
<1> QED
  BY <1>6

(* The bodies that catch e, as ThrowFindsInnermost collects them.          *)
Catching(e) ==
  {i \in 1..Len(stack) : stack[i].phase = "body" /\ Catches(stack[i].ctx, e)}

(* With no leftover, the contexts on the chain are those of the bodies on  *)
(* the stack, and the younger one is the further in.                       *)
LEMMA ThrowInnermost ==
  ASSUME IInv, NestedInv, NEW e \in Types, Throw(e), Leftovers = {}
  PROVE  \/ Catching(e) = {} /\ state' = "exited"
         \/ \E i \in Catching(e) :
              /\ \A j \in Catching(e) : j <= i
              /\ stack' = WithPhase(SubSeq(stack, 1, i), "catch")
<1>1. /\ stack \in Frames(Len(heap)) /\ Len(stack) \in Nat
      /\ Len(heap) \in Nat /\ Contexts = 1..Len(heap)
  BY LenProperties DEF IInv, TypeOK, Frames, Contexts
<1>2. \A i \in Catching(e) :
        stack[i].ctx \in Chain(exceptionData) /\ Catches(stack[i].ctx, e)
  BY DEF IInv, OnChain, Catching
<1>3. \A c \in Chain(exceptionData) :
        \E i \in 1..Len(stack) : stack[i].ctx = c /\ stack[i].phase = "body"
  BY DEF Leftovers, LiveBodies
<1>4. Chain(exceptionData) \subseteq Contexts
  BY DEF Chain
<1>5. CASE Handlers(e) = {}
  <2>1. SUFFICES ASSUME NEW i \in Catching(e) PROVE FALSE
    BY <1>5 DEF Throw
  <2>2. PICK T : T = {c \in Chain(exceptionData) : Catches(c, e)}
    OBVIOUS
  <2>3. T \in SUBSET (0..Len(heap)) /\ T # {}
    BY <1>1, <1>2, <1>4, <2>1, <2>2
  <2>4. PICK c \in T : \A d \in T : d <= c
    BY <1>1, <2>3, LargestOf
  <2>5. c \in Handlers(e)
    BY <2>2, <2>4 DEF Handlers
  <2> QED
    BY <1>5, <2>5
<1>6. ASSUME NEW c \in Handlers(e),
             IF StillActive(heap[c].calls)
             THEN Land(c, e) /\ UNCHANGED state
             ELSE state' = "undefined" /\ UNCHANGED <<exceptionData, active, stack>>
      PROVE  \E i \in Catching(e) :
               /\ \A j \in Catching(e) : j <= i
               /\ stack' = WithPhase(SubSeq(stack, 1, i), "catch")
  <2>1. /\ c \in Chain(exceptionData) /\ Catches(c, e) /\ c \in Contexts
        /\ \A d \in Chain(exceptionData) : Catches(d, e) => d <= c
    BY <1>4 DEF Handlers
  <2>2. PICK i \in 1..Len(stack) : stack[i].ctx = c /\ stack[i].phase = "body"
    BY <1>3, <2>1
  <2>3. Land(c, e)
    <3>1. StillActive(heap[c].calls)
      BY <2>2, OnStackActive
    <3> QED
      BY <1>6, <3>1
  <2>4. heap[c].home = SubSeq(stack, 1, i)
    BY <2>2 DEF NestedInv, Nested
  <2>5. stack' = WithPhase(SubSeq(stack, 1, i), "catch")
    BY <2>1, <2>3, <2>4 DEF Land, Catches
  <2>6. i \in Catching(e)
    BY <2>1, <2>2 DEF Catching
  <2>7. ASSUME NEW j \in Catching(e) PROVE j <= i
    <3>1. j \in 1..Len(stack) /\ stack[j].ctx <= c
      BY <1>2, <2>1 DEF Catching
    <3>2. ASSUME i < j PROVE c < stack[j].ctx
      BY <1>1, <2>2, <3>1, <3>2 DEF NestedInv, Nested
    <3>3. stack[j].ctx \in Nat /\ c \in Nat
      BY <1>1, <2>1, <3>1, FrameContexts
    <3> QED
      BY <1>1, <2>2, <3>1, <3>2, <3>3
  <2> QED
    BY <2>5, <2>6, <2>7
<1> QED
  BY <1>5, <1>6 DEF Throw

(* With no leftover on the chain, a throw enters the handler of the        *)
(* innermost enclosing TRY that catches the exception, with control just   *)
(* where it was when that TRY was entered; if there is none, it ends the   *)
(* program.                                                                *)
THEOREM InnermostHandler == Spec => ThrowFindsInnermost
<1>1. IInv /\ NestedInv
      => \A e \in Types :
           Throw(e) /\ Leftovers = {} =>
             LET catching == {i \in 1..Len(stack) :
                                stack[i].phase = "body" /\ Catches(stack[i].ctx, e)}
             IN  \/ catching = {} /\ state' = "exited"
                 \/ \E i \in catching :
                      /\ \A j \in catching : j <= i
                      /\ stack' = WithPhase(SubSeq(stack, 1, i), "catch")
  BY ThrowInnermost DEF Catching
<1> QED
  BY <1>1, NestedInvariance, PTL DEF ThrowFindsInnermost

=============================================================================
