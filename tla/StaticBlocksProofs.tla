------------------------- MODULE StaticBlocksProofs -------------------------
(***************************************************************************)
(* Proofs about StaticBlocks, for any number of classes, any number of     *)
(* static blocks and any dependency graph.                                 *)
(***************************************************************************)
EXTENDS StaticBlocks, SequenceTheorems, TLAPS

OnStack(c) == \E k \in 1..Len(stack) : stack[k].class = c

(* Every active call is of a started class, at one of its blocks, and has  *)
(* started the classes whose calls are behind it.                          *)
FramesStarted ==
  \A k \in 1..Len(stack) :
    /\ inited[stack[k].class]
    /\ stack[k].block \in 1..NumBlocks[stack[k].class]
    /\ stack[k].todo \subseteq deps[<<stack[k].class, stack[k].block>>]
    /\ \A d \in deps[<<stack[k].class, stack[k].block>>] \ stack[k].todo : inited[d]

(* A caller depends on everything above it on the stack.                   *)
CallersDepend ==
  \A j, k \in 1..Len(stack) :
    j < k => Reaches(deps, stack[j].class, stack[k].class)

(* What has run of a class: nothing before its function is entered, the    *)
(* blocks before the current one while it is active, all of them after.    *)
RunsMatchStack ==
  \A c \in Class : \A b \in 1..NumBlocks[c] :
    /\ ~inited[c] => runs[<<c, b>>] = 0
    /\ (inited[c] /\ ~OnStack(c)) => runs[<<c, b>>] = 1
    /\ \A k \in 1..Len(stack) :
         stack[k].class = c => runs[<<c, b>>] = IF b < stack[k].block THEN 1 ELSE 0

CalledStarted == \A c \in Class : c < cursor => inited[c]

(* The inductive invariant.                                                *)
IInv ==
  /\ TypeOK
  /\ FramesStarted
  /\ NoReentry
  /\ CallersDepend
  /\ RunsMatchStack
  /\ CalledStarted

-----------------------------------------------------------------------------
LEMMA BlockIdMember ==
  \A c \in Class : \A b \in 1..NumBlocks[c] : <<c, b>> \in BlockId
BY DEF BlockId

LEMMA BlockIdShape ==
  ASSUME NEW x \in BlockId
  PROVE  /\ x = <<x[1], x[2]>>
         /\ x[1] \in Class
         /\ x[2] \in 1..NumBlocks[x[1]]
BY DEF BlockId

LEMMA NumBlocksPos == \A c \in Class : NumBlocks[c] \in Nat /\ 1 \in 1..NumBlocks[c]
BY StaticBlocksAssumption

(* The dependency relation contains the direct dependencies and is closed  *)
(* under another step.                                                     *)
LEMMA DirectReaches ==
  ASSUME NEW g, NEW c \in Class, NEW b \in 1..NumBlocks[c], NEW d \in g[<<c, b>>]
  PROVE  Reaches(g, c, d)
BY DEF Reaches, ClassDeps

LEMMA ReachesStep ==
  ASSUME NEW g, NEW a \in Class, NEW c \in Class, Reaches(g, a, c),
         NEW b \in 1..NumBlocks[c], NEW d \in g[<<c, b>>]
  PROVE  Reaches(g, a, d)
<1> SUFFICES ASSUME NEW S \in SUBSET Class, ClassDeps(g, a) \subseteq S,
                    \A x \in S : ClassDeps(g, x) \subseteq S
             PROVE  d \in S
  BY DEF Reaches
<1>1. c \in S
  BY DEF Reaches
<1>2. d \in ClassDeps(g, c)
  BY DEF ClassDeps
<1> QED BY <1>1, <1>2

LEMMA FrameTypes ==
  ASSUME TypeOK, NEW k \in 1..Len(stack)
  PROVE  /\ stack[k] \in Frame
         /\ stack[k].class \in Class
         /\ stack[k].block \in Nat
<1>1. stack[k] \in Frame
  BY ElementOfSeq DEF TypeOK
<1> QED BY <1>1 DEF Frame

(* Calls and returns change the stack at its end only.                     *)
LEMMA StackShape ==
  ASSUME TypeOK, stack # << >>
  PROVE  /\ Len(stack) \in Nat \ {0}
         /\ Top \in Frame
         /\ Caller \in Seq(Frame)
         /\ Len(Caller) = Len(stack) - 1
         /\ \A k \in 1..(Len(stack) - 1) : Caller[k] = stack[k]
<1>1. stack \in Seq(Frame)
  BY DEF TypeOK
<1>2. Len(stack) \in Nat \ {0}
  BY <1>1, EmptySeq
<1>3. \A k \in 1..Len(stack) : stack[k] \in Frame
  BY <1>1, ElementOfSeq
<1>4. Top \in Frame
  BY <1>2, <1>3 DEF Top
<1> DEFINE n == Len(stack) - 1
<1>5. n \in Nat /\ \A k \in 1..n : stack[k] \in Frame
  BY <1>2, <1>3
<1> HIDE DEF n
<1>6. /\ SubSeq(stack, 1, n) \in Seq(Frame)
      /\ Len(SubSeq(stack, 1, n)) = n
      /\ \A k \in 1..n : SubSeq(stack, 1, n)[k] = stack[k]
  <2>1. /\ SubSeq(stack, 1, n) \in Seq(Frame)
        /\ Len(SubSeq(stack, 1, n)) = IF 1 <= n THEN n - 1 + 1 ELSE 0
        /\ \A k \in 1..(n - 1 + 1) : SubSeq(stack, 1, n)[k] = stack[1 + k - 1]
    BY <1>5, SubSeqProperties
  <2> QED BY <1>5, <2>1
<1> QED BY <1>2, <1>4, <1>6 DEF Caller, n

LEMMA AppendShape ==
  ASSUME NEW s \in Seq(Frame), NEW f \in Frame
  PROVE  /\ Append(s, f) \in Seq(Frame)
         /\ Len(Append(s, f)) = Len(s) + 1
         /\ \A k \in 1..Len(s) : Append(s, f)[k] = s[k]
         /\ Append(s, f)[Len(s) + 1] = f
OBVIOUS

(* Replacing the running frame.                                            *)
LEMMA ReplaceTop ==
  ASSUME TypeOK, stack # << >>, NEW f \in Frame
  PROVE  /\ Append(Caller, f) \in Seq(Frame)
         /\ Len(Append(Caller, f)) = Len(stack)
         /\ \A k \in 1..(Len(stack) - 1) : Append(Caller, f)[k] = stack[k]
         /\ Append(Caller, f)[Len(stack)] = f
BY StackShape, AppendShape

LEMMA FirstFrame ==
  ASSUME TypeOK, NEW c \in Class, NEW b \in 1..NumBlocks[c]
  PROVE  FrameAt(c, b) \in Frame
BY BlockIdMember, NumBlocksPos DEF FrameAt, Frame, TypeOK

-----------------------------------------------------------------------------
(* How a step changes the stack, case by case.                             *)
LEMMA InitInv == Init => IInv
<1> SUFFICES ASSUME Init PROVE IInv
  OBVIOUS
<1>1. Len(stack) = 0 /\ 1..Len(stack) = {} /\ stack \in Seq(Frame)
  BY DEF Init
<1>2. TypeOK
  BY <1>1, StaticBlocksAssumption DEF Init, TypeOK
<1>3. FramesStarted /\ NoReentry /\ CallersDepend
  BY <1>1 DEF FramesStarted, NoReentry, CallersDepend
<1>4. \A c \in Class : ~inited[c] /\ ~(c < cursor)
  BY StaticBlocksAssumption DEF Init, Class
<1>5. \A c \in Class : \A b \in 1..NumBlocks[c] : runs[<<c, b>>] = 0
  BY BlockIdMember DEF Init
<1>6. RunsMatchStack /\ CalledStarted
  BY <1>1, <1>4, <1>5 DEF RunsMatchStack, CalledStarted
<1> QED BY <1>2, <1>3, <1>6 DEF IInv

(* C_static of a class that was not entered yet starts on its first block, *)
(* called from the frames of s (empty, or the stack with its top replaced  *)
(* by the same call with a smaller todo).                                  *)
LEMMA PushInv ==
  ASSUME IInv,
         NEW s \in Seq(Frame), Len(s) = Len(stack),
         \A k \in 1..Len(stack) :
           /\ s[k].class = stack[k].class
           /\ s[k].block = stack[k].block
           /\ s[k].todo \subseteq stack[k].todo,
         NEW d \in Class, ~inited[d],
         \A k \in 1..Len(stack) : Reaches(deps, stack[k].class, d),
         \A k \in 1..Len(stack) :
           \A x \in stack[k].todo \ s[k].todo : x = d,
         stack' = Append(s, FrameAt(d, 1)),
         inited' = [inited EXCEPT ![d] = TRUE],
         UNCHANGED <<deps, runs>>,
         cursor' \in 1..(N + 1),
         \A c \in Class : c < cursor' => c < cursor \/ c = d
  PROVE  IInv'
<1> DEFINE n == Len(stack)
           f == FrameAt(d, 1)
<1>0. TypeOK /\ FramesStarted /\ NoReentry /\ CallersDepend /\ RunsMatchStack /\ CalledStarted
  BY DEF IInv
<1>1. f \in Frame /\ f.class = d /\ f.block = 1 /\ f.todo = deps[<<d, 1>>]
  BY <1>0, FirstFrame, NumBlocksPos DEF FrameAt
<1>2. /\ n \in Nat
      /\ stack' \in Seq(Frame)
      /\ Len(stack') = n + 1
      /\ \A k \in 1..n : stack'[k] = s[k]
      /\ stack'[n + 1] = f
  BY <1>0, <1>1, AppendShape, LenProperties DEF TypeOK
<1>3. \A k \in 1..n : stack[k] \in Frame /\ stack[k].class \in Class
  BY <1>0, FrameTypes
<1>4. \A k \in 1..n : stack[k].class # d
  BY <1>0 DEF FramesStarted
<1> HIDE DEF n, f
<1>5. \A k \in 1..(n + 1) : k \in 1..n \/ k = n + 1
  BY <1>2
<1>6. TypeOK'
  BY <1>0, <1>2 DEF TypeOK
<1>7. FramesStarted'
  <2> SUFFICES ASSUME NEW k \in 1..(n + 1)
               PROVE  /\ inited'[stack'[k].class]
                      /\ stack'[k].block \in 1..NumBlocks[stack'[k].class]
                      /\ stack'[k].todo \subseteq deps[<<stack'[k].class, stack'[k].block>>]
                      /\ \A x \in deps[<<stack'[k].class, stack'[k].block>>] \ stack'[k].todo : inited'[x]
    BY <1>2 DEF FramesStarted
  <2>1. CASE k = n + 1
    <3>1. /\ stack'[k].class = d /\ stack'[k].block = 1
          /\ stack'[k].todo = deps[<<d, 1>>]
      BY <1>1, <1>2, <2>1
    <3>2. inited'[d]
      BY <1>0 DEF TypeOK
    <3> QED BY <3>1, <3>2, NumBlocksPos
  <2>2. CASE k \in 1..n
    <3>1. /\ inited[stack[k].class]
          /\ stack[k].block \in 1..NumBlocks[stack[k].class]
          /\ stack[k].todo \subseteq deps[<<stack[k].class, stack[k].block>>]
          /\ \A x \in deps[<<stack[k].class, stack[k].block>>] \ stack[k].todo : inited[x]
      BY <1>0, <2>2 DEF FramesStarted, n
    <3>2. /\ stack'[k].class = stack[k].class
          /\ stack'[k].block = stack[k].block
          /\ stack'[k].todo \subseteq stack[k].todo
      BY <1>2, <2>2 DEF n
    <3>3. deps[<<stack[k].class, stack[k].block>>] \subseteq Class
      BY <1>0, <1>3, <2>2, <3>1, BlockIdMember DEF TypeOK
    <3>4. \A x \in Class : inited[x] \/ x = d => inited'[x]
      BY <1>0 DEF TypeOK
    <3>5. \A x \in stack[k].todo \ stack'[k].todo : x = d
      BY <1>2, <2>2 DEF n
    <3> QED BY <1>3, <2>2, <3>1, <3>2, <3>3, <3>4, <3>5
  <2> QED BY <1>5, <2>1, <2>2
<1>8. NoReentry'
  BY <1>0, <1>1, <1>2, <1>4, <1>5 DEF NoReentry, n
<1>9. CallersDepend'
  <2> SUFFICES ASSUME NEW j \in 1..(n + 1), NEW k \in 1..(n + 1), j < k
               PROVE  Reaches(deps, stack'[j].class, stack'[k].class)
    BY <1>2 DEF CallersDepend
  <2>1. j \in 1..n /\ stack'[j].class = stack[j].class
    BY <1>2 DEF n
  <2>2. CASE k = n + 1
    BY <1>1, <1>2, <2>1, <2>2 DEF n
  <2>3. CASE k \in 1..n
    <3>1. Reaches(deps, stack[j].class, stack[k].class)
      BY <1>0, <2>1, <2>3 DEF CallersDepend, n
    <3>2. stack'[k].class = stack[k].class
      BY <1>2, <2>3 DEF n
    <3> QED BY <2>1, <3>1, <3>2
  <2> QED BY <1>5, <2>2, <2>3
<1>10. RunsMatchStack'
  <2> SUFFICES ASSUME NEW c \in Class, NEW b \in 1..NumBlocks[c]
               PROVE  /\ ~inited'[c] => runs[<<c, b>>] = 0
                      /\ (inited'[c] /\ ~OnStack(c)') => runs[<<c, b>>] = 1
                      /\ \A k \in 1..(n + 1) :
                           stack'[k].class = c => runs[<<c, b>>] = IF b < stack'[k].block THEN 1 ELSE 0
    BY <1>2 DEF RunsMatchStack
  <2>1. /\ ~inited[c] => runs[<<c, b>>] = 0
        /\ (inited[c] /\ ~OnStack(c)) => runs[<<c, b>>] = 1
        /\ \A k \in 1..n :
             stack[k].class = c => runs[<<c, b>>] = IF b < stack[k].block THEN 1 ELSE 0
    BY <1>0 DEF RunsMatchStack, n
  <2>2. OnStack(c) => OnStack(c)'
    BY <1>2 DEF OnStack, n
  <2>3. OnStack(d)'
    BY <1>1, <1>2 DEF OnStack
  <2>4. inited'[c] <=> inited[c] \/ c = d
    BY <1>0 DEF TypeOK
  <2>5. \A k \in 1..n : stack'[k].class = stack[k].class /\ stack'[k].block = stack[k].block
    BY <1>2 DEF n
  <2>6. ~(b < 1)
    BY NumBlocksPos
  <2>7. ASSUME NEW k \in 1..(n + 1), stack'[k].class = c
        PROVE  runs[<<c, b>>] = IF b < stack'[k].block THEN 1 ELSE 0
    <3>1. CASE k = n + 1
      <4>1. c = d /\ stack'[k].block = 1
        BY <1>1, <1>2, <2>7, <3>1
      <4>2. runs[<<c, b>>] = 0
        BY <2>1, <4>1
      <4> QED BY <2>6, <4>1, <4>2
    <3>2. CASE k \in 1..n
      BY <2>1, <2>5, <2>7, <3>2
    <3> QED BY <1>5, <3>1, <3>2
  <2> QED BY <2>1, <2>2, <2>3, <2>4, <2>7
<1>11. CalledStarted'
  BY <1>0 DEF CalledStarted, TypeOK
<1> QED BY <1>6, <1>7, <1>8, <1>9, <1>10, <1>11 DEF IInv

-----------------------------------------------------------------------------
(* A step that keeps the classes and blocks of the active calls, may       *)
(* shrink what they still have to call by classes that were started, and   *)
(* changes nothing else.                                                   *)
LEMMA SameFramesInv ==
  ASSUME IInv,
         stack' \in Seq(Frame), Len(stack') = Len(stack),
         \A k \in 1..Len(stack) :
           /\ stack'[k].class = stack[k].class
           /\ stack'[k].block = stack[k].block
           /\ stack'[k].todo \subseteq stack[k].todo
           /\ \A x \in stack[k].todo \ stack'[k].todo : inited[x],
         UNCHANGED <<deps, inited, runs>>,
         cursor' \in 1..(N + 1),
         \A c \in Class : c < cursor' => c < cursor \/ inited[c]
  PROVE  IInv'
<1>0. TypeOK /\ FramesStarted /\ NoReentry /\ CallersDepend /\ RunsMatchStack /\ CalledStarted
  BY DEF IInv
<1>1. TypeOK'
  BY <1>0 DEF TypeOK
<1>2. FramesStarted'
  <2> SUFFICES ASSUME NEW k \in 1..Len(stack)
               PROVE  /\ inited[stack'[k].class]
                      /\ stack'[k].block \in 1..NumBlocks[stack'[k].class]
                      /\ stack'[k].todo \subseteq deps[<<stack'[k].class, stack'[k].block>>]
                      /\ \A x \in deps[<<stack'[k].class, stack'[k].block>>] \ stack'[k].todo : inited[x]
    BY DEF FramesStarted
  <2> QED BY <1>0 DEF FramesStarted
<1>3. NoReentry' /\ CallersDepend'
  BY <1>0 DEF NoReentry, CallersDepend
<1>4. \A c : OnStack(c)' <=> OnStack(c)
  BY DEF OnStack
<1>5. RunsMatchStack' /\ CalledStarted'
  BY <1>0, <1>4 DEF RunsMatchStack, CalledStarted
<1> QED BY <1>1, <1>2, <1>3, <1>5 DEF IInv

(* if (!C_static_inited): entering a function the second time.             *)
LEMMA CallClassInv == IInv /\ CallClass => IInv'
<1> SUFFICES ASSUME IInv, CallClass PROVE IInv'
  OBVIOUS
<1>1. /\ TypeOK /\ Len(stack) = 0 /\ cursor \in Class /\ stack = << >>
      /\ << >> \in Seq(Frame) /\ cursor' = cursor + 1 /\ UNCHANGED <<deps, runs>>
      /\ Enter(cursor, << >>)
  BY EmptySeq DEF IInv, TypeOK, CallClass, Class
<1>2. /\ cursor' \in 1..(N + 1)
      /\ \A c \in Class : c < cursor' => c < cursor \/ c = cursor
  BY <1>1, StaticBlocksAssumption DEF Class
<1>3. CASE inited[cursor]
  <2>1. stack' = << >> /\ inited' = inited
    BY <1>1, <1>3 DEF Enter
  <2>2. \A c \in Class : c < cursor' => c < cursor \/ inited[c]
    BY <1>2, <1>3
  <2> QED BY <1>1, <1>2, <2>1, <2>2, SameFramesInv
<1>4. CASE ~inited[cursor]
  <2>1. /\ stack' = Append(<< >>, FrameAt(cursor, 1))
        /\ inited' = [inited EXCEPT ![cursor] = TRUE]
    BY <1>1, <1>4 DEF Enter, Flagged
  <2>2. 1..Len(stack) = {} /\ Len(<< >>) = Len(stack)
    BY <1>1
  <2>3. PICK d \in Class : d = cursor
    BY <1>1
  <2>4. PICK s \in Seq(Frame) : s = << >>
    BY <1>1
  <2> QED BY <1>1, <1>2, <1>4, <2>1, <2>2, <2>3, <2>4, PushInv
<1> QED BY <1>3, <1>4

(* The running block calls a class it depends on: the caller depends on    *)
(* it, and so do the callers of the caller.                                *)
LEMMA CallDependencyInv == IInv /\ CallDependency => IInv'
<1> SUFFICES ASSUME IInv, CallDependency PROVE IInv'
  OBVIOUS
<1>1. /\ TypeOK /\ FramesStarted /\ CallersDepend /\ stack # << >>
      /\ UNCHANGED <<deps, runs, cursor>>
  BY DEF IInv, CallDependency
<1>2. PICK d \in Top.todo : Enter(d, Append(Caller, [Top EXCEPT !.todo = @ \ {d}]))
  BY DEF CallDependency
<1>3. /\ Len(stack) \in Nat \ {0} /\ Top \in Frame /\ Top = stack[Len(stack)]
      /\ Top.class \in Class /\ d \in Class
      /\ Top.block \in 1..NumBlocks[Top.class]
      /\ d \in deps[<<Top.class, Top.block>>]
  BY <1>1, <1>2, StackShape DEF Top, Frame, FramesStarted
<1> DEFINE f == [Top EXCEPT !.todo = @ \ {d}]
<1>4. PICK s \in Seq(Frame) : s = Append(Caller, f)
  BY <1>1, <1>3, AppendShape, StackShape DEF Frame
<1>5. f \in Frame /\ f.class = Top.class /\ f.block = Top.block /\ f.todo = Top.todo \ {d}
  BY <1>3 DEF Frame
<1> HIDE DEF f
<1>6. /\ Len(s) = Len(stack)
      /\ \A k \in 1..(Len(stack) - 1) : s[k] = stack[k]
      /\ s[Len(stack)] = f
  BY <1>1, <1>4, <1>5, ReplaceTop
<1>7. \A k \in 1..Len(stack) :
        /\ s[k].class = stack[k].class
        /\ s[k].block = stack[k].block
        /\ s[k].todo \subseteq stack[k].todo
        /\ \A x \in stack[k].todo \ s[k].todo : x = d
  <2> SUFFICES ASSUME NEW k \in 1..Len(stack)
               PROVE  /\ s[k].class = stack[k].class
                      /\ s[k].block = stack[k].block
                      /\ s[k].todo \subseteq stack[k].todo
                      /\ \A x \in stack[k].todo \ s[k].todo : x = d
    OBVIOUS
  <2>1. CASE k = Len(stack)
    BY <1>3, <1>5, <1>6, <2>1
  <2>2. CASE k \in 1..(Len(stack) - 1)
    BY <1>6, <2>2
  <2> QED BY <1>3, <2>1, <2>2
<1>8. cursor' \in 1..(N + 1) /\ cursor' = cursor
  BY <1>1 DEF TypeOK
<1>9. CASE inited[d]
  <2>1. stack' = s /\ inited' = inited
    BY <1>2, <1>4, <1>9 DEF Enter, f
  <2>2. \A k \in 1..Len(stack) : \A x \in stack[k].todo \ s[k].todo : inited[x]
    BY <1>7, <1>9
  <2> QED BY <1>1, <1>6, <1>7, <1>8, <2>1, <2>2, SameFramesInv
<1>10. CASE ~inited[d]
  <2>1. stack' = Append(s, FrameAt(d, 1)) /\ inited' = [inited EXCEPT ![d] = TRUE]
    BY <1>2, <1>4, <1>10 DEF Enter, Flagged, f
  <2>2. Reaches(deps, Top.class, d)
    BY <1>3, DirectReaches
  <2>3. \A k \in 1..Len(stack) : Reaches(deps, stack[k].class, d)
    <3> SUFFICES ASSUME NEW k \in 1..Len(stack) PROVE Reaches(deps, stack[k].class, d)
      OBVIOUS
    <3>1. CASE k = Len(stack)
      BY <1>3, <2>2, <3>1
    <3>2. CASE k < Len(stack)
      <4>1. Reaches(deps, stack[k].class, Top.class) /\ stack[k].class \in Class
        BY <1>1, <1>3, <3>2, FrameTypes DEF CallersDepend
      <4> QED BY <1>3, <4>1, ReachesStep
    <3> QED BY <1>3, <3>1, <3>2
  <2> QED BY <1>1, <1>3, <1>6, <1>7, <1>8, <1>10, <2>1, <2>3, PushInv
<1> QED BY <1>3, <1>9, <1>10 DEF IInv, TypeOK

-----------------------------------------------------------------------------
(* What is true when a scope runs: its class is the running call, only     *)
(* once on the stack; the blocks before it ran once and it did not.        *)
LEMMA RunScopeFacts ==
  ASSUME IInv, RunScope
  PROVE  /\ stack # << >> /\ Len(stack) \in Nat \ {0} /\ Top = stack[Len(stack)]
         /\ Top.class \in Class /\ Top.block \in 1..NumBlocks[Top.class] /\ inited[Top.class]
         /\ Top.todo = {}
         /\ \A d \in deps[<<Top.class, Top.block>>] : inited[d]
         /\ \A k \in 1..(Len(stack) - 1) : stack[k].class # Top.class
         /\ \A x \in 1..NumBlocks[Top.class] :
              runs[<<Top.class, x>>] = IF x < Top.block THEN 1 ELSE 0
<1>1. /\ TypeOK /\ FramesStarted /\ NoReentry /\ RunsMatchStack
      /\ stack # << >> /\ Top.todo = {}
  BY DEF IInv, RunScope, Ready, LastBlock
<1>2. /\ Len(stack) \in Nat \ {0} /\ Top = stack[Len(stack)] /\ Top.class \in Class
  BY <1>1, StackShape DEF Top, Frame
<1>3. /\ Top.block \in 1..NumBlocks[Top.class] /\ inited[Top.class]
      /\ \A d \in deps[<<Top.class, Top.block>>] : inited[d]
  BY <1>1, <1>2 DEF FramesStarted
<1>4. \A k \in 1..(Len(stack) - 1) : stack[k].class # Top.class
  BY <1>1, <1>2 DEF NoReentry
<1>5. \A x \in 1..NumBlocks[Top.class] :
        runs[<<Top.class, x>>] = IF x < Top.block THEN 1 ELSE 0
  BY <1>1, <1>2 DEF RunsMatchStack
<1> QED BY <1>1, <1>2, <1>3, <1>4, <1>5

(* The effect of the scope on the counters.                                *)
LEMMA RunScopeRuns ==
  ASSUME IInv, RunScope
  PROVE  /\ runs' \in [BlockId -> Nat]
         /\ \A x \in 1..NumBlocks[Top.class] :
              runs'[<<Top.class, x>>] = IF x < Top.block + 1 THEN 1 ELSE 0
         /\ \A c \in Class : c # Top.class =>
              \A x \in 1..NumBlocks[c] : runs'[<<c, x>>] = runs[<<c, x>>]
<1> DEFINE id == <<Top.class, Top.block>>
<1>1. /\ runs \in [BlockId -> Nat] /\ runs' = [runs EXCEPT ![id] = @ + 1]
  BY DEF IInv, TypeOK, RunScope
<1>2. id \in BlockId /\ Top.class \in Class /\ Top.block \in 1..NumBlocks[Top.class]
  BY RunScopeFacts, BlockIdMember
<1>3. /\ runs' \in [BlockId -> Nat]
      /\ runs'[id] = runs[id] + 1
      /\ \A y \in BlockId : y # id => runs'[y] = runs[y]
  BY <1>1, <1>2
<1>4. \A c \in Class : \A x \in 1..NumBlocks[c] :
        (c # Top.class \/ x # Top.block) => runs'[<<c, x>>] = runs[<<c, x>>]
  BY <1>3, BlockIdMember
<1>5. ASSUME NEW x \in 1..NumBlocks[Top.class]
      PROVE  runs'[<<Top.class, x>>] = IF x < Top.block + 1 THEN 1 ELSE 0
  <2>1. runs[<<Top.class, x>>] = IF x < Top.block THEN 1 ELSE 0
    BY RunScopeFacts
  <2>2. x \in Int /\ Top.block \in Int
    BY <1>2, NumBlocksPos
  <2>3. CASE x = Top.block
    BY <1>3, <2>1, <2>2, <2>3
  <2>4. CASE x # Top.block
    <3>1. runs'[<<Top.class, x>>] = runs[<<Top.class, x>>]
      BY <1>2, <1>4, <2>4
    <3> QED BY <2>1, <2>2, <2>4, <3>1
  <2> QED BY <2>3, <2>4
<1> QED BY <1>3, <1>4, <1>5

(* After a scope that was not the last of its class, the same call is at   *)
(* the next block.                                                         *)
LEMMA NextBlockInv ==
  ASSUME IInv, RunScope, Top.block < NumBlocks[Top.class]
  PROVE  IInv'
<1>1. /\ TypeOK /\ FramesStarted /\ NoReentry /\ CallersDepend /\ RunsMatchStack /\ CalledStarted
      /\ UNCHANGED <<deps, inited, cursor>>
      /\ stack' = Append(Caller, FrameAt(Top.class, Top.block + 1))
  BY DEF IInv, RunScope, Ready, LastBlock
<1>2. /\ stack # << >> /\ Len(stack) \in Nat \ {0} /\ Top = stack[Len(stack)]
      /\ Top.class \in Class /\ inited[Top.class]
      /\ \A k \in 1..(Len(stack) - 1) : stack[k].class # Top.class
      /\ Top.block + 1 \in 1..NumBlocks[Top.class]
  BY RunScopeFacts, NumBlocksPos
<1> DEFINE f == FrameAt(Top.class, Top.block + 1)
<1>3. /\ f \in Frame /\ f.class = Top.class /\ f.block = Top.block + 1
      /\ f.todo = deps[<<Top.class, Top.block + 1>>]
  BY <1>1, <1>2, FirstFrame DEF FrameAt
<1> HIDE DEF f
<1>4. /\ stack' \in Seq(Frame) /\ Len(stack') = Len(stack)
      /\ \A k \in 1..(Len(stack) - 1) : stack'[k] = stack[k]
      /\ stack'[Len(stack)] = f
  BY <1>1, <1>2, <1>3, ReplaceTop DEF f
<1>5. \A k \in 1..Len(stack) : k = Len(stack) \/ k \in 1..(Len(stack) - 1)
  BY <1>2
<1>6. \A k \in 1..Len(stack) : stack'[k].class = stack[k].class
  BY <1>2, <1>3, <1>4, <1>5
<1>7. TypeOK'
  BY <1>1, <1>4, RunScopeRuns DEF TypeOK
<1>8. FramesStarted'
  <2> SUFFICES ASSUME NEW k \in 1..Len(stack)
               PROVE  /\ inited[stack'[k].class]
                      /\ stack'[k].block \in 1..NumBlocks[stack'[k].class]
                      /\ stack'[k].todo \subseteq deps[<<stack'[k].class, stack'[k].block>>]
                      /\ \A x \in deps[<<stack'[k].class, stack'[k].block>>] \ stack'[k].todo : inited[x]
    BY <1>1, <1>4 DEF FramesStarted
  <2>1. CASE k = Len(stack)
    BY <1>2, <1>3, <1>4, <2>1
  <2>2. CASE k \in 1..(Len(stack) - 1)
    BY <1>1, <1>4, <2>2 DEF FramesStarted
  <2> QED BY <1>5, <2>1, <2>2
<1>9. NoReentry' /\ CallersDepend'
  BY <1>1, <1>4, <1>6 DEF NoReentry, CallersDepend
<1>10. RunsMatchStack'
  <2> SUFFICES ASSUME NEW c \in Class, NEW b \in 1..NumBlocks[c]
               PROVE  /\ ~inited[c] => runs'[<<c, b>>] = 0
                      /\ (inited[c] /\ ~OnStack(c)') => runs'[<<c, b>>] = 1
                      /\ \A k \in 1..Len(stack) :
                           stack'[k].class = c => runs'[<<c, b>>] = IF b < stack'[k].block THEN 1 ELSE 0
    BY <1>1, <1>4 DEF RunsMatchStack
  <2>1. OnStack(c)' <=> OnStack(c)
    BY <1>4, <1>6 DEF OnStack
  <2>2. CASE c = Top.class
    <3>1. runs'[<<c, b>>] = IF b < Top.block + 1 THEN 1 ELSE 0
      BY <2>2, RunScopeRuns
    <3>2. OnStack(c)
      BY <1>2, <2>2 DEF OnStack
    <3>3. \A k \in 1..Len(stack) : stack'[k].class = c => k = Len(stack)
      BY <1>2, <1>4, <1>5, <2>2
    <3> QED BY <1>2, <1>3, <1>4, <2>1, <2>2, <3>1, <3>2, <3>3
  <2>3. CASE c # Top.class
    <3>1. runs'[<<c, b>>] = runs[<<c, b>>]
      BY <2>3, RunScopeRuns
    <3>2. \A k \in 1..Len(stack) : stack'[k].class = c =>
            stack[k].class = c /\ stack'[k].block = stack[k].block
      BY <1>2, <1>4, <1>5, <1>6, <2>3
    <3> QED BY <1>1, <2>1, <3>1, <3>2 DEF RunsMatchStack
  <2> QED BY <2>2, <2>3
<1>11. CalledStarted'
  BY <1>1 DEF CalledStarted
<1> QED BY <1>7, <1>8, <1>9, <1>10, <1>11 DEF IInv

(* After the last scope of its class, the call returns.                    *)
LEMMA ReturnInv ==
  ASSUME IInv, RunScope, ~(Top.block < NumBlocks[Top.class])
  PROVE  IInv'
<1>1. /\ TypeOK /\ FramesStarted /\ NoReentry /\ CallersDepend /\ RunsMatchStack /\ CalledStarted
      /\ UNCHANGED <<deps, inited, cursor>>
      /\ stack' = Caller
  BY DEF IInv, RunScope, Ready, LastBlock
<1>2. /\ stack # << >> /\ Len(stack) \in Nat \ {0} /\ Top = stack[Len(stack)]
      /\ Top.class \in Class /\ inited[Top.class]
      /\ \A k \in 1..(Len(stack) - 1) : stack[k].class # Top.class
      /\ Top.block = NumBlocks[Top.class] /\ Top.block \in Nat
  BY RunScopeFacts, NumBlocksPos
<1>3. /\ stack' \in Seq(Frame) /\ Len(stack') = Len(stack) - 1
      /\ \A k \in 1..(Len(stack) - 1) : stack'[k] = stack[k] /\ k \in 1..Len(stack)
  BY <1>1, <1>2, StackShape
<1>4. TypeOK'
  BY <1>1, <1>3, RunScopeRuns DEF TypeOK
<1>5. FramesStarted' /\ NoReentry' /\ CallersDepend'
  BY <1>1, <1>3 DEF FramesStarted, NoReentry, CallersDepend
<1>6. RunsMatchStack'
  <2> SUFFICES ASSUME NEW c \in Class, NEW b \in 1..NumBlocks[c]
               PROVE  /\ ~inited[c] => runs'[<<c, b>>] = 0
                      /\ (inited[c] /\ ~OnStack(c)') => runs'[<<c, b>>] = 1
                      /\ \A k \in 1..(Len(stack) - 1) :
                           stack'[k].class = c => runs'[<<c, b>>] = IF b < stack'[k].block THEN 1 ELSE 0
    BY <1>1, <1>3 DEF RunsMatchStack
  <2>1. CASE c = Top.class
    <3>1. runs'[<<c, b>>] = 1
      <4>1. runs'[<<c, b>>] = IF b < Top.block + 1 THEN 1 ELSE 0
        BY <2>1, RunScopeRuns
      <4> QED BY <1>2, <2>1, <4>1
    <3> QED BY <1>2, <1>3, <2>1, <3>1
  <2>2. CASE c # Top.class
    <3>1. runs'[<<c, b>>] = runs[<<c, b>>]
      BY <2>2, RunScopeRuns
    <3>2. OnStack(c) => OnStack(c)'
      <4> SUFFICES ASSUME NEW k \in 1..Len(stack), stack[k].class = c
                   PROVE  OnStack(c)'
        BY DEF OnStack
      <4>1. k \in 1..(Len(stack) - 1)
        BY <1>2, <2>2
      <4> QED BY <1>3, <4>1 DEF OnStack
    <3> QED BY <1>1, <1>3, <3>1, <3>2 DEF RunsMatchStack
  <2> QED BY <2>1, <2>2
<1>7. CalledStarted'
  BY <1>1 DEF CalledStarted
<1> QED BY <1>4, <1>5, <1>6, <1>7 DEF IInv

-----------------------------------------------------------------------------
LEMMA NextInv == IInv /\ [Next]_sbVars => IInv'
<1> SUFFICES ASSUME IInv, [Next]_sbVars PROVE IInv'
  OBVIOUS
<1>1. CASE CallClass
  BY <1>1, CallClassInv
<1>2. CASE CallDependency
  BY <1>2, CallDependencyInv
<1>3. CASE RunScope
  BY <1>3, NextBlockInv, ReturnInv
<1>4. CASE Returned \/ UNCHANGED sbVars
  <2>1. UNCHANGED sbVars
    BY <1>4 DEF Returned
  <2>2. /\ stack \in Seq(Frame) /\ cursor \in 1..(N + 1)
    BY DEF IInv, TypeOK
  <2> QED BY <2>1, <2>2, SameFramesInv DEF sbVars
<1> QED BY <1>1, <1>2, <1>3, <1>4 DEF Next

(* The inductive invariant holds of every behaviour of the start-up code.  *)
THEOREM Invariance == Spec => []IInv
BY InitInv, NextInv, PTL DEF Spec

(* The variables of the start-up code keep their types, for every number   *)
(* of classes and every dependency graph: the C stack holds real calls,    *)
(* the flags are flags and the list of calls is never overrun.             *)
THEOREM TypeCorrect == Spec => []TypeOK
<1>1. IInv => TypeOK
  BY DEF IInv
<1> QED BY <1>1, Invariance, PTL

LEMMA OnceOnlyFollows == IInv => OnceOnly
<1> SUFFICES ASSUME IInv, NEW c \in Class, NEW b \in 1..NumBlocks[c]
             PROVE  runs[<<c, b>>] <= 1
  BY BlockIdShape DEF OnceOnly
<1>1. runs[<<c, b>>] = 0 \/ runs[<<c, b>>] = 1
  BY DEF IInv, RunsMatchStack, OnStack, TypeOK
<1> QED BY <1>1

(* No class' function is active twice: dependency cycles do not recurse.   *)
THEOREM StaticNoReentry == Spec => []NoReentry
<1>1. IInv => NoReentry
  BY DEF IInv
<1> QED BY <1>1, Invariance, PTL

(* When novaCallStaticBlocks has returned, every static block has run.     *)
LEMMA AllRunFollows == IInv /\ Finished => \A c \in Class : Complete(c)
<1> SUFFICES ASSUME IInv, Finished, NEW c \in Class, NEW b \in 1..NumBlocks[c]
             PROVE  runs[<<c, b>>] > 0
  BY DEF Complete
<1>1. inited[c]
  BY StaticBlocksAssumption DEF IInv, CalledStarted, Finished, TypeOK, Class
<1>2. ~OnStack(c)
  BY DEF Finished, OnStack
<1>3. runs[<<c, b>>] = 1
  BY <1>1, <1>2 DEF IInv, RunsMatchStack
<1> QED BY <1>3

(* A scope runs after the earlier blocks of its class and after every      *)
(* class it depends on is complete, but for classes on a cycle with it.    *)
LEMMA DependenciesFollow == IInv /\ [Next]_sbVars => InOrder
<1> DEFINE Goal(c, b) ==
      runs'[<<c, b>>] # runs[<<c, b>>] =>
        /\ \A k \in 1..(b - 1) : runs[<<c, k>>] > 0
        /\ \A d \in deps[<<c, b>>] : Complete(d) \/ Reaches(deps, d, c)
<1>1. ASSUME IInv, [Next]_sbVars, NEW c \in Class, NEW b \in 1..NumBlocks[c]
      PROVE  Goal(c, b)
  <2> SUFFICES ASSUME runs'[<<c, b>>] # runs[<<c, b>>]
               PROVE  /\ \A k \in 1..(b - 1) : runs[<<c, k>>] > 0
                      /\ \A d \in deps[<<c, b>>] : Complete(d) \/ Reaches(deps, d, c)
    OBVIOUS
  <2>1. RunScope
    BY <1>1 DEF Next, CallClass, CallDependency, Returned, sbVars
  <2>2. c = Top.class
    BY <1>1, <2>1, RunScopeRuns
  <2>3. /\ Len(stack) \in Nat \ {0} /\ Top = stack[Len(stack)] /\ Top.block \in Nat
        /\ b \in Nat /\ NumBlocks[c] \in Nat
    BY <1>1, <2>1, <2>2, RunScopeFacts, NumBlocksPos
  <2>4. b = Top.block
    <3>1. runs[<<c, b>>] = IF b < Top.block THEN 1 ELSE 0
      BY <1>1, <2>1, <2>2, RunScopeFacts
    <3>2. runs'[<<c, b>>] = IF b < Top.block + 1 THEN 1 ELSE 0
      BY <1>1, <2>1, <2>2, RunScopeRuns
    <3> QED BY <2>3, <3>1, <3>2
  <2>5. ASSUME NEW k \in 1..(b - 1) PROVE runs[<<c, k>>] > 0
    <3>1. k \in 1..NumBlocks[c] /\ k < Top.block
      BY <1>1, <2>3, <2>4
    <3>2. runs[<<c, k>>] = 1
      BY <1>1, <2>1, <2>2, <3>1, RunScopeFacts
    <3> QED BY <3>2
  <2>6. ASSUME NEW d \in deps[<<c, b>>] PROVE Complete(d) \/ Reaches(deps, d, c)
    <3>1. d \in Class /\ inited[d]
      BY <1>1, <2>1, <2>2, <2>4, RunScopeFacts, BlockIdMember DEF IInv, TypeOK
    <3>2. CASE ~OnStack(d)
      <4>1. \A x \in 1..NumBlocks[d] : runs[<<d, x>>] = 1
        BY <1>1, <3>1, <3>2 DEF IInv, RunsMatchStack
      <4> QED BY <4>1 DEF Complete
    <3>3. CASE OnStack(d)
      <4>1. PICK k \in 1..Len(stack) : stack[k].class = d
        BY <3>3 DEF OnStack
      <4>2. CASE k = Len(stack)
        BY <1>1, <2>2, <2>3, <4>1, <4>2, DirectReaches
      <4>3. CASE k < Len(stack)
        BY <1>1, <2>2, <2>3, <4>1, <4>3 DEF IInv, CallersDepend
      <4> QED BY <2>3, <4>2, <4>3
    <3> QED BY <3>2, <3>3
  <2> QED BY <2>5, <2>6
<1> QED BY <1>1 DEF InOrder

=============================================================================
