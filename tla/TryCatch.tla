------------------------------ MODULE TryCatch ------------------------------
(***************************************************************************)
(* try, catch and throw in generated code: the macros of ExceptionHandler.h*)
(* around the scopes that TryWriter, CatchWriter and FinallyWriter emit,   *)
(* in one thread.                                                          *)
(*                                                                         *)
(*   TRY      allocates a context, links it to exceptionData, makes it     *)
(*            exceptionData, and calls setjmp                              *)
(*   { addCaught(exceptionData, T, ...) for every caught type T; the body }*)
(*   CATCH(T) { ... }  entered when setjmp returned through a longjmp,     *)
(*            after exceptionData went back to the context's parent        *)
(*   FINALLY { ... } END_TRY  runs after either of them                    *)
(*                                                                         *)
(* Nothing takes the context off the chain when control leaves the body    *)
(* without an exception: at its end, or by a return, a break or a continue *)
(* in it, which are those of C.  It stays there, and a later throw may jump*)
(* back into a TRY statement that is over (which C allows while its        *)
(* function is active) or whose function has returned (undefined behaviour,*)
(* the end of this model).                                                 *)
(*                                                                         *)
(* ExceptionData.throwException is in the standard library.  As THROW and  *)
(* TRY use it: it looks along the chain for the first context that caught  *)
(* the exception's class or a superclass, stores that context in           *)
(* exceptionData through the reference it is given, and jumps.             *)
(***************************************************************************)
EXTENDS Integers, Sequences

CONSTANTS
  Types,         \* exception classes
  SuperTypes,    \* SuperTypes[e]: the classes e is of, itself included
  MaxContexts,   \* bound: TRY statements entered
  MaxCalls       \* bound: function calls made

ASSUME TryCatchAssumption ==
  /\ SuperTypes \in [Types -> SUBSET Types]
  /\ \A e \in Types : e \in SuperTypes[e]
  /\ MaxContexts \in Nat /\ MaxCalls \in Nat

VARIABLES
  heap,            \* the contexts ever allocated, in that order
  exceptionData,   \* the current context, 0 if there is none
  active,          \* the active function calls, the running one last
  stack,           \* the TRY statements control is in, the innermost last
  nextCall,        \* number of the next function call
  state,           \* "running", "exited", or "undefined"
  completed        \* history: contexts whose body was left without an exception

vars == <<heap, exceptionData, active, stack, nextCall, state, completed>>

Contexts == 1..Len(heap)

Frame == [ctx : Nat \ {0}, phase : {"body", "catch", "finally"}]

(* home and calls: where control is when setjmp returns into the context.  *)
Context == [parent : Nat, caught : SUBSET Types, home : Seq(Frame),
            calls : Seq(0..MaxCalls)]

TypeOK ==
  /\ heap \in Seq(Context)
  /\ \A c \in Contexts : heap[c].parent \in 0..(c - 1)
  /\ exceptionData \in 0..Len(heap)
  /\ active \in Seq(0..MaxCalls)
  /\ stack \in Seq(Frame)
  /\ nextCall \in 1..(MaxCalls + 1)
  /\ state \in {"running", "exited", "undefined"}
  /\ completed \subseteq Contexts

(* The main function runs.                                                 *)
Init ==
  /\ heap = << >>
  /\ exceptionData = 0
  /\ active = <<0>>
  /\ stack = << >>
  /\ nextCall = 1
  /\ state = "running"
  /\ completed = {}

-----------------------------------------------------------------------------
(* The contexts on the chain that starts at context c.                     *)
Closed(S) == \A x \in S : heap[x].parent # 0 => heap[x].parent \in S

Chain(c) ==
  {d \in Contexts : c # 0 /\ \A S \in SUBSET Contexts : c \in S /\ Closed(S) => d \in S}

Top == stack[Len(stack)]

AllButLast(s) == SubSeq(s, 1, Len(s) - 1)

WithPhase(frames, phase) == [frames EXCEPT ![Len(frames)].phase = phase]

(* The running function is inside its TRY statement Top.                   *)
InTry == stack # << >> /\ heap[Top.ctx].calls = active

Running(phase) == state = "running" /\ InTry /\ Top.phase = phase

Enter(parent, caught) ==
  LET new == Len(heap) + 1
  IN  /\ state = "running"
      /\ Len(heap) < MaxContexts
      /\ stack' = Append(stack, [ctx |-> new, phase |-> "body"])
      /\ heap' = Append(heap, [parent |-> parent, caught |-> caught,
                               home |-> stack', calls |-> active])
      /\ exceptionData' = new
      /\ UNCHANGED <<active, nextCall, state, completed>>

(* Mutant: the parent is not linked.                                       *)
EnterTry_NoParent(caught) == Enter(0, caught)

(* TRY { and the calls of addCaught.                                       *)
EnterTry(caught) == Enter(exceptionData, caught)

(* The body ends: FINALLY, with exceptionData as it is.                    *)
EndBody ==
  /\ Running("body")
  /\ stack' = WithPhase(stack, "finally")
  /\ completed' = completed \cup {Top.ctx}
  /\ UNCHANGED <<heap, exceptionData, active, nextCall, state>>

EndCatch ==
  /\ Running("catch")
  /\ stack' = WithPhase(stack, "finally")
  /\ UNCHANGED <<heap, exceptionData, active, nextCall, state, completed>>

(* END_TRY                                                                 *)
EndFinally ==
  /\ Running("finally")
  /\ stack' = AllButLast(stack)
  /\ UNCHANGED <<heap, exceptionData, active, nextCall, state, completed>>

Call ==
  /\ state = "running"
  /\ nextCall <= MaxCalls
  /\ active' = Append(active, nextCall)
  /\ nextCall' = nextCall + 1
  /\ UNCHANGED <<heap, exceptionData, stack, state, completed>>

(* Control leaves all but the first n TRY statements, which the running    *)
(* function is in; their contexts stay on the chain.                       *)
Leave(n) ==
  /\ \A i \in (n + 1)..Len(stack) : heap[stack[i].ctx].calls = active
  /\ stack' = SubSeq(stack, 1, n)
  /\ completed' = completed \cup
       {stack[i].ctx : i \in {i \in (n + 1)..Len(stack) : stack[i].phase = "body"}}

(* break or continue, to a loop around the statements.                     *)
Break ==
  /\ state = "running"
  /\ \E n \in 0..(Len(stack) - 1) : Leave(n)
  /\ UNCHANGED <<heap, exceptionData, active, nextCall, state>>

(* return, in any of the function's TRY statements or outside them.        *)
Return ==
  /\ state = "running"
  /\ \E n \in 0..Len(stack) :
       /\ n > 0 => heap[stack[n].ctx].calls # active
       /\ Leave(n)
  /\ IF Len(active) > 1
     THEN active' = AllButLast(active) /\ UNCHANGED state
     ELSE state' = "exited" /\ UNCHANGED active
  /\ UNCHANGED <<heap, exceptionData, nextCall>>

(* Mutant: the handler runs with its own context still current.            *)
Land_NotPopped(c, e) ==
  /\ exceptionData' = c
  /\ stack' = WithPhase(heap[c].home,
                IF SuperTypes[e] \cap heap[c].caught # {} THEN "catch" ELSE "finally")
  /\ active' = heap[c].calls

(* setjmp returns 1: exceptionData goes to the parent, and the first CATCH *)
(* whose type is one of the exception's runs.                              *)
Land(c, e) ==
  /\ exceptionData' = heap[c].parent
  /\ stack' = WithPhase(heap[c].home,
                IF SuperTypes[e] \cap heap[c].caught # {} THEN "catch" ELSE "finally")
  /\ active' = heap[c].calls

Catches(c, e) == SuperTypes[e] \cap heap[c].caught # {}

(* Older contexts are further away: the first one along the chain is the   *)
(* youngest.                                                               *)
Handlers(e) ==
  LET matching == {c \in Chain(exceptionData) : Catches(c, e)}
  IN  {c \in matching : \A d \in matching : d <= c}

(* The function that called setjmp has not returned.                       *)
StillActive(calls) ==
  Len(calls) <= Len(active) /\ SubSeq(active, 1, Len(calls)) = calls

(* THROW(e): an exception nobody caught ends the program.                  *)
Throw(e) ==
  /\ state = "running"
  /\ \/ /\ Handlers(e) = {}
        /\ state' = "exited"
        /\ UNCHANGED <<exceptionData, active, stack>>
     \/ \E c \in Handlers(e) :
          IF StillActive(heap[c].calls)
          THEN Land(c, e) /\ UNCHANGED state
          ELSE state' = "undefined" /\ UNCHANGED <<exceptionData, active, stack>>
  /\ UNCHANGED <<heap, nextCall, completed>>

Stopped == state # "running" /\ UNCHANGED vars

Next ==
  \/ \E caught \in SUBSET Types \ {{}} : EnterTry(caught)
  \/ EndBody \/ EndCatch \/ EndFinally
  \/ Call \/ Break \/ Return
  \/ \E e \in Types : Throw(e)
  \/ Stopped

Spec == Init /\ [][Next]_vars

-----------------------------------------------------------------------------
LiveBodies == {stack[i].ctx : i \in {i \in 1..Len(stack) : stack[i].phase = "body"}}

Leftovers == Chain(exceptionData) \ LiveBodies

(* Whatever jumps happened before, into handlers or back into statements   *)
(* that were over: a throw finds every TRY whose body control is in.       *)
LiveBodiesOnChain ==
  state = "running" => LiveBodies \subseteq Chain(exceptionData)

(* An exception thrown in a handler is never handled by the same TRY.      *)
HandlerNotReentered ==
  \A i \in 1..Len(stack) :
    stack[i].phase = "catch" => stack[i].ctx \notin Chain(exceptionData)

(* A throw that goes wrong, into a function that has returned, goes to a   *)
(* TRY statement whose body was left without an exception; one that control*)
(* never left, or left by a throw, is never the cause.                     *)
OnlyLeftBodiesGoWrong ==
  [][\A e \in Types :
       Throw(e) /\ state' = "undefined" => Handlers(e) \subseteq completed]_vars

(* With no leftover on the chain, a throw enters the handler of the        *)
(* innermost enclosing TRY that catches the exception.                     *)
ThrowFindsInnermost ==
  [][\A e \in Types :
       Throw(e) /\ Leftovers = {} =>
         LET catching == {i \in 1..Len(stack) :
                            stack[i].phase = "body" /\ Catches(stack[i].ctx, e)}
         IN  \/ catching = {} /\ state' = "exited"
             \/ \E i \in catching :
                  /\ \A j \in catching : j <= i
                  /\ stack' = WithPhase(SubSeq(stack, 1, i), "catch")]_vars

=============================================================================
