----------------------------- MODULE ScrollBar -----------------------------
(***************************************************************************)
(* The mouse wheel of the windows (NativeScrollBar.c): every window has a  *)
(* thread of its own, in which nova_createWindow runs the message loop and *)
(* WndProc handles the messages.  WM_CREATE initialises the critical       *)
(* section csWheelLock; a wheel message takes it to accumulate the delta   *)
(* in variables that all threads share, until there is enough to scroll.   *)
(*                                                                         *)
(* Windows is external: a critical section that is initialised is free,    *)
(* whoever was in it, and one that is left by a thread that is not in it   *)
(* is of no use to anybody after that.                                     *)
(***************************************************************************)
EXTENDS Integers

CONSTANTS
  Threads,      \* the threads, each with its window
  None,         \* no window
  WheelDelta,   \* WHEEL_DELTA: the delta of a full click
  Deltas,       \* the deltas that mice send
  LinesPer      \* the values of uLinesPerWHEELDELTA

ASSUME ScrollBarAssumption ==
  /\ None \notin Threads
  /\ Threads \cap {"none", "free", "broken"} = {}
  /\ WheelDelta \in Nat \ {0}
  /\ Deltas \subseteq Int
  /\ LinesPer \subseteq Nat

Directions == {"vert", "horz"}

VARIABLES
  pc,            \* where each thread is
  event,         \* the wheel message it handles
  lines,         \* the lines WheelScrollLines has computed for it
  pos,           \* the position of each window's scroll bars
  lock,          \* csWheelLock: "none", "free", "broken", or the thread in it
  hwndCurrent,   \* the window whose deltas are accumulated
  accumulator,   \* iAccumulator
  from           \* history: the windows whose deltas are in an accumulator

shared == <<lock, hwndCurrent, accumulator, from>>
scrollBarVars == <<pc, event, lines, pos, shared>>

Event == [delta : Deltas \cup {0}, dir : Directions]

TypeOK ==
  /\ pc \in [Threads -> {"closed", "loop", "enter", "reset", "accumulate", "leave", "scroll"}]
  /\ event \in [Threads -> Event]
  /\ lines \in [Threads -> Int]
  /\ pos \in [Threads -> [Directions -> Int]]
  /\ lock \in {"none", "free", "broken"} \cup Threads
  /\ hwndCurrent \in Threads \cup {None}
  /\ accumulator \in [Directions -> Int]
  /\ from \in [Directions -> SUBSET Threads]

ScrollBarInit ==
  /\ pc = [t \in Threads |-> "closed"]
  /\ event = [t \in Threads |-> [delta |-> 0, dir |-> "vert"]]
  /\ lines = [t \in Threads |-> 0]
  /\ pos = [t \in Threads |-> [d \in Directions |-> 0]]
  /\ lock = "none"
  /\ hwndCurrent = None
  /\ accumulator = [d \in Directions |-> 0]
  /\ from = [d \in Directions |-> {}]

-----------------------------------------------------------------------------
Goto(t, place) == pc' = [pc EXCEPT ![t] = place]

(* nova_createWindow: the thread gets a WM_CREATE, nova_init_scrollbar().  *)
Create(t) ==
  /\ pc[t] = "closed"
  /\ Goto(t, "loop")
  /\ lock' = "free"
  /\ UNCHANGED <<event, lines, pos, hwndCurrent, accumulator, from>>

(* WM_DESTROY ends the loop; the thread may open another window.           *)
Destroy(t) ==
  /\ pc[t] = "loop"
  /\ Goto(t, "closed")
  /\ UNCHANGED <<event, lines, pos, shared>>

(* WM_MOUSEWHEEL or WM_MOUSEHWHEEL.                                        *)
Wheel(t, delta, dir) ==
  /\ pc[t] = "loop"
  /\ Goto(t, "enter")
  /\ event' = [event EXCEPT ![t] = [delta |-> delta, dir |-> dir]]
  /\ UNCHANGED <<lines, pos, shared>>

(* Mutant: TryEnterCriticalSection, whose result is not looked at.         *)
EnterCriticalSection_Try(t) ==
  /\ pc[t] = "enter"
  /\ lock' = IF lock = "free" THEN t ELSE lock
  /\ Goto(t, "reset")
  /\ UNCHANGED <<event, lines, pos, hwndCurrent, accumulator, from>>

EnterCriticalSection(t) ==
  /\ pc[t] = "enter"
  /\ lock = "free"
  /\ lock' = t
  /\ Goto(t, "reset")
  /\ UNCHANGED <<event, lines, pos, hwndCurrent, accumulator, from>>

(* Mutant: the window is not remembered.                                   *)
Reset_SameWindow(t, inactive) ==
  LET d == event[t].dir
  IN  /\ pc[t] = "reset"
      /\ IF inactive \/ (accumulator[d] > 0) = (event[t].delta < 0)
         THEN /\ accumulator' = [accumulator EXCEPT ![d] = 0]
              /\ from' = [from EXCEPT ![d] = {}]
         ELSE UNCHANGED <<accumulator, from>>
      /\ Goto(t, "accumulate")
      /\ UNCHANGED <<event, lines, pos, lock, hwndCurrent>>

(* Mutant: a change of the direction does not reset the accumulator.       *)
Reset_KeepsReversed(t, inactive) ==
  LET d == event[t].dir
  IN  /\ pc[t] = "reset"
      /\ hwndCurrent' = t
      /\ IF hwndCurrent # t
         THEN /\ accumulator' = [e \in Directions |-> 0]
              /\ from' = [e \in Directions |-> {}]
         ELSE UNCHANGED <<accumulator, from>>
      /\ Goto(t, "accumulate")
      /\ UNCHANGED <<event, lines, pos, lock>>

(* "In some cases, we do want to reset the accumulated value(s)": another  *)
(* window, a long time without wheel messages, the other direction.        *)
Reset(t, inactive) ==
  LET d == event[t].dir
  IN  /\ pc[t] = "reset"
      /\ hwndCurrent' = t
      /\ IF hwndCurrent # t
         THEN /\ accumulator' = [e \in Directions |-> 0]
              /\ from' = [e \in Directions |-> {}]
         ELSE IF inactive \/ (accumulator[d] > 0) = (event[t].delta < 0)
         THEN /\ accumulator' = [accumulator EXCEPT ![d] = 0]
              /\ from' = [from EXCEPT ![d] = {}]
         ELSE UNCHANGED <<accumulator, from>>
      /\ Goto(t, "accumulate")
      /\ UNCHANGED <<event, lines, pos, lock>>

(* The integer division of C.                                              *)
Div(a, b) == IF a >= 0 THEN a \div b ELSE -((-a) \div b)

(* The lines to scroll for what is accumulated, and the remainder.         *)
Accumulate(t, per) ==
  LET d    == event[t].dir
      sum  == accumulator[d] + event[t].delta
      roll == IF per > 0 THEN Div(sum * per, WheelDelta) ELSE 0
  IN  /\ pc[t] = "accumulate"
      /\ accumulator' = [accumulator EXCEPT
           ![d] = IF per > 0 THEN sum - Div(roll * WheelDelta, per) ELSE 0]
      /\ from' = [from EXCEPT ![d] = IF per > 0 THEN @ \cup {t} ELSE {}]
      /\ lines' = [lines EXCEPT ![t] = IF d = "vert" THEN -roll ELSE roll]
      /\ Goto(t, "leave")
      /\ UNCHANGED <<event, pos, lock, hwndCurrent>>

LeaveCriticalSection(t) ==
  /\ pc[t] = "leave"
  /\ lock' = IF lock = t THEN "free" ELSE "broken"
  /\ Goto(t, "scroll")
  /\ UNCHANGED <<event, lines, pos, hwndCurrent, accumulator, from>>

(* SetScrollPos(..., si.nPos, ...): the position that GetScrollInfo read   *)
(* before, by this thread's own window.  The client area then moves by the *)
(* lines, which changes nothing here.                                      *)
Scroll(t) ==
  /\ pc[t] = "scroll"
  /\ Goto(t, "loop")
  /\ pos' = [pos EXCEPT ![t][event[t].dir] = pos[t][event[t].dir]]
  /\ UNCHANGED <<event, lines, shared>>

Message(t) ==
  \/ Destroy(t)
  \/ \E delta \in Deltas, dir \in Directions : Wheel(t, delta, dir)
  \/ EnterCriticalSection(t)
  \/ \E inactive \in BOOLEAN : Reset(t, inactive)
  \/ \E per \in LinesPer : Accumulate(t, per)
  \/ LeaveCriticalSection(t)
  \/ Scroll(t)

Inside(t) == pc[t] \in {"reset", "accumulate", "leave"}

(* A program that opens a window only while no other handles its wheel.    *)
ScrollBarNext ==
  \E t \in Threads :
    \/ (\A u \in Threads : ~Inside(u)) /\ Create(t)
    \/ Message(t)

ScrollBarSpec == ScrollBarInit /\ [][ScrollBarNext]_scrollBarVars

(* A program that opens windows whenever it likes.                         *)
NextAny == \E t \in Threads : Create(t) \/ Message(t)

SpecAny == ScrollBarInit /\ [][NextAny]_scrollBarVars

-----------------------------------------------------------------------------
(* NativeScrollBar.c:4, "Lock protecting the static variables": no two     *)
(* threads are between EnterCriticalSection and LeaveCriticalSection.      *)
MutualExclusion ==
  \A t, u \in Threads : Inside(t) /\ Inside(u) => t = u

(* What a window scrolls by comes from its own wheel messages, whatever    *)
(* the other windows' threads do in between.                               *)
OwnDeltasOnly ==
  \A t \in Threads : pc[t] \in {"accumulate", "leave"} =>
    \A d \in Directions : from[d] \subseteq {t}

(* A window never scrolls against the wheel: nothing accumulated in the    *)
(* other direction is left over when the lines are computed.               *)
NeverBackwards ==
  \A t \in Threads : pc[t] \in {"leave", "scroll"} =>
    lines[t] * event[t].delta * (IF event[t].dir = "vert" THEN -1 ELSE 1) >= 0

=============================================================================
