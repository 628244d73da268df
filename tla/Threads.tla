------------------------------ MODULE Threads ------------------------------
(***************************************************************************)
(* Threads, sleeping and the semaphore of the runtime (NativeThread.c and  *)
(* its twin LibNovaThread.c) as the POSIX build compiles them.             *)
(*                                                                         *)
(*   create_thread    allocates a DataStruct and a handle, calls           *)
(*                    pthread_create and returns the handle whether or not *)
(*                    a thread was made                                    *)
(*   lib_nova_thread_run   calls the run method of the DataStruct          *)
(*   thread_nanosleep      sleeps, and again for what is left when a signal*)
(*                    ended the sleep                                      *)
(*   nova_create_semaphore, nova_close_semaphore   open, and close and     *)
(*                    unlink, a named semaphore: one name for all programs *)
(*                    of the machine, one pointer for all threads of one   *)
(*                                                                         *)
(* The standard library (external) calls these; here one thread of each    *)
(* program opens the semaphore before it creates threads and closes it when*)
(* they have ended, and a run method either sleeps, or waits and posts.    *)
(* A program may be killed at any point, and started again.                *)
(***************************************************************************)
EXTENDS Integers, Sequences

CONSTANTS
  Program,        \* the programs running on the machine
  Thread,         \* the Thread objects of all programs
  NoThread,       \* stands for none of them
  ProgramOf,      \* ProgramOf[t]: the program that creates thread t
  Millis,         \* Millis[t]: arguments of lib_nova_thread_sleep in thread t
  PerMilli,       \* nanoseconds in a millisecond
  IntMax,         \* the largest int
  MaxSemaphores,  \* bound: semaphores ever created under the name
  MaxFaults       \* bound: failed calls, cancelled threads, killed programs

ASSUME ThreadsAssumption ==
  /\ ProgramOf \in [Thread -> Program] /\ NoThread \notin Thread
  /\ Millis \in [Thread -> SUBSET Nat]
  /\ PerMilli \in Nat /\ IntMax \in Nat
  /\ MaxSemaphores \in Nat /\ MaxFaults \in Nat

VARIABLES
  program,   \* state, semaphore pointer and join of each program
  thread,    \* where each thread is, the semaphore it holds, its sleep
  value,     \* the values of the semaphores, in the order of their creation
  name,      \* the semaphore that the name stands for, or 0
  faults,    \* how many faults there were
  lost,      \* history: the semaphores whose holder was killed or cancelled
  unlinked   \* history: a name was removed while another program used it

vars == <<program, thread, value, name, faults, lost, unlinked>>

Semaphores == 1..Len(value)

(* pointer: 0 before nova_create_semaphore or if it failed.                *)
NewProgram == [state |-> "running", pointer |-> 0, joining |-> NoThread]

NoNap == [asked |-> 0, req |-> 0, slept |-> 0]

(* pc: none, failed, created, running, sleeping, critical, left, ended,    *)
(* joined.                                                                 *)
NewThread == [pc |-> "none", held |-> 0, nap |-> NoNap]

At(pc) == [NewThread EXCEPT !.pc = pc]

Init ==
  /\ program = [p \in Program |-> NewProgram]
  /\ thread = [t \in Thread |-> NewThread]
  /\ value = << >> /\ name = 0 /\ faults = 0
  /\ lost = {} /\ unlinked = FALSE

-----------------------------------------------------------------------------
Alive == {"created", "running", "sleeping", "critical", "left"}

ThreadsOf(p) == {t \in Thread : ProgramOf[t] = p}

Idle(p) == \A t \in ThreadsOf(p) : thread[t].pc \notin Alive

(* The first thread of program p can make a call: it runs and does not wait*)
(* for a thread.                                                           *)
Calls(p) == program[p].state = "running" /\ program[p].joining = NoThread

Fault == faults < MaxFaults /\ faults' = faults + 1

Runs(t, pc) == program[ProgramOf[t]].state = "running" /\ thread[t].pc = pc

(* Mutant: a semaphore of the process's own every time.                    *)
Opened_Private == 0

(* The semaphore that O_CREAT finds under the name, or 0.                  *)
Opened == name

(* Mutant: the semaphore starts locked.                                    *)
Initially_Locked == 0

Initially == 1

(* sem_open(..., O_CREAT, 0644, 1): a semaphore that is there keeps its    *)
(* value; a failure leaves SEM_FAILED in the pointer.                      *)
nova_create_semaphore(p) ==
  /\ Calls(p) /\ Idle(p) /\ program[p].pointer = 0
  /\ \/ /\ Opened # 0
        /\ program' = [program EXCEPT ![p].pointer = Opened]
        /\ UNCHANGED <<value, name, faults>>
     \/ /\ Opened = 0 /\ UNCHANGED faults
        /\ Len(value) < MaxSemaphores
        /\ value' = Append(value, Initially)
        /\ name' = Len(value')
        /\ program' = [program EXCEPT ![p].pointer = name']
     \/ Fault /\ UNCHANGED <<program, value, name>>
  /\ UNCHANGED <<thread, lost, unlinked>>

(* sem_close fails on a pointer that is not open; sem_unlink removes the   *)
(* name, whatever semaphore it stands for by now.                          *)
nova_close_semaphore(p) ==
  /\ Calls(p) /\ Idle(p) /\ program[p].pointer # 0
  /\ program' = [program EXCEPT ![p].pointer = 0]
  /\ name' = 0
  /\ unlinked' = (unlinked \/ \E q \in Program \ {p} :
                    program[q].state = "running" /\ program[q].pointer # 0)
  /\ UNCHANGED <<thread, value, faults, lost>>

(* create_thread: pthread_create may fail, which nobody looks at.          *)
create_thread(t) ==
  /\ Calls(ProgramOf[t]) /\ thread[t].pc = "none"
  /\ \/ thread' = [thread EXCEPT ![t] = At("created")] /\ UNCHANGED faults
     \/ thread' = [thread EXCEPT ![t] = At("failed")] /\ Fault
  /\ UNCHANGED <<program, value, name, lost, unlinked>>

(* The semaphores held by threads of S.                                    *)
HeldBy(S) == {thread[t].held : t \in S} \ {0}

Killed(S) ==
  /\ thread' = [t \in Thread |->
       IF t \in S /\ thread[t].pc \in Alive THEN At("ended") ELSE thread[t]]
  /\ lost' = lost \cup HeldBy(S)

(* Undefined behaviour ends the program with all its threads.              *)
Undefined(p) ==
  /\ Killed(ThreadsOf(p))
  /\ program' = [program EXCEPT ![p].state = "undefined", ![p].joining = NoThread]
  /\ UNCHANGED <<value, name, faults, unlinked>>

(* A crash, or an exit without nova_close_semaphore, and a new start.      *)
Restart(p) ==
  /\ program[p].state = "running" /\ Fault
  /\ program' = [program EXCEPT ![p] = NewProgram]
  /\ thread' = [t \in Thread |-> IF t \in ThreadsOf(p) THEN NewThread ELSE thread[t]]
  /\ lost' = lost \cup HeldBy(ThreadsOf(p))
  /\ UNCHANGED <<value, name, unlinked>>

(* pthread_join and pthread_cancel of a handle that was never filled in are*)
(* undefined.                                                              *)
lib_nova_thread_join(t) ==
  LET p == ProgramOf[t]
  IN  /\ Calls(p) /\ thread[t].pc \in Alive \cup {"failed", "ended"}
      /\ IF thread[t].pc = "failed"
         THEN Undefined(p)
         ELSE /\ program' = [program EXCEPT ![p].joining = t]
              /\ UNCHANGED <<thread, value, name, faults, lost, unlinked>>

JoinReturn(t) ==
  LET p == ProgramOf[t]
  IN  /\ program[p].state = "running" /\ program[p].joining = t
      /\ thread[t].pc = "ended"
      /\ program' = [program EXCEPT ![p].joining = NoThread]
      /\ thread' = [thread EXCEPT ![t] = At("joined")]
      /\ UNCHANGED <<value, name, faults, lost, unlinked>>

(* pthread_cancel, and the cancellation point the thread comes to; the    *)
(* interrupted wait or method may have any of them at any place.           *)
lib_nova_thread_cancel(t) ==
  LET p == ProgramOf[t]
  IN  /\ Calls(p) /\ thread[t].pc \in Alive \cup {"failed"}
      /\ IF thread[t].pc = "failed"
         THEN Undefined(p)
         ELSE Killed({t}) /\ Fault /\ UNCHANGED <<program, value, name, unlinked>>

-----------------------------------------------------------------------------
(* What thread t does.                                                     *)
Step(t, new) ==
  /\ thread' = [thread EXCEPT ![t] = new]
  /\ UNCHANGED <<program, name, faults, unlinked>>

lib_nova_thread_run(t) ==
  /\ Runs(t, "created")
  /\ Step(t, At("running"))
  /\ UNCHANGED <<value, lost>>

(* The values of millis * 1000000 in an int: past the largest one it wraps *)
(* around, unless the compiler multiplies the promoted value.              *)
Nanos(millis) ==
  LET exact == millis * PerMilli
  IN  {exact, ((exact + IntMax + 1) % (2 * (IntMax + 1))) - (IntMax + 1)}

thread_nanosleep(t, millis) ==
  /\ Runs(t, "running")
  /\ \E nanos \in Nanos(millis) :
       Step(t, [thread[t] EXCEPT !.pc = "sleeping",
                                 !.nap = [asked |-> millis, req |-> nanos, slept |-> 0]])
  /\ UNCHANGED <<value, lost>>

(* Mutant: an interrupted sleep is not taken up again.                     *)
Remaining_None(req, slept) == 0

(* rem, after a signal ended nanosleep(req) once slept of it had passed.   *)
Remaining(req, slept) == req - slept

(* What an uninitialised rem may hold.                                     *)
Garbage == {-1, IntMax}

Sleeps(t) == Runs(t, "sleeping") /\ UNCHANGED <<value, lost>>

Interrupted(t) ==
  LET nap == thread[t].nap
  IN  /\ Sleeps(t)
      /\ \E slept \in 1..(nap.req - 1) :
           Step(t, [thread[t] EXCEPT !.nap.req = Remaining(nap.req, slept),
                                     !.nap.slept = nap.slept + slept])

(* nanosleep refuses a negative time and does not assign rem.              *)
Refused(t) ==
  /\ Sleeps(t) /\ thread[t].nap.req < 0
  /\ \E rem \in Garbage : Step(t, [thread[t] EXCEPT !.nap.req = rem])

Awake(t) ==
  /\ Sleeps(t) /\ thread[t].nap.req >= 0
  /\ Step(t, [thread[t] EXCEPT !.pc = "left", !.nap = NoNap])

(* sem_wait of the generated code, which may block; without a semaphore it *)
(* is undefined.                                                           *)
Wait(t) ==
  LET s == program[ProgramOf[t]].pointer
  IN  /\ Runs(t, "running")
      /\ \/ /\ s = 0
            /\ Undefined(ProgramOf[t])
         \/ /\ s # 0
            /\ value[s] > 0
            /\ value' = [value EXCEPT ![s] = @ - 1]
            /\ Step(t, [thread[t] EXCEPT !.pc = "critical", !.held = s])
            /\ UNCHANGED lost

(* sem_post, of the semaphore the pointer points to by now.                *)
Post(t) ==
  /\ Runs(t, "critical")
  /\ value' = [value EXCEPT ![program[ProgramOf[t]].pointer] = @ + 1]
  /\ Step(t, [thread[t] EXCEPT !.pc = "left", !.held = 0])
  /\ UNCHANGED lost

(* The run method returns, and so does lib_nova_thread_run.                *)
End(t) ==
  /\ Runs(t, "left")
  /\ Step(t, At("ended"))
  /\ UNCHANGED <<value, lost>>

Works(t) ==
  lib_nova_thread_run(t) \/ Refused(t) \/ Awake(t) \/ Wait(t) \/ Post(t) \/ End(t)

Next ==
  \/ \E p \in Program :
       nova_create_semaphore(p) \/ nova_close_semaphore(p) \/ Restart(p)
  \/ \E t \in Thread :
       \/ create_thread(t) \/ lib_nova_thread_join(t) \/ JoinReturn(t)
       \/ lib_nova_thread_cancel(t)
       \/ Works(t) \/ Interrupted(t) \/ \E millis \in Millis[t] : thread_nanosleep(t, millis)

(* Every thread is scheduled, and a join returns when its thread is over   *)
(* (a thread that works is not over, so one fairness condition does).      *)
Spec ==
  /\ Init /\ [][Next]_vars
  /\ \A t \in Thread : WF_vars(Works(t) \/ JoinReturn(t))

-----------------------------------------------------------------------------
Critical == {t \in Thread : thread[t].pc = "critical"}

Holders(s) == {t \in Thread : thread[t].held = s}

Overflows(millis) == millis * PerMilli > IntMax

(* A semaphore is free, or one live thread holds it, or whoever held it was*)
(* killed or cancelled, and it stays locked for every program from then on,*)
(* those started later included.                                           *)
PermitKept ==
  \A s \in Semaphores :
    \/ value[s] = 1 /\ Holders(s) = {} /\ s \notin lost
    \/ value[s] = 0 /\ (\E t \in Thread : Holders(s) = {t}) /\ s \notin lost
    \/ value[s] = 0 /\ Holders(s) = {} /\ s \in lost

(* The semaphore keeps the threads of a program apart, whatever the other  *)
(* programs that use its name do to it; and the threads of two programs,   *)
(* unless one of them has removed the name from under the other.           *)
OneInside ==
  \A t, u \in Critical :
    t = u \/ (ProgramOf[t] # ProgramOf[u] /\ unlinked)

(* However often signals end it, a sleep takes the time that was asked for,*)
(* if the number of nanoseconds fits an int.                               *)
SleepsLongEnough ==
  [][\A t \in Thread : Awake(t) =>
       LET nap == thread[t].nap
       IN  nap.slept + nap.req >= nap.asked * PerMilli \/ Overflows(nap.asked)]_vars

MayHang == lost # {} \/ \E u \in Thread : Overflows(thread[u].nap.asked)

(* A join returns, unless a permit was lost or an overflowing sleep may    *)
(* never end.                                                              *)
JoinReturns ==
  \A t \in Thread :
    program[ProgramOf[t]].joining = t ~>
      program[ProgramOf[t]].joining # t \/ MayHang

=============================================================================
