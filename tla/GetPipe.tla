------------------------------ MODULE GetPipe ------------------------------
(***************************************************************************)
(* getPipe of NativeSystem.c on POSIX systems: run a command and print     *)
(* what it writes.  The parent forks, waits for the child to end, and only *)
(* then closes its write end of the pipe and reads.  A pipe holds a        *)
(* bounded number of bytes, and a child that writes to a full pipe blocks  *)
(* until somebody reads: nobody does before the child has ended.           *)
(*                                                                         *)
(* The error callback returns, and getPipe goes on whatever has failed; the*)
(* results of pipe and read are not even looked at.  So it may wait for a  *)
(* child of the program that is not its own, and read from a descriptor    *)
(* that pipe never set.                                                    *)
(*                                                                         *)
(* The command, the kernel's pipe and wait are external; they are modelled *)
(* as getPipe uses them.  The error callback that a child calls when execv *)
(* fails runs in the child's copy of the program and is not seen here.     *)
(***************************************************************************)
EXTENDS Integers

CONSTANTS
  Capacity,    \* bytes the pipe holds
  BufSize,     \* sizeof(buf)
  MaxOutput    \* bound: bytes the command writes

ASSUME GetPipeAssumption ==
  /\ Capacity \in Nat \ {0}
  /\ BufSize \in Nat \ {0}
  /\ MaxOutput \in Nat

VARIABLES
  output,      \* the command's output in bytes, chosen at the start
  parent,      \* where the caller of getPipe is
  child,       \* the forked process
  other,       \* another child that the program may have
  left,        \* bytes the child has still to write
  pipe,        \* bytes in the pipe
  readEnd,     \* pipefd[0]: the pipe, no descriptor, or another open one
  writeEnd,    \* the parent's own pipefd[1] is open
  received,    \* bytes the parent has read
  errors,      \* the messages reported: "Could not create / wait for process."
  failed       \* history: the calls that failed, each at most once (a bound)

pipeVars == <<output, parent, child, other, left, pipe, readEnd, writeEnd, received,
              errors, failed>>

(* pipefd is not initialised.                                              *)
PipeInit ==
  /\ output \in 0..MaxOutput
  /\ parent = "pipe" /\ child = "none"
  /\ other \in {"none", "running"}
  /\ left = output /\ pipe = 0 /\ received = 0
  /\ readEnd \in {"none", "other"}
  /\ writeEnd = FALSE
  /\ errors = {} /\ failed = {}

-----------------------------------------------------------------------------
Fails(call) == call \notin failed /\ failed' = failed \cup {call}

(* pipe(pipefd), whose failure leaves pipefd as it is.                     *)
Pipe ==
  /\ parent = "pipe"
  /\ parent' = "fork"
  /\ \/ readEnd' = "pipe" /\ writeEnd' = TRUE /\ UNCHANGED failed
     \/ Fails("pipe") /\ UNCHANGED <<readEnd, writeEnd>>
  /\ UNCHANGED <<output, child, other, left, pipe, received, errors>>

(* fork(): when it fails, the error is reported and the function goes on.  *)
Fork ==
  /\ parent = "fork"
  /\ parent' = "wait"
  /\ \/ child' = "forked" /\ UNCHANGED <<errors, failed>>
     \/ /\ Fails("fork")
        /\ errors' = errors \cup {"create"}
        /\ UNCHANGED child
  /\ UNCHANGED <<output, other, left, pipe, readEnd, writeEnd, received>>

(* Mutant: the wait does not block.                                        *)
Wait_NoHang ==
  /\ parent = "wait"
  /\ parent' = "close"
  /\ UNCHANGED <<output, child, other, left, pipe, readEnd, writeEnd, received, errors, failed>>

(* waitpid(pid) != pid is an error.  With its own child's pid, it waits for*)
(* that child and may be interrupted.                                      *)
WaitChild ==
  /\ child # "none"
  /\ \/ child = "ended" /\ child' = "reaped" /\ UNCHANGED <<errors, failed>>
     \/ /\ child # "ended" /\ Fails("wait")
        /\ errors' = errors \cup {"wait"}
        /\ UNCHANGED child
  /\ UNCHANGED other

(* With the pid -1 of a failed fork, it waits for any child of the program *)
(* and returns that child's pid; or -1, which compares equal to pid, when  *)
(* there is none or the wait is interrupted.                               *)
WaitAny ==
  /\ child = "none"
  /\ \/ /\ other = "ended" /\ other' = "reaped"
        /\ errors' = errors \cup {"wait"}
        /\ UNCHANGED failed
     \/ other = "none" /\ UNCHANGED <<other, errors, failed>>
     \/ other = "running" /\ Fails("wait") /\ UNCHANGED <<other, errors>>
  /\ UNCHANGED child

Wait ==
  /\ parent = "wait"
  /\ parent' = "close"
  /\ WaitChild \/ WaitAny
  /\ UNCHANGED <<output, left, pipe, readEnd, writeEnd, received>>

(* Mutant: the parent keeps its write end.                                 *)
CloseWriteEnd_Kept ==
  /\ parent = "close"
  /\ parent' = "read"
  /\ UNCHANGED <<output, child, other, left, pipe, readEnd, writeEnd, received, errors, failed>>

(* close(pipefd[1])                                                        *)
CloseWriteEnd ==
  /\ parent = "close"
  /\ parent' = "read"
  /\ writeEnd' = FALSE
  /\ UNCHANGED <<output, child, other, left, pipe, readEnd, received, errors, failed>>

EndOfFile == pipe = 0 /\ ~writeEnd /\ child \notin {"forked", "running"}

ReadSome ==
  /\ pipe > 0
  /\ \E n \in 1..BufSize :
       n <= pipe /\ pipe' = pipe - n /\ received' = received + n
  /\ UNCHANGED <<parent, failed>>

(* Mutant: a read that fails ends the loop.                                *)
ReadPipe_EndsOnError ==
  /\ parent = "read"
  /\ \/ /\ readEnd = "pipe"
        /\ \/ ReadSome
           \/ EndOfFile /\ parent' = "returned" /\ UNCHANGED <<pipe, received, failed>>
           \/ Fails("read") /\ parent' = "returned" /\ UNCHANGED <<pipe, received>>
     \/ readEnd = "none" /\ parent' = "returned" /\ UNCHANGED <<pipe, received, failed>>
     \/ /\ readEnd = "other" /\ parent' \in {"read", "returned"}
        /\ UNCHANGED <<pipe, received, failed>>
  /\ UNCHANGED <<output, child, other, left, readEnd, writeEnd, errors>>

(* while (read(...) != 0) printf(...): read returns what is there, at most *)
(* a buffer full, waits while there may be more, and returns 0 when every  *)
(* write end is closed.  The -1 of a read that fails is taken for data: so *)
(* the loop goes on after an interrupted read, and for ever on what is no  *)
(* descriptor.  Another descriptor may come to its end.  What printf makes *)
(* of a buffer without a final NUL is left out.                            *)
ReadPipe ==
  /\ parent = "read"
  /\ \/ /\ readEnd = "pipe"
        /\ \/ ReadSome
           \/ EndOfFile /\ parent' = "returned" /\ UNCHANGED <<pipe, received, failed>>
           \/ Fails("read") /\ UNCHANGED <<parent, pipe, received>>
     \/ readEnd = "none" /\ UNCHANGED <<parent, pipe, received, failed>>
     \/ /\ readEnd = "other" /\ parent' \in {"read", "returned"}
        /\ UNCHANGED <<pipe, received, failed>>
  /\ UNCHANGED <<output, child, other, left, readEnd, writeEnd, errors>>

Parent == Pipe \/ Fork \/ Wait \/ CloseWriteEnd \/ ReadPipe

(* dup2 and execv, which may fail: then the child ends without output.     *)
Exec ==
  /\ child = "forked"
  /\ child' \in {"running", "ended"}
  /\ UNCHANGED <<output, parent, other, left, pipe, readEnd, writeEnd, received, errors, failed>>

(* The command writes a byte, if there is room for it.  Without a pipe it  *)
(* writes to wherever the program's own output goes.                       *)
Write ==
  /\ child = "running" /\ left > 0
  /\ left' = left - 1
  /\ IF readEnd = "pipe" THEN pipe < Capacity /\ pipe' = pipe + 1 ELSE UNCHANGED pipe
  /\ UNCHANGED <<output, parent, child, other, readEnd, writeEnd, received, errors, failed>>

Exit ==
  /\ child = "running" /\ left = 0
  /\ child' = "ended"
  /\ UNCHANGED <<output, parent, other, left, pipe, readEnd, writeEnd, received, errors, failed>>

Child == Exec \/ Write \/ Exit

(* The other child of the program ends, sooner or later or never.          *)
OtherEnds ==
  /\ other = "running"
  /\ other' = "ended"
  /\ UNCHANGED <<output, parent, child, left, pipe, readEnd, writeEnd, received, errors, failed>>

PipeNext == Parent \/ Child \/ OtherEnds

(* The system schedules getPipe and its child.                             *)
PipeSpec == PipeInit /\ [][PipeNext]_pipeVars /\ WF_pipeVars(Parent) /\ WF_pipeVars(Child)

-----------------------------------------------------------------------------
(* Where getPipe may stay for ever: waiting for a command whose output does*)
(* not fit into the pipe; waiting, after a failed fork, for another child  *)
(* of the program; reading what pipe did not set.                          *)
MayHang ==
  \/ parent = "wait" /\ child = "running" /\ readEnd = "pipe" /\ output > Capacity
  \/ parent = "wait" /\ child = "none" /\ other = "running"
  \/ parent = "read" /\ readEnd # "pipe"

(* Whatever fails and is interrupted, getPipe returns but for these: so it *)
(* does whenever pipe and fork succeed and the output fits into the pipe.  *)
ReturnsIfFits == <>[](parent = "returned" \/ MayHang)

(* A command that writes more than the pipe holds never comes back once it *)
(* has written, since waitpid is before read: unless the wait was          *)
(* interrupted, or there is no pipe.                                       *)
OverflowNeverReturns ==
  parent = "returned" /\ left < output /\ failed \cap {"pipe", "wait"} = {} => output <= Capacity

(* On return, interrupted or not, the pipe that there was has been read to *)
(* the end of all that the command wrote; without an error reported the    *)
(* command was reaped; and no other child of the program was, unless it was*)
(* reported that there is no command.                                      *)
AllReceived ==
  parent = "returned" =>
    /\ "pipe" \notin failed =>
         pipe = 0 /\ received = output - left /\ child \notin {"forked", "running"}
    /\ "pipe" \in failed => readEnd = "other" /\ received = 0
    /\ errors = {} => child = "reaped"
    /\ other = "reaped" => "create" \in errors

=============================================================================
