----------------------------- MODULE MCThreads -----------------------------
(* Two programs, one with two threads of which one sleeps, and ints of     *)
(* three bits: with two nanoseconds to a millisecond, 1 ms fits and 2 ms   *)
(* turn negative.                                                          *)
EXTENDS Threads

CONSTANTS first, second, sleeper, worker, other

MCProgram   == {first, second}
MCThread    == {sleeper, worker, other}
MCProgramOf == [t \in MCThread |-> IF t = other THEN second ELSE first]
MCMillis    == [t \in MCThread |-> IF t = sleeper THEN {1, 2} ELSE {}]

=============================================================================
