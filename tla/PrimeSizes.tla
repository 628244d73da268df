----------------------------- MODULE PrimeSizes -----------------------------
(***************************************************************************)
(* How HashMap.c picks a table size: the least odd number from a starting  *)
(* point that isPrime accepts.  isPrime is nine rounds of Fermat's test    *)
(* with bases from rand(), so a composite number that some base does not   *)
(* witness can be accepted (the comment at HashMap.c:125) and the same     *)
(* composite can be rejected another time.  Whatever rand() returns is     *)
(* possible here.  Numbers stay small enough for p*a not to overflow an    *)
(* int (below 46341), which is the bound of this model.                    *)
(***************************************************************************)
EXTENDS Integers

(* p after the loop of isPrime: base^(val-1) modulo val.                   *)
FermatPower(base, val) ==
  LET power[e \in 0..(val - 1)] ==
        IF e = 0 THEN 1 ELSE (base * power[e - 1]) % val
  IN  power[val - 1]

(* The values of a = rand() % (val-4) + 2.                                 *)
Bases(val) == 2..(val - 3)

(* Whether isPrime(val) can return 1, and whether it can return 0.  For 1  *)
(* the loop body never runs; for 3 the modulus val-4 wraps around to 2^64-1*)
(* and a is any int, so that a*a may overflow: either answer.              *)
MayAccept(val) ==
  \/ val \in {1, 3}
  \/ \E a \in Bases(val) : FermatPower(a, val) = 1

MayReject(val) ==
  \/ val = 3
  \/ \E a \in Bases(val) : FermatPower(a, val) # 1

(* findPrimeGreaterThan(val), every value it can return.  A prime is never *)
(* rejected and there is one below twice the start, so the search ends.    *)
NextSizes(val) ==
  LET start == IF val % 2 = 1 THEN val + 2 ELSE val + 1
  IN  {v \in start..(2 * start + 2) :
         /\ v % 2 = 1
         /\ MayAccept(v)
         /\ \A w \in start..(v - 1) : w % 2 = 1 => MayReject(w)}

=============================================================================
