----------------------------- MODULE MCTryCatch -----------------------------
(* Two exception classes, one the subclass of the other.                   *)
EXTENDS TryCatch

MCTypes      == {"Exception", "IoException"}
MCSuperTypes == [e \in MCTypes |-> IF e = "IoException" THEN MCTypes ELSE {e}]

=============================================================================
