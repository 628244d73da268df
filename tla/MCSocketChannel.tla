-------------------------- MODULE MCSocketChannel --------------------------
(* A buffer of 4 bytes.  The frames of the lengths 0, 2, 6 and 10 have 2,  *)
(* 4, 8 and 13 bytes: less than a buffer, exactly one, exactly two, three  *)
(* and a byte, the last with a header of two digits.  Each program has four*)
(* descriptors: the server needs three, and one fault may cost it one.     *)
EXTENDS Sockets

MCLengths == {0, 2, 6, 10}

MCTable == 0..3

=============================================================================
