----------------------------- MODULE MCGetPipe -----------------------------
(* The instance with outputs of 0 to 8 bytes for a pipe of 4: empty, less  *)
(* than the pipe, exactly the pipe, more than it.                          *)
EXTENDS GetPipe

=============================================================================
