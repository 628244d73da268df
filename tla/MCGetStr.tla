------------------------------ MODULE MCGetStr ------------------------------
(* A first buffer of two characters, so that lines of up to seven make it  *)
(* grow by a chunk, double, and fit exactly; the terminator of nova_read   *)
(* does not occur in a text file.                                          *)
EXTENDS GetStr

MCChars       == {"x", "\n"}
MCTerminators == {"\n", Nul}

=============================================================================
