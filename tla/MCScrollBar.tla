---------------------------- MODULE MCScrollBar ----------------------------
(* Two windows.  A click is 6 units, so that 4 lines per click do not      *)
(* divide it; two finer wheels, whose deltas leave remainders larger than  *)
(* the delta that follows from the other direction.                        *)
EXTENDS ScrollBar

MCDeltas   == {-2, 4}
MCLinesPer == {0, 1, 4}

=============================================================================
