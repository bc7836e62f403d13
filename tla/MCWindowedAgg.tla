--------------------------- MODULE MCWindowedAgg ---------------------------
(* A small instance of the window engines for TLC: timestamps from 0, the  *)
(* coarse tumbling windows twice as long as the fine ones.                 *)
EXTENDS WindowedAgg

MCTimes == 0 .. 7
MCSizes == {2, 4}
=============================================================================
