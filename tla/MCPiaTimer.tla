----------------------------- MODULE MCPiaTimer -----------------------------
(* PiaTimer with instructions of two to eight cycles and vacant opcodes,   *)
(* which count none.                                                       *)
EXTENDS PiaTimer

MCDurations == {0} \cup 2..Longest
MCIntervals == {0, 1, 3}
MCNumbers == {1, 8, 64}

ASSUME MCTimerAssumption == TimerAssumption

=============================================================================
