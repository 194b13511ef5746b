---------------------------- MODULE InputTurns -----------------------------
(***************************************************************************)
(* What handle_input() promises the loop: seen from the program, a turn of *)
(* the input is one step, in which at most one key changes SWCHA, however  *)
(* many events were waiting.  MainLoop takes its input like this;          *)
(* Lifecycle, with a queue that it handles event by event, implements it.  *)
(***************************************************************************)
EXTENDS PiaInput

VARIABLES
    at,        \* the start, the turn of the program, that of the input, or over
    mem        \* the cell SWCHA

Init == at = "start" /\ mem = << >>

Start == at = "start" /\ at' \in {"program", "over"} /\ UNCHANGED mem

Program ==
    /\ at = "program"
    /\ at' = "input"
    /\ mem' = mem \/ \E b \in Byte : mem' = Put(mem, SWCHA, b)

Ends == at = "program" /\ at' = "over" /\ UNCHANGED mem

Input ==
    /\ at = "input"
    /\ at' = "program"
    /\ mem' = mem \/ \E code \in JoystickKeys : mem' = pia_process_input(mem, code)

(* A request to quit: what keys before it have done is not seen.           *)
Quit == at = "input" /\ at' = "over" /\ UNCHANGED mem

Next == Start \/ Program \/ Ends \/ Input \/ Quit

Spec == Init /\ [][Next]_<<at, mem>>

=============================================================================
