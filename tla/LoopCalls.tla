----------------------------- MODULE LoopCalls ------------------------------
(***************************************************************************)
(* Subroutine calls in the whole loop.  Between two instructions the PIA   *)
(* writes to the memory that the stack is in: run_pia() stores the newest  *)
(* key to SWCHA and counts INTIM down.  A program that pulls more than it  *)
(* pushes can have its stack there.                                        *)
(*                                                                         *)
(* The history of CpuCalls, updated by the instructions; a call is also    *)
(* forgotten when the PIA has changed a byte of it, which must be one of   *)
(* these two cells.                                                        *)
(***************************************************************************)
EXTENDS MainLoop, CpuCalls

loopCallVars == <<loopVars, calls>>

(* The turn of the PIA has written over the frame.                         *)
PiaChanged(f) ==
    \E x \in {f.at, f.at - 1} \cap {INTIM, SWCHA} : Fetch(mem', x) # Fetch(mem, x)

LoopCallsInit == LoopInit /\ calls = {}

LoopCallsNext ==
    \/ run_cpu /\ calls' = {f \in calls \cup NewFrame : OnStack(f, S') /\ ~Changed(f)}
    \/ run_pia /\ calls' = {f \in calls : ~PiaChanged(f)}
    \/ (scan_clock \/ run_tia \/ quit) /\ UNCHANGED calls

LoopCallsSpec == LoopCallsInit /\ [][LoopCallsNext]_loopCallVars

-----------------------------------------------------------------------------
(* RTS returns to the instruction after the call at whose frame it stands, *)
(* however many instructions, and turns of the input and the timer, lie    *)
(* between the two (cpu.c: jsr(), rts(); main.c, lines 86-91).             *)
LoopReturnsToCaller ==
    [][\A f \in calls :
          phase = "cpu" /\ inst.exec = "rts" /\ S = f.at - 2 => PC' = f.ret
      ]_loopCallVars

=============================================================================
