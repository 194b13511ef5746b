------------------------------ MODULE CpuCalls ------------------------------
(***************************************************************************)
(* Subroutine calls.  Cpu with a history variable, the calls that have not *)
(* returned: JSR adds one, and a call is forgotten when the stack pointer  *)
(* comes back above its two bytes or a store changes one of them.  Nothing *)
(* else may disturb a call: however the program pushes, pops, moves the    *)
(* stack pointer with TXS and interrupts one subroutine with another, RTS  *)
(* at the stack pointer a call left behind continues after that call.      *)
(*                                                                         *)
(* A call whose two bytes would lie across an end of the address space (S  *)
(* below 2 or at 0xffff, the cell behind the array) is not recorded.       *)
(***************************************************************************)
EXTENDS Cpu

VARIABLE calls      \* open calls: where the high byte lies, where to return

callVars == <<vars, calls>>

CallFrame == [at : 2..(PAST_END - 1), ret : Addr]

(* The two bytes of a frame are still on the stack. *)
OnStack(f, s) == s < f.at - 1

(* A store or read-modify-write function, which may write any cell, has    *)
(* changed one of them.                                                    *)
Changed(f) == /\ inst.exec \in Writers
              /\ \/ Fetch(mem', f.at) # Fetch(mem, f.at)
                 \/ Fetch(mem', f.at - 1) # Fetch(mem, f.at - 1)

NewFrame == IF inst.exec = "jsr" /\ S \in 2..(PAST_END - 1)
            THEN {[at |-> S, ret |-> Plus16(PC, inst.bytes)]}
            ELSE {}

CallsInit == Init /\ calls = {}

CallsNext ==
    /\ Next
    /\ calls' = {f \in calls \cup NewFrame : OnStack(f, S') /\ ~Changed(f)}

CallsSpec == CallsInit /\ [][CallsNext]_callVars

-----------------------------------------------------------------------------
(* Every open call's return address is where JSR put it, high byte above   *)
(* low byte, above the stack pointer.                                      *)
FramesIntact ==
    \A f \in calls :
        /\ OnStack(f, S)
        /\ Word(Fetch(mem, f.at - 1), Fetch(mem, f.at)) = f.ret

(* RTS returns to the instruction after the call whose frame it stands at, *)
(* wherever it was executed and whatever ran in between (cpu.c: jsr(),     *)
(* rts(); mspace.c: stack_push(), stack_pop()).                            *)
ReturnsToCaller ==
    [][\A f \in calls :
          status = "running" /\ inst.exec = "rts" /\ S = f.at - 2 => PC' = f.ret
      ]_callVars

=============================================================================
