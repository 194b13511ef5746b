----------------------------- MODULE MCMainLoop -----------------------------
(***************************************************************************)
(* The loop on a small screen with four kinds of programs: one that waits  *)
(* for the timer in a loop, over and over, one that switches the screen    *)
(* off and on as the joystick is moved, one that calls a subroutine, and   *)
(* one that ends.                                                          *)
(***************************************************************************)
EXTENDS TimerWait, LoopCalls, InstTable

MCInstTable == InstTable      \* by this name TLC evaluates the table once
MCLayouts == {"padding"}
MCBufferLayouts == {"counters", "table"}
MCKeys == {"W", "UP"}

(* f000 LDA SWCHA, STA VBLANK, JMP f000: W switches the screen off, the    *)
(* key UP switches it on again.                                            *)
Blanking == <<\hAD, \h80, \h02, \h8D, \h01, \h00, \h4C, \h00, \hF0>>

(* LDA #7, STA TIM1T, a vacant opcode, DEC INTIM, JMP fffe. *)
Ending == <<\hA9, 7, \h8D, \h94, \h02, \h02, \hCE, \h84, \h02, \h4C, \hFE, \hFF>>

(* f000 JSR f011, PHA, PHA, LDX #$22, f007 PLA, PLA, PLA, PLA, DEX,        *)
(* BNE f007, f00e JSR f011, f011 NOP, NOP, RTS.  The pulls take the stack  *)
(* pointer to 0x285, so the second call has its low byte in INTIM, which   *)
(* the PIA counts down: it returns to the JSR itself.                      *)
Calling == <<\h20, \h11, \hF0, \h48, \h48, \hA2, \h22,
             \h68, \h68, \h68, \h68, \hCA, \hD0, \hF9,
             \h20, \h11, \hF0, \hEA, \hEA, \h60>>

(* Both histories are kept: the calls, and the cycles of a wait.           *)
MCInit == LoopCallsInit /\ spent = 0

MCSpec ==
    /\ MCInit
    /\ [][LoopCallsNext /\ Spends]_<<loopCallVars, spent>>
    /\ LoopFairness

MCCarts == {Waiting(2, \h95), Waiting(5, \h94), Waiting(0, \h94), Blanking, Calling, Ending}

=============================================================================
