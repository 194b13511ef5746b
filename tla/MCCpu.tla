------------------------------- MODULE MCCpu --------------------------------
(***************************************************************************)
(* Cpu, with the calls of CpuCalls, on three kinds of cartridges, each     *)
(* ended by an opcode without a function: two instructions after a         *)
(* prologue, programs of four slots that call, return and use the stack,   *)
(* and programs that run over the end of the address space.                *)
(***************************************************************************)
EXTENDS CpuCalls, InstTable, SequencesExt

MCInstTable == InstTable      \* by this name TLC evaluates the table once
MCLayouts == {"A", "padding"}

(* Register contents to start from: S at the top of the stack area, or at  *)
(* 0, from where a push wraps to the other end of the address space.       *)
Prologues == {
    <<\hA9, \h80, \hA2, \hFF, \hA0, \h01>>,      \* LDA #$80, LDX #$FF, LDY #$01
    <<\hA9, \h01, \hA2, \h00, \h9A, \hA0, \hFF>> \* LDA #$01, LDX #$00, TXS, LDY #$FF
 }

(* One instruction of every function and addressing mode, on operands that *)
(* reach the page boundaries, the timer, the stack and both ends of the    *)
(* array.                                                                  *)
Items == {
    <<\h69, \hFF>>, <<\h75, \h01>>, <<\h7D, \hFF, \h01>>, <<\h61, \h00>>, <<\h71, \hFF>>,
    <<\hF9, \hFF, \h01>>, <<\h29, \h01>>, <<\h09, \h80>>,
    <<\h49, \hFF>>, <<\hC9, \h01>>, <<\hE0, \hFF>>, <<\hC0, \h01>>, <<\h2C, \hFF, \h01>>,
    <<\h0A>>, <<\h1E, \h97, \h01>>, <<\h5E, \h97, \h02>>, <<\h2A>>, <<\h2E, \hFF, \hFF>>,
    <<\h7E, \h95, \h01>>, <<\hEE, \h94, \h02>>, <<\hCE, \h97, \h02>>,
    <<\hB9, \hFF, \hFF>>, <<\hAE, \hFF, \hFF>>, <<\hB6, \h01>>, <<\hA0, \h00>>,
    <<\hBC, \hFF, \hEF>>, <<\h8D, \hFF, \hFF>>, <<\h8D, \h96, \h02>>, <<\h91, \h80>>,
    <<\h8E, \hFF, \h01>>, <<\h8C, \h84, \h02>>, <<\hE8>>, <<\hCA>>, <<\hC8>>, <<\h88>>,
    <<\hAA>>, <<\hA8>>, <<\h8A>>, <<\h98>>, <<\hBA>>, <<\h9A>>,
    <<\h18>>, <<\h38>>, <<\hD8>>, <<\hF8>>, <<\h58>>, <<\h78>>, <<\hB8>>, <<\hEA>>, <<\h02>>,
    <<\h48>>, <<\h08>>, <<\h68>>, <<\h28>>,
    <<\h4C, \h0C, \hF0>>, <<\h6C, \h01, \hF0>>, <<\h20, \h08, \hF0>>, <<\h60>>,
    <<\h90, \h01>>, <<\hB0, \hFE>>, <<\hD0, \h02>>, <<\hF0, \hF7>>, <<\h30, \h01>>, <<\h50, \h04>>, <<\h00>>
 }

(* Programs that store an instruction of one, two or three bytes to one of *)
(* the last cells and jump to it: LDA #op, STA $FFlow, JMP $FFlow.         *)
AtTheEnd == {
    <<\hA9, op, \h8D, low, \hFF, \h4C, low, \hFF>> : op \in {\hE8, \hA9, \hAD}, low \in {\hFC, \hFD, \hFE}
 }

(* The first of the two: what sets registers, flags, the stack, the timer, *)
(* the cell past the end or the program counter.                           *)
Setting == {
    <<\h69, \hFF>>, <<\h09, \h80>>, <<\h49, \hFF>>, <<\hC9, \h01>>, <<\h2C, \hFF, \h01>>,
    <<\h0A>>, <<\h2A>>, <<\h2E, \hFF, \hFF>>, <<\hEE, \h94, \h02>>, <<\hA0, \h00>>,
    <<\h8D, \hFF, \hFF>>, <<\h8D, \h96, \h02>>, <<\h8E, \hFF, \h01>>, <<\h8C, \h84, \h02>>,
    <<\hE8>>, <<\hCA>>, <<\h8A>>, <<\h9A>>, <<\h38>>, <<\h48>>, <<\h08>>, <<\h28>>,
    <<\h6C, \h01, \hF0>>, <<\h20, \h08, \hF0>>, <<\h60>>, <<\hD0, \h02>>, <<\hF0, \hF7>>, <<\h50, \h04>>
 }

Pairs == {prologue \o i \o j : prologue \in Prologues, i \in Setting, j \in Items}

(* The programs that call: each slot holds one instruction, padded with    *)
(* NOP.  The last slot is not called.                                      *)
CONSTANT Slots      \* how many slots a program has

Call(slot) == <<\h20, Low(CARMEM_START + (3 * slot)), High(CARMEM_START)>>

Instructions == {Call(slot) : slot \in 0..(Slots - 2)} \cup {
    <<\h60, \hEA, \hEA>>,                       \* RTS
    <<\h48, \hEA, \hEA>>, <<\h68, \hEA, \hEA>>, \* PHA, PLA
    <<\hCE, \hFE, \h01>>,                       \* DEC $01FE: a byte of the first frame
    <<\hA2, \h03, \h9A>>                        \* LDX #$03, TXS: a stack at the bottom
 }

Calling == {FlattenSeq(program) : program \in [1..Slots -> Instructions]}

MCCarts == {program \o <<\h6D>> : program \in Pairs \cup Calling} \cup AtTheEnd

(* The bounds of the run: a program that jumps out of this window, around  *)
(* the start of the cartridge and both ends of the address space, is not   *)
(* followed (it would walk through zeroed cells, opcode 0x00, for long),   *)
(* nor one whose stack grows further than ten bytes.  The programs that    *)
(* call, none of which begins with LDA as the others do, run with one of   *)
(* the two layouts only; the pairs reach the cell behind the array with    *)
(* both.                                                                   *)
Window == /\ PC \in (CARMEM_START - 8)..(CARMEM_START + 20) \cup 65530..65535 \cup 0..2
          /\ Low(S) >= 246 \/ Low(S) <= 4
          /\ past = "padding" \/ Fetch(mem, CARMEM_START) = \hA9

=============================================================================
