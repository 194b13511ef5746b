----------------------------- MODULE MCCpuDoc -------------------------------
(* CpuDoc on a few short programs; each ends on an opcode without function *)
(* or at the end of the window.                                            *)
EXTENDS CpuDoc, InstTable

MCInstTable == InstTable      \* by this name TLC evaluates the table once
MCLayouts == {"padding"}

MCCarts == {
    <<\hA9, \h00, \h49, \h01, \hEA>>,             \* LDA #$00, EOR #$01
    <<\hEA, \h6D>>,                               \* NOP, ADC with an absolute operand
    <<\h6C, \h03, \hF0, \h08, \hF0>>              \* JMP ($F003)
 }

Window == PC \in CARMEM_START..(CARMEM_START + 8)

=============================================================================
