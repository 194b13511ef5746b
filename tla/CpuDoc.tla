------------------------------- MODULE CpuDoc -------------------------------
(***************************************************************************)
(* What the repository's documents and comments say of the processor, as   *)
(* properties of Cpu.                                                      *)
(***************************************************************************)
EXTENDS Cpu

(* docs/6502.txt, lines 70-72, on Z: "this is set to 1 when any arithmetic *)
(* or logical operation produces a zero result, and is set to 0 if the     *)
(* result is non-zero".                                                    *)
ZeroFlagFollowsResult ==
    [][/\ inst.exec \in {"adc", "sbc", "and", "ora", "eor"} =>
             (STATUS_Z \in P' <=> A' = 0)
       /\ inst.exec \in {"inx", "dex"} => (STATUS_Z \in P' <=> X' = 0)]_vars

(* cpu.c, lines 20-22: "each instruction has a corresponding function", and *)
(* the opcodes without an instruction have vac().                          *)
EveryOpcodeHasFunction == status # "crashed"

(* docs/6502.txt, lines 175-178: JMP ($215F) "takes the value of bytes     *)
(* $215F, $2160 and uses that as the address to jump to".                  *)
JmpThroughPointer ==
    [][inst.exec = "jmpin" => PC' = fetch_word(operand, Plus16(operand, 1))]_vars

=============================================================================
