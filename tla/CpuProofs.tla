------------------------------ MODULE CpuProofs ------------------------------
(***************************************************************************)
(* Proofs about Cpu: its type invariant, for every set of cartridges and   *)
(* every instruction table with entries of the right types.                *)
(***************************************************************************)
EXTENDS Cpu, MspaceProofs

(* ------------------- What a well-typed state computes ------------------ *)

LEMMA FetchType == ASSUME TypeOK, NEW a PROVE fetch_byte(a) \in Byte
<1>1. Fetch(mem, a) \in Byte
  BY FetchCell DEF TypeOK
<1>. QED
  BY <1>1 DEF TypeOK, fetch_byte

LEMMA FetchWordType == ASSUME TypeOK, NEW l, NEW h PROVE fetch_word(l, h) \in Addr
BY FetchType, WordType DEF fetch_word

LEMMA InstType ==
    ASSUME TypeOK
    PROVE  opcode \in Byte /\ inst.bytes \in 0..3 /\ inst.cycles \in 0..7
<1>1. opcode \in Byte
  BY FetchType DEF opcode
<1>. QED
  BY <1>1, InstTblAssumption, SMT DEF inst

LEMMA OperandType ==
    ASSUME TypeOK, NEW op
    PROVE  fetch_operand(op) \in Addr
BY FetchType, FetchWordType, Widths, SMT DEF fetch_operand

LEMMA AddrType == ASSUME TypeOK PROVE base \in Addr /\ addr \in Addr
<1>1. operand \in Addr
  BY OperandType DEF operand
<1>2. base \in Addr
  BY <1>1, FetchWordType DEF base
<1>3. X \in Int /\ Y \in Int /\ base \in Int
  BY <1>2, Widths DEF TypeOK
<1>. QED
  BY <1>2, <1>3, Plus16Type DEF addr

LEMMA ValueType == ASSUME TypeOK PROVE value \in Byte
<1>1. operand \in Int
  BY OperandType, Widths DEF operand
<1>. QED
  BY <1>1, LowType, FetchType DEF value, TypeOK

LEMMA ExtraType == extra_cycles \in 0..2
BY SMT DEF extra_cycles

LEMMA WithType == ASSUME NEW p, p \subseteq Bit, NEW f \in Bit, NEW on PROVE With(p, f, on) \subseteq Bit
BY DEF With

LEMMA FlagBits == STATUS_C \in Bit /\ STATUS_Z \in Bit /\ STATUS_I \in Bit /\ STATUS_D \in Bit
                  /\ STATUS_V \in Bit /\ STATUS_N \in Bit /\ UNUSED \in Bit
BY SMT DEF Bit, STATUS_C, STATUS_Z, STATUS_I, STATUS_D, STATUS_V, STATUS_N, UNUSED

LEMMA NZType == ASSUME NEW p, p \subseteq Bit, NEW v PROVE NZ(p, v) \subseteq Bit
BY FlagBits, SMT DEF NZ

(* ------------------------ The parts of an action ----------------------- *)

LEMMA RetireType ==
    ASSUME TypeOK, NEW pc \in Int, NEW extra \in 0..2, RetireAt(pc, extra)
    PROVE  PC' \in Addr /\ cycles' \in 0..9 /\ status' \in {"running", "crashed"} /\ past' \in Layouts
<1>1. inst.bytes \in Int /\ inst.cycles \in 0..7
  BY InstType, SMT
<1>2. PC' \in Addr
  BY <1>1, Plus16Type DEF RetireAt
<1>3. cycles' \in 0..9
  BY <1>1, SMT DEF RetireAt
<1>. QED
  BY <1>2, <1>3 DEF RetireAt, TypeOK

LEMMA SetByteType ==
    ASSUME TypeOK, NEW a \in Addr, NEW b \in Byte, set_byte(a, b)
    PROVE  /\ IsMemory(mem') /\ A' \in Byte
           /\ timer_number' \in TimerNumbers /\ timer_cycles' \in 0..TIMER_MAX
<1>1. IsMemory(mem')
  BY StoredMemory DEF set_byte, TypeOK
<1>2. A' \in Byte
  BY DEF set_byte, TypeOK
<1>3. TimerNumber(a) \in {1, 8, 64, 1024}
  BY DEF TimerNumber
<1>4. b \in Int /\ 0 <= b /\ b <= 255
  BY InByte
<1>5. b * TimerNumber(a) \in 0..TIMER_MAX
  <2>1. /\ b * TimerNumber(a) \in Int
        /\ 0 <= b * TimerNumber(a) /\ b * TimerNumber(a) <= TIMER_MAX
    BY <1>3, <1>4, SMT DEF TIMER_MAX
  <2>. QED
    BY <2>1, InTimer
<1>6. timer_number' \in TimerNumbers
  BY <1>3 DEF set_byte, TypeOK, TimerNumbers
<1>7. timer_cycles' \in 0..TIMER_MAX
  BY <1>5 DEF set_byte, TypeOK
<1>. QED
  BY <1>1, <1>2, <1>6, <1>7

LEMMA BelowType == ASSUME NEW a \in Addr PROVE Below(a) \in Addr
BY InAddr, SMT DEF Below

LEMMA PushedMemory ==
    ASSUME NEW m, IsMemory(m), NEW a \in Addr, NEW b \in Byte
    PROVE  IsMemory(Pushed(m, a, b))
BY PutMemory DEF Pushed

LEMMA StackPushType ==
    ASSUME TypeOK, NEW b \in Byte, stack_push(b)
    PROVE  IsMemory(mem') /\ A' \in Byte /\ S' \in Addr
BY PushedMemory, BelowType DEF stack_push, TypeOK

LEMMA PushWordType ==
    ASSUME TypeOK, NEW h \in Byte, NEW l \in Byte, push_word(h, l)
    PROVE  IsMemory(mem') /\ A' \in Byte /\ S' \in Addr
<1>1. Below(S) \in Addr /\ Below(Below(S)) \in Addr
  BY BelowType DEF TypeOK
<1>2. IsMemory(Pushed(mem, S, h))
  BY PushedMemory DEF TypeOK
<1>3. IsMemory(mem')
  BY <1>1, <1>2, PushedMemory DEF push_word
<1>. QED
  BY <1>1, <1>3 DEF push_word, TypeOK

(* ------------------------------- Actions ------------------------------- *)

LEMMA AccumulateType ==
    ASSUME TypeOK, NEW result \in Byte, NEW p, p \subseteq Bit, Accumulate(result, p)
    PROVE  TypeOK'
<1>1. PC \in Int
  BY Widths DEF TypeOK
<1>. QED
  BY <1>1, RetireType, ExtraType, NZType DEF Accumulate, Retire, timer, TypeOK

LEMMA CompareType ==
    ASSUME TypeOK, NEW register \in Byte, Compare(register)
    PROVE  TypeOK'
<1>1. PC \in Int
  BY Widths DEF TypeOK
<1>2. P' \subseteq Bit
  BY FlagBits, WithType DEF Compare, compare, TypeOK
<1>. QED
  BY <1>1, <1>2, RetireType, ExtraType DEF Compare, Retire, timer, TypeOK

LEMMA NoExtra == 0 \in 0..2
BY SMT

LEMMA ModifyType ==
    ASSUME TypeOK, NEW result \in Byte, Modify(result), P' \subseteq Bit
    PROVE  TypeOK'
<1>1. PC \in Int
  BY Widths DEF TypeOK
<1>2. /\ IsMemory(mem') /\ A' \in Byte
      /\ timer_number' \in TimerNumbers /\ timer_cycles' \in 0..TIMER_MAX
  BY AddrType, SetByteType DEF Modify, timer, TypeOK
<1>. QED
  BY <1>1, <1>2, RetireType, NoExtra DEF Modify, Retire, TypeOK

LEMMA StoreType ==
    ASSUME TypeOK, NEW b \in Byte, Store(b)
    PROVE  TypeOK'
<1>1. PC \in Int
  BY Widths DEF TypeOK
<1>2. /\ IsMemory(mem') /\ A' \in Byte
      /\ timer_number' \in TimerNumbers /\ timer_cycles' \in 0..TIMER_MAX
  BY AddrType, SetByteType DEF Store
<1>. QED
  BY <1>1, <1>2, RetireType, NoExtra DEF Store, Retire, TypeOK

LEMMA SetType ==
    ASSUME TypeOK, NEW v \in Byte, SetX(v) \/ SetY(v) \/ SetA(v)
    PROVE  TypeOK'
<1>1. PC \in Int
  BY Widths DEF TypeOK
<1>2. NZ(P, v) \subseteq Bit
  BY NZType DEF TypeOK
<1>. QED
  BY <1>1, <1>2, RetireType, NoExtra DEF SetX, SetY, SetA, Retire, timer, TypeOK

LEMMA FlagsType ==
    ASSUME TypeOK, NEW p, p \subseteq Bit, Flags(p)
    PROVE  TypeOK'
<1>1. PC \in Int
  BY Widths DEF TypeOK
<1>. QED
  BY <1>1, RetireType, NoExtra DEF Flags, Retire, timer, TypeOK

LEMMA PushType ==
    ASSUME TypeOK, NEW b \in Byte, Push(b)
    PROVE  TypeOK'
<1>1. PC \in Int
  BY Widths DEF TypeOK
<1>. QED
  BY <1>1, StackPushType, RetireType, NoExtra DEF Push, Retire, timer, TypeOK

LEMMA GoToType ==
    ASSUME TypeOK, NEW target \in Addr, GoTo(target)
    PROVE  PC' \in Addr /\ cycles' \in 0..9 /\ status' \in {"running", "crashed"} /\ past' \in Layouts
<1>1. ((target - inst.bytes) % 65536) \in Int
  <2>1. inst.bytes \in Int /\ target \in Int
    BY InstType, Widths, SMT
  <2>2. target - inst.bytes \in Int
    BY <2>1, SMT
  <2>. QED
    BY <2>2, Mod16, Widths
<1>. QED
  BY <1>1, RetireType, NoExtra DEF GoTo

LEMMA BranchType ==
    ASSUME TypeOK, NEW condition, Branch(condition)
    PROVE  TypeOK'
<1>1. PC \in Int /\ operand \in Int
  BY OperandType, Widths DEF TypeOK, operand
<1>2. new_pc \in Int
  <2>1. PC - (256 - operand) \in Int
    BY <1>1, SMT
  <2>2. ((PC - (256 - operand)) % 65536) \in Int
    BY <2>1, Mod16, Widths
  <2>3. Plus16(PC, operand) \in Int
    BY <1>1, Plus16Type, Widths
  <2>. QED
    BY <2>2, <2>3 DEF new_pc
<1>3. 1 \in 0..2 /\ 2 \in 0..2
  BY SMT
<1>4. PC' \in Addr /\ cycles' \in 0..9 /\ status' \in {"running", "crashed"} /\ past' \in Layouts
  BY <1>1, <1>2, <1>3, RetireType, NoExtra DEF Branch, Retire
<1>. QED
  BY <1>4 DEF Branch, registers, timer, TypeOK

(* ------------------------------ The theorem ---------------------------- *)

LEMMA LoadedMemory == ASSUME NEW file \in Carts PROVE IsMemory(LoadCartridge(file))
<1>1. file \in Seq(Byte)
  BY CartsAssumption
<1>2. CARMEM_START = 61440 /\ CARMEM_END = 65535
  BY SMT DEF CARMEM_START, CARMEM_END
<1>3. ASSUME NEW a \in CARMEM_START..(CARMEM_END - 1), a - CARMEM_START < Len(file)
      PROVE  a \in Addr /\ file[a - CARMEM_START + 1] \in Byte
  <2>1. a \in Int /\ CARMEM_START <= a /\ a <= CARMEM_END - 1
    BY <1>2, SMT
  <2>2. a \in Addr
    BY <1>2, <2>1, InAddr, SMT
  <2>3. a - CARMEM_START + 1 \in 1..Len(file)
    BY <1>1, <1>2, <1>3, <2>1, SMT
  <2>. QED
    BY <1>1, <2>2, <2>3
<1>. QED
  BY <1>3, SMT DEF LoadCartridge, IsMemory

LEMMA EntryPointType == ASSUME NEW m, IsMemory(m) PROVE EntryPoint(m) \in Addr
<1>1. CARMEM_START \in Addr
  BY InAddr, SMT DEF CARMEM_START
<1>. QED
  BY <1>1, FetchCell, WordType DEF EntryPoint

LEMMA InitType == Init => TypeOK
<1>. SUFFICES ASSUME Init PROVE TypeOK
  OBVIOUS
<1>1. IsMemory(mem)
  BY LoadedMemory DEF Init
<1>2. PC \in Addr
  BY <1>1, EntryPointType DEF Init
<1>3. RAM_END \in Addr
  BY InAddr, SMT DEF RAM_END
<1>4. timer_cycles \in 0..TIMER_MAX
  <2>1. 0 \in Int /\ 0 <= 0 /\ 0 <= TIMER_MAX
    BY SMT DEF TIMER_MAX
  <2>. QED
    BY <2>1, InTimer DEF Init
<1>5. timer_number \in TimerNumbers /\ cycles \in 0..9
  BY SMT DEF Init, TimerNumbers
<1>. QED
  BY <1>1, <1>2, <1>3, <1>4, <1>5, FlagBits, Widths DEF Init, TypeOK

LEMMA NextType == TypeOK /\ [Next]_vars => TypeOK'
<1>. SUFFICES ASSUME TypeOK, [Next]_vars PROVE TypeOK'
  OBVIOUS
<1>v. value \in Byte /\ value \in Int
  BY ValueType, Widths
<1>r. /\ A \in Byte /\ X \in Byte /\ Y \in Byte /\ S \in Addr /\ PC \in Addr /\ P \subseteq Bit
      /\ A \in Int /\ X \in Int /\ Y \in Int /\ S \in Int /\ PC \in Int
  BY Widths DEF TypeOK
<1>b. Carry \in 0..1
  BY SMT DEF Carry
<1>1. CASE lda
  BY <1>1, <1>v, <1>r, NZType, RetireType, ExtraType DEF lda, Retire, timer, TypeOK
<1>2. CASE ldx
  BY <1>2, <1>v, <1>r, NZType, RetireType, ExtraType DEF ldx, Retire, timer, TypeOK
<1>3. CASE ldy
  BY <1>3, <1>v, <1>r, NZType, RetireType, ExtraType DEF ldy, Retire, timer, TypeOK
<1>4. CASE adc
  <2>1. Plus8(A, value) \in Byte
    BY <1>v, <1>r, Plus8Type
  <2>. QED
    BY <1>4, <2>1, <1>r, FlagBits, AccumulateType DEF adc
<1>5. CASE sbc
  <2>1. A - value \in Int
    BY <1>v, <1>r, SMT
  <2>2. ((A - value) % 256) \in Byte
    BY <2>1, Mod8
  <2>. QED
    BY <1>5, <2>2, <1>r, FlagBits, AccumulateType DEF sbc
<1>6. CASE and \/ ora \/ eor
  BY <1>6, <1>r, ByteOfType, AccumulateType DEF and, ora, eor
<1>7. CASE cmp \/ cpx \/ cpy
  BY <1>7, <1>r, CompareType DEF cmp, cpx, cpy
<1>8. CASE bit
  <2>1. P' \subseteq Bit
    BY <1>8, <1>r, FlagBits, WithType DEF bit
  <2>. QED
    BY <1>8, <2>1, <1>r, RetireType, NoExtra DEF bit, Retire, timer, TypeOK
<1>9. CASE asl
  <2>1. Asl(value) \in Byte
    BY <1>v, InByte, SMT DEF Asl
  <2>2. P' \subseteq Bit
    BY <1>9, <1>r, FlagBits, WithType, NZType DEF asl
  <2>. QED
    BY <1>9, <2>1, <2>2, ModifyType DEF asl
<1>10. CASE lsr
  <2>1. Lsr(value) \in Byte
    BY <1>v, InByte, SMT DEF Lsr
  <2>2. With(P, STATUS_C, LowBit(value)) \subseteq Bit
    BY <1>r, FlagBits, WithType
  <2>3. P' \subseteq Bit
    BY <1>10, <2>2, FlagBits DEF lsr
  <2>. QED
    BY <1>10, <2>1, <2>3, ModifyType DEF lsr
<1>11. CASE rol
  <2>1. RollLeft(value) \in Byte
    BY <1>v, <1>b, InByte, SMT DEF RollLeft, Plus8
  <2>2. P' \subseteq Bit
    BY <1>11, <1>r, FlagBits, WithType, NZType DEF rol
  <2>. QED
    BY <1>11, <2>1, <2>2, ModifyType DEF rol
<1>12. CASE ror
  <2>1. RollRight(value) \in Byte
    BY <1>v, <1>b, InByte, SMT DEF RollRight
  <2>2. P' \subseteq Bit
    BY <1>12, <1>r, FlagBits, WithType, NZType DEF ror
  <2>. QED
    BY <1>12, <2>1, <2>2, ModifyType DEF ror
<1>13. CASE inc
  <2>1. Plus8(value, 1) \in Byte
    BY <1>v, Plus8Type, SMT
  <2>2. P' \subseteq Bit
    BY <1>13, <1>r, NZType DEF inc
  <2>. QED
    BY <1>13, <2>1, <2>2, ModifyType DEF inc
<1>14. CASE dec
  <2>1. ((value - 1) % 256) \in Byte
    BY <1>v, InByte, SMT
  <2>2. P' \subseteq Bit
    BY <1>14, <1>r, NZType DEF dec
  <2>. QED
    BY <1>14, <2>1, <2>2, ModifyType DEF dec
<1>15. CASE sta \/ stx \/ sty
  BY <1>15, <1>r, StoreType DEF sta, stx, sty
<1>16. CASE inx \/ dex \/ iny \/ dey
  <2>1. Plus8(X, 1) \in Byte
    BY <1>r, Plus8Type, SMT
  <2>2. ((X - 1) % 256) \in Byte /\ ((Y - 1) % 256) \in Byte
    BY <1>r, InByte, SMT
  <2>. QED
    BY <1>16, <2>1, <2>2, SetType DEF inx, dex, iny, dey
<1>17. CASE tax \/ tay \/ txa \/ tya \/ tsx
  BY <1>17, <1>r, LowType, SetType DEF tax, tay, txa, tya, tsx
<1>18. CASE txs
  BY <1>18, <1>r, Widths, RetireType, NoExtra DEF txs, Retire, timer, TypeOK
<1>19. CASE clear \/ set \/ idle
  BY <1>19, <1>r, FlagBits, FlagsType DEF clear, set, idle
<1>20. CASE pha \/ php
  BY <1>20, <1>r, ByteOfType, PushType DEF pha, php
<1>21. CASE pla \/ plp
  <2>1. stack_pop(1) \in Byte
    BY FetchType DEF stack_pop
  <2>2. Plus16(S, 1) \in Addr
    BY <1>r, Plus16Type, SMT
  <2>. QED
    BY <1>21, <2>1, <2>2, <1>r, BitsOfType, RetireType, NoExtra DEF pla, plp, Retire, timer, TypeOK
<1>22. CASE jmp
  <2>1. operand \in Addr
    BY OperandType DEF operand
  <2>. QED
    BY <1>22, <2>1, GoToType DEF jmp, registers, timer, TypeOK
<1>23. CASE jmpin
  <2>1. Low(fetch_operand(Low(operand + 1))) \in Byte
    BY OperandType, Widths, LowType
  <2>2. Word(fetch_byte(operand), Low(fetch_operand(Low(operand + 1)))) \in Addr
    BY <2>1, FetchType, WordType
  <2>. QED
    BY <1>23, <2>2, GoToType DEF jmpin, registers, timer, TypeOK
<1>24. CASE jsr
  <2>1. Plus16(PC, inst.bytes) \in Addr
    BY <1>r, InstType, Plus16Type, SMT
  <2>2. High(Plus16(PC, inst.bytes)) \in Byte /\ Low(Plus16(PC, inst.bytes)) \in Byte
    BY <2>1, HighType, LowType, Widths
  <2>3. operand \in Addr
    BY OperandType DEF operand
  <2>. QED
    BY <1>24, <2>2, <2>3, PushWordType, GoToType DEF jsr, timer, TypeOK
<1>25. CASE rts
  <2>1. Word(stack_pop(1), stack_pop(2)) \in Addr
    BY FetchType, WordType DEF stack_pop
  <2>2. Plus16(S, 2) \in Addr
    BY <1>r, Plus16Type, SMT
  <2>. QED
    BY <1>25, <2>1, <2>2, GoToType DEF rts, timer, TypeOK
<1>26. CASE branch
  BY <1>26, BranchType DEF branch
<1>27. CASE crash
  BY <1>27 DEF crash, registers, timer, TypeOK
<1>28. CASE UNCHANGED vars
  BY <1>28 DEF vars, TypeOK
<1>. QED
  BY <1>1, <1>2, <1>3, <1>4, <1>5, <1>6, <1>7, <1>8, <1>9, <1>10, <1>11, <1>12, <1>13, <1>14,
     <1>15, <1>16, <1>17, <1>18, <1>19, <1>20, <1>21, <1>22, <1>23, <1>24, <1>25, <1>26, <1>27,
     <1>28 DEF Next, inst_exec

(***************************************************************************)
(* Every variable keeps the width its C type has, whatever the cartridge.  *)
(***************************************************************************)
THEOREM TypeCorrect == Spec => []TypeOK
<1>. QED
  BY InitType, NextType, PTL DEF Spec

(* --------------------------- The interval timer ------------------------ *)

(* A store that changes the timer is one to a timer register, and leaves   *)
(* the byte in INTIM that the cycles were computed from.                   *)
LEMMA SetByteTimer ==
    ASSUME NEW a, NEW b, set_byte(a, b), timer' # timer
    PROVE  /\ a \in TimerRegs
           /\ timer_number' = TimerNumber(a) /\ Fetch(mem', a) = Fetch(mem', INTIM)
           /\ timer_cycles' = Fetch(mem', INTIM) * timer_number'
<1>1. a \in TimerRegs
  BY DEF set_byte, timer
<1>2. a # INTIM /\ a # PAST_END
  BY <1>1, SMT DEF TimerRegs, TIM1T, TIM8T, TIM64T, T1024T, INTIM, PAST_END, ADDR_MAX
<1>3. mem' = Put(Put(mem, INTIM, b), a, b)
  BY <1>1, <1>2 DEF set_byte, IsA, Stored
<1>4. Fetch(mem', INTIM) = b /\ Fetch(mem', a) = b
  BY <1>2, <1>3, PutReads
<1>. QED
  BY <1>1, <1>4 DEF set_byte

LEMMA NextTimer ==
    ASSUME Next, timer' # timer
    PROVE  /\ inst.exec \in Writers /\ addr \in TimerRegs
           /\ timer_number' = TimerNumber(addr) /\ Fetch(mem', addr) = Fetch(mem', INTIM)
           /\ timer_cycles' = Fetch(mem', INTIM) * timer_number'
<1>1. CASE asl \/ lsr \/ rol \/ ror \/ inc \/ dec
  <2>1. inst.exec \in Writers
    BY <1>1 DEF asl, lsr, rol, ror, inc, dec, Executes, Writers
  <2>2. \E b : Modify(b)
    BY <1>1 DEF asl, lsr, rol, ror, inc, dec
  <2>3. \E b : set_byte(addr, b)
    BY <2>2 DEF Modify, timer
  <2>. QED
    BY <2>1, <2>3, SetByteTimer
<1>2. CASE sta \/ stx \/ sty
  <2>1. inst.exec \in Writers
    BY <1>2 DEF sta, stx, sty, Executes, Writers
  <2>2. \E b : set_byte(addr, b)
    BY <1>2 DEF sta, stx, sty, Store
  <2>. QED
    BY <2>1, <2>2, SetByteTimer
<1>3. CASE lda \/ ldx \/ ldy \/ adc \/ sbc \/ and \/ ora \/ eor \/ cmp \/ cpx \/ cpy \/ bit
  BY <1>3 DEF lda, ldx, ldy, adc, sbc, and, ora, eor, Accumulate, cmp, cpx, cpy, Compare, bit, timer
<1>4. CASE inx \/ dex \/ iny \/ dey \/ tax \/ tay \/ txa \/ tya \/ tsx \/ txs
  BY <1>4 DEF inx, dex, iny, dey, tax, tay, txa, tya, tsx, SetX, SetY, SetA, txs, timer
<1>5. CASE clear \/ set \/ idle
  BY <1>5 DEF clear, set, idle, Flags, timer
<1>6. CASE pha \/ php \/ pla \/ plp
  BY <1>6 DEF pha, php, Push, pla, plp, timer
<1>7. CASE jmp \/ jmpin \/ jsr \/ rts \/ branch \/ crash
  BY <1>7 DEF jmp, jmpin, jsr, rts, branch, Branch, crash, timer
<1>. QED
  BY <1>1, <1>2, <1>3, <1>4, <1>5, <1>6, <1>7 DEF Next, inst_exec

(***************************************************************************)
(* The timer is set by stores and read-modify-write functions on its       *)
(* registers only, consistently with the cell the program reads.           *)
(***************************************************************************)
THEOREM TimerSetCorrectly == Spec => TimerSetByStrobe
<1>1. [Next]_vars =>
        [timer' # timer =>
            /\ inst.exec \in Writers /\ addr \in TimerRegs
            /\ timer_number' = TimerNumber(addr)
            /\ Fetch(mem', addr) = Fetch(mem', INTIM)
            /\ timer_cycles' = Fetch(mem', INTIM) * timer_number']_vars
  BY NextTimer DEF vars, timer
<1>. QED
  BY <1>1, PTL DEF Spec, TimerSetByStrobe

(* --------------------------------- Flags ------------------------------- *)

LEMMA FlagNumbers == STATUS_Z # STATUS_N /\ \A f \in {STATUS_C, STATUS_D, STATUS_I, STATUS_V} :
                                               f # STATUS_Z /\ f # STATUS_N
BY SMT DEF STATUS_C, STATUS_Z, STATUS_I, STATUS_D, STATUS_V, STATUS_N

(* NZ() brings a flag up only on the value it is given.                    *)
LEMMA NZRaises ==
    ASSUME NEW p, NEW v
    PROVE  /\ STATUS_Z \in NZ(p, v) => STATUS_Z \in p \/ v = 0
           /\ STATUS_N \in NZ(p, v) => STATUS_N \in p \/ TopBit(v)
BY FlagNumbers DEF NZ, TopBit

LEMMA WithOthers ==
    ASSUME NEW p, NEW on
    PROVE  \A f : f # STATUS_C => (f \in With(p, STATUS_C, on) <=> f \in p)
BY DEF With

(* What a read-modify-write function writes is its result.                 *)
LEMMA ModifyResult ==
    ASSUME NEW result, Modify(result), inst.exec \in {"asl", "lsr", "lsrzx", "rol", "ror", "inc", "dec"}
    PROVE  Result = result
<1>1. Result = IF inst.mode = "a" \/ IsA(addr) THEN A' ELSE Fetch(mem', addr)
  BY DEF Result
<1>2. CASE inst.mode = "a"
  BY <1>1, <1>2 DEF Modify
<1>3. CASE inst.mode # "a" /\ IsA(addr)
  BY <1>1, <1>3 DEF Modify, set_byte
<1>4. CASE inst.mode # "a" /\ ~IsA(addr)
  <2>1. mem' = Stored(mem, addr, result)
    BY <1>4 DEF Modify, set_byte
  <2>2. Fetch(mem', addr) = result
    BY <2>1, PutReads DEF Stored
  <2>. QED
    BY <1>1, <1>4, <2>2
<1>. QED
  BY <1>2, <1>3, <1>4

LEMMA NextFlags ==
    ASSUME Next, inst.exec \notin {"cmp", "cpx", "cpy", "bit", "plp"}
    PROVE  /\ STATUS_Z \in P' \ P => Result = 0
           /\ STATUS_N \in P' \ P => TopBit(Result)
<1>. DEFINE Caused == /\ STATUS_Z \in P' => STATUS_Z \in P \/ Result = 0
                      /\ STATUS_N \in P' => STATUS_N \in P \/ TopBit(Result)
<1>. SUFFICES Caused
  OBVIOUS
<1>1. CASE lda \/ ldx \/ ldy
  <2>1. P' = NZ(P, Result)
    BY <1>1 DEF lda, ldx, ldy, Executes, Result
  <2>. QED
    BY <2>1, NZRaises
<1>2. CASE adc \/ sbc \/ and \/ ora \/ eor
  <2>1. inst.exec \in {"adc", "sbc", "and", "ora", "eor"}
    BY <1>2 DEF adc, sbc, and, ora, eor, Executes
  <2>2. Result = A'
    BY <2>1 DEF Result
  <2>3. \E p : (p = P \/ p = P \cup {STATUS_C}) /\ P' = NZ(p, A')
    BY <1>2 DEF adc, sbc, and, ora, eor, Accumulate
  <2>. QED
    BY <2>2, <2>3, NZRaises, FlagNumbers
<1>3. CASE asl
  <2>1. Result = Asl(value)
    BY <1>3, ModifyResult DEF asl, Executes
  <2>. QED
    BY <1>3, <2>1, FlagNumbers, WithOthers, NZRaises DEF asl
<1>4. CASE rol
  <2>1. Result = RollLeft(value)
    BY <1>4, ModifyResult DEF rol, Executes
  <2>. QED
    BY <1>4, <2>1, FlagNumbers, WithOthers, NZRaises DEF rol
<1>5. CASE ror
  <2>1. Result = RollRight(value)
    BY <1>5, ModifyResult DEF ror, Executes
  <2>. QED
    BY <1>5, <2>1, FlagNumbers, WithOthers, NZRaises DEF ror
<1>6. CASE inc
  <2>1. Result = Plus8(value, 1)
    BY <1>6, ModifyResult DEF inc, Executes
  <2>. QED
    BY <1>6, <2>1, NZRaises DEF inc
<1>7. CASE dec
  <2>1. Result = (value - 1) % 256
    BY <1>7, ModifyResult DEF dec, Executes
  <2>. QED
    BY <1>7, <2>1, NZRaises DEF dec
<1>8. CASE lsr
  <2>1. Result = Lsr(value)
    BY <1>8, ModifyResult DEF lsr, Executes
  <2>2. value = 0 => Lsr(value) = 0
    BY SMT DEF Lsr
  <2>3. STATUS_N \notin P'
    BY <1>8, FlagNumbers DEF lsr
  <2>4. STATUS_Z \in P' => STATUS_Z \in P \/ value = 0 \/ Lsr(value) = 0
    BY <1>8, FlagNumbers, WithOthers DEF lsr
  <2>. QED
    BY <2>1, <2>2, <2>3, <2>4
<1>9. CASE inx \/ dex \/ tax \/ tsx
  <2>1. P' = NZ(P, X') /\ inst.exec \in {"inx", "dex", "tax", "tsx"}
    BY <1>9 DEF inx, dex, tax, tsx, SetX, Executes
  <2>2. Result = X'
    BY <2>1 DEF Result
  <2>. QED
    BY <2>1, <2>2, NZRaises
<1>10. CASE iny \/ dey \/ tay
  <2>1. P' = NZ(P, Y') /\ inst.exec \in {"iny", "dey", "tay"}
    BY <1>10 DEF iny, dey, tay, SetY, Executes
  <2>2. Result = Y'
    BY <2>1 DEF Result
  <2>. QED
    BY <2>1, <2>2, NZRaises
<1>11. CASE txa \/ tya
  <2>1. P' = NZ(P, A') /\ inst.exec \in {"txa", "tya"}
    BY <1>11 DEF txa, tya, SetA, Executes
  <2>2. Result = A'
    BY <2>1 DEF Result
  <2>. QED
    BY <2>1, <2>2, NZRaises
<1>12. CASE clear \/ set
  BY <1>12, FlagNumbers DEF clear, set, Flags
<1>13. CASE sta \/ stx \/ sty \/ txs \/ idle \/ pha \/ php \/ pla \/ jmp \/ jmpin \/ jsr \/ rts
            \/ branch \/ crash
  BY <1>13 DEF sta, stx, sty, Store, txs, idle, Flags, pha, php, Push, pla, jmp, jmpin, jsr, rts,
               branch, Branch, crash, registers
<1>14. CASE cmp \/ cpx \/ cpy \/ bit \/ plp
  BY <1>14 DEF cmp, cpx, cpy, bit, plp, Executes
<1>. QED
  BY <1>1, <1>2, <1>3, <1>4, <1>5, <1>6, <1>7, <1>8, <1>9, <1>10, <1>11, <1>12, <1>13, <1>14
     DEF Next, inst_exec

(***************************************************************************)
(* Z and N come up only with a zero or a negative result, whatever the     *)
(* instruction table pairs with a function, and wherever the result goes.  *)
(***************************************************************************)
THEOREM FlagsComeFromResults == Spec => FlagsHaveCause
<1>1. [Next]_vars =>
        [inst.exec \notin {"cmp", "cpx", "cpy", "bit", "plp"} =>
            /\ STATUS_Z \in P' \ P => Result = 0
            /\ STATUS_N \in P' \ P => TopBit(Result)]_vars
  BY NextFlags
<1>. QED
  BY <1>1, PTL DEF Spec, FlagsHaveCause

(* ------------------------- The program counter ------------------------- *)

(* An instruction that is not a transfer moves PC past itself. *)
LEMMA MovesOn ==
    ASSUME Next, inst.exec \notin Transfers
    PROVE  PC' = PC \/ PC' = Plus16(PC, inst.bytes)
<1>. DEFINE Past == \E extra : Retire(extra)
<1>1. CASE lda \/ ldx \/ ldy \/ adc \/ sbc \/ and \/ ora \/ eor \/ cmp \/ cpx \/ cpy \/ bit
  <2>1. Past
    BY <1>1 DEF lda, ldx, ldy, adc, sbc, and, ora, eor, Accumulate, cmp, cpx, cpy, Compare, bit
  <2>. QED
    BY <2>1 DEF Retire, RetireAt
<1>2. CASE asl \/ lsr \/ rol \/ ror \/ inc \/ dec \/ sta \/ stx \/ sty
  <2>1. Past
    BY <1>2 DEF asl, lsr, rol, ror, inc, dec, Modify, sta, stx, sty, Store
  <2>. QED
    BY <2>1 DEF Retire, RetireAt
<1>3. CASE inx \/ dex \/ iny \/ dey \/ tax \/ tay \/ txa \/ tya \/ tsx \/ txs
  <2>1. Past
    BY <1>3 DEF inx, dex, iny, dey, tax, tay, txa, tya, tsx, SetX, SetY, SetA, txs
  <2>. QED
    BY <2>1 DEF Retire, RetireAt
<1>4. CASE clear \/ set \/ idle \/ pha \/ php \/ pla \/ plp
  <2>1. Past
    BY <1>4 DEF clear, set, idle, Flags, pha, php, Push, pla, plp
  <2>. QED
    BY <2>1 DEF Retire, RetireAt
<1>5. CASE jmp \/ jmpin \/ jsr \/ rts \/ branch
  BY <1>5 DEF jmp, jmpin, jsr, rts, branch, Executes, Transfers
<1>6. CASE crash
  BY <1>6 DEF crash
<1>. QED
  BY <1>1, <1>2, <1>3, <1>4, <1>5, <1>6 DEF Next, inst_exec

LEMMA NextInLoop == ASSUME Next PROVE PC < CARMEM_END - 1
BY DEF Next, inst_exec, lda, ldx, ldy, adc, sbc, and, ora, eor, cmp, cpx, cpy, bit,
       asl, lsr, rol, ror, inc, dec, sta, stx, sty, inx, dex, iny, dey, tax, tay, txa, tya,
       tsx, txs, clear, set, idle, pha, php, pla, plp, jmp, jmpin, jsr, rts, branch, crash, Executes

(* A short move over the end of the 16 bit program counter. *)
LEMMA ShortWrap ==
    ASSUME NEW a, NEW n, NEW b, a \in Int, n \in Int, 0 <= a, a < CARMEM_END - 1, 0 <= n, n <= 3,
           b = Plus16(a, n), b < a
    PROVE  a = CARMEM_END - 2 /\ n = 3 /\ b = 0
<1>1. b = (a + n) % 65536 /\ a < 65534
  BY SMT DEF Plus16, CARMEM_END
<1>2. a + n >= 65536
  BY <1>1, SMT
<1>3. a = 65533 /\ n = 3
  BY <1>1, <1>2, SMT
<1>4. (65536 % 65536) = 0
  BY SMT
<1>5. b = 0
  BY <1>1, <1>3, <1>4, SMT
<1>. QED
  BY <1>3, <1>5, SMT DEF CARMEM_END

(***************************************************************************)
(* PC runs over the end of the address space in one place only.            *)
(***************************************************************************)
THEOREM ProgramsRunOut == Spec => OnlyTheVectorWraps
<1>1. ASSUME TypeOK, Next, PC' < PC, inst.exec \notin Transfers
      PROVE  PC = CARMEM_END - 2 /\ inst.bytes = 3 /\ PC' = 0
  <2>1. PC \in Int /\ 0 <= PC
    BY <1>1, InAddr DEF TypeOK
  <2>2. inst.bytes \in Int /\ 0 <= inst.bytes /\ inst.bytes <= 3
    BY <1>1, InstType, SMT
  <2>3. PC < CARMEM_END - 1
    BY <1>1, NextInLoop
  <2>4. PC' # PC
    BY <1>1, <2>1, SMT
  <2>5. PC' = Plus16(PC, inst.bytes)
    BY <1>1, <2>4, MovesOn
  <2>. QED
    BY <1>1, <2>1, <2>2, <2>3, <2>5, ShortWrap
<1>2. TypeOK /\ [Next]_vars =>
        [PC' < PC /\ inst.exec \notin Transfers
            => PC = CARMEM_END - 2 /\ inst.bytes = 3 /\ PC' = 0]_vars
  BY <1>1
<1>. QED
  BY <1>2, TypeCorrect, PTL DEF Spec, OnlyTheVectorWraps

=============================================================================
