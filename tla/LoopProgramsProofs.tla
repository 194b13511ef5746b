------------------------- MODULE LoopProgramsProofs -------------------------
(***************************************************************************)
(* Proofs about what programs may rely on in the whole loop.  TimerWait: a *)
(* program that waits for the timer does not go on before it has expired,  *)
(* for every number of intervals but 255, every timer register, and        *)
(* whatever the user does with the joystick.  LoopCalls: subroutines       *)
(* return to their callers across the turns of the input and the timer.    *)
(***************************************************************************)
EXTENDS TimerWait, LoopCalls, MainLoopProofs, CpuCallsProofs

(* ------------------- A program that waits for the timer ---------------- *)

Registers == {Low(a) : a \in TimerRegs}

(* The inductive invariant: the listing is still in memory, the program is *)
(* at one of its instructions, and Z is set in the loop only when the      *)
(* timer has expired.                                                      *)
Text(m, n, reg) ==
    /\ Fetch(m, \hF000) = \hA9 /\ Fetch(m, \hF001) = n
    /\ Fetch(m, \hF002) = \h8D /\ Fetch(m, \hF003) = reg /\ Fetch(m, \hF004) = \h02
    /\ Fetch(m, \hF005) = \hC9 /\ Fetch(m, \hF006) = \hFF
    /\ Fetch(m, \hF007) = \hAD /\ Fetch(m, \hF008) = \h84 /\ Fetch(m, \hF009) = \h02
    /\ Fetch(m, \hF00A) = \hD0 /\ Fetch(m, \hF00B) = \hFB
    /\ Fetch(m, \hF00C) = \h4C /\ Fetch(m, \hF00D) = \h00 /\ Fetch(m, \hF00E) = \hF0

Control(n) ==
    /\ PC \in {\hF000, \hF002, \hF005, \hF007, \hF00A, \hF00C}
    /\ PC \in {\hF002, \hF005} => A = n
    /\ PC \in {\hF007, \hF00A} /\ STATUS_Z \in P => Fetch(mem, INTIM) = 0

WaitInv == \E n \in 0..254, reg \in Registers : Text(mem, n, reg) /\ Control(n)

(* --------------------------- Loading the program ----------------------- *)

LEMMA LoadedCell ==
    ASSUME NEW file, NEW i \in Int, 0 <= i, i < 4095
    PROVE  Fetch(LoadCartridge(file), \hF000 + i) = IF i < Len(file) THEN file[i + 1] ELSE 0
<1>. DEFINE a == \hF000 + i
<1>1. CARMEM_START = \hF000 /\ CARMEM_END = \hFFFF
  BY SMT DEF CARMEM_START, CARMEM_END
<1>2. a \in CARMEM_START..(CARMEM_END - 1)
  BY <1>1, SMT
<1>3. a - CARMEM_START = i
  BY <1>1, SMT
<1>. HIDE DEF a
<1>4. Fetch(LoadCartridge(file), a) = IF i < Len(file) THEN file[i + 1] ELSE 0
  BY <1>2, <1>3 DEF LoadCartridge, Fetch
<1>. QED
  BY <1>4 DEF a

LEMMA LoadedText ==
    ASSUME NEW n \in 0..254, NEW reg \in Registers
    PROVE  /\ Text(LoadCartridge(Waiting(n, reg)), n, reg)
           /\ EntryPoint(LoadCartridge(Waiting(n, reg))) = \hF000
<1>. DEFINE file == Waiting(n, reg)
<1>1. /\ Len(file) = 15
      /\ file[1] = \hA9 /\ file[2] = n /\ file[3] = \h8D /\ file[4] = reg /\ file[5] = \h02
      /\ file[6] = \hC9 /\ file[7] = \hFF /\ file[8] = \hAD /\ file[9] = \h84 /\ file[10] = \h02
      /\ file[11] = \hD0 /\ file[12] = \hFB /\ file[13] = \h4C /\ file[14] = \h00 /\ file[15] = \hF0
  BY SMT DEF Waiting
<1>. HIDE DEF file
<1>2. \A i \in Int : 0 <= i /\ i <= 14 => Fetch(LoadCartridge(file), \hF000 + i) = file[i + 1]
  <2>. SUFFICES ASSUME NEW i \in Int, 0 <= i, i <= 14
                PROVE  Fetch(LoadCartridge(file), \hF000 + i) = file[i + 1]
    OBVIOUS
  <2>1. i < 4095 /\ i < Len(file)
    BY <1>1, SMT
  <2>. QED
    BY <2>1, LoadedCell
<1>3. Text(LoadCartridge(file), n, reg)
  BY <1>1, <1>2, SMT DEF Text
<1>4. EntryPoint(LoadCartridge(file)) = \hF000
  <2>1. Fetch(LoadCartridge(file), CARMEM_END - 3) = 0 /\ Fetch(LoadCartridge(file), CARMEM_END - 2) = 0
    <3>1. CARMEM_END - 3 = \hF000 + 4092 /\ CARMEM_END - 2 = \hF000 + 4093
      BY SMT DEF CARMEM_END
    <3>2. \A i \in {4092, 4093} : i \in Int /\ 0 <= i /\ i < 4095 /\ ~(i < Len(file))
      BY <1>1, SMT
    <3>. QED
      BY <3>1, <3>2, LoadedCell
  <2>2. Word(0, 0) < CARMEM_START /\ CARMEM_START = \hF000
    BY SMT DEF Word, CARMEM_START
  <2>. QED
    BY <2>1, <2>2 DEF EntryPoint
<1>. QED
  BY <1>3, <1>4 DEF file

LEMMA WaitInvInit == LoopInit /\ RunsWait => WaitInv
<1>. SUFFICES ASSUME LoopInit, RunsWait PROVE WaitInv
  OBVIOUS
<1>1. PICK n \in 0..254, reg \in Registers : mem = LoadCartridge(Waiting(n, reg))
  BY DEF RunsWait, Registers
<1>2. Text(mem, n, reg) /\ PC = \hF000
  BY <1>1, LoadedText DEF LoopInit, Init
<1>3. Control(n)
  BY <1>2, SMT DEF Control
<1>. QED
  BY <1>2, <1>3 DEF WaitInv

(* ------------------------- Executing the program ----------------------- *)

(* A step executes the function of the entry at PC. *)
LEMMA ExecutesEntry ==
    ASSUME Next
    PROVE  /\ inst.exec = "lda" => lda
           /\ inst.exec = "sta" => sta
           /\ inst.exec = "cmp" => cmp
           /\ inst.exec = "bne" => branch
           /\ inst.exec = "jmp" => jmp
BY SMT DEF Next, inst_exec, Executes, lda, ldx, ldy, adc, sbc, and, ora, eor, cmp, cpx, cpy, bit,
       asl, lsr, rol, ror, inc, dec, sta, stx, sty, inx, dex, iny, dey, tax, tay, txa, tya, tsx, txs,
       clear, set, idle, pha, php, pla, plp, jmp, jmpin, jsr, rts, branch, crash

LEMMA Decoded ==
    ASSUME NEW a \in Int, NEW op, PC = a, 0 <= a, a < PAST_END - 2, Fetch(mem, a) = op,
           NEW b \in {2, 3}, inst_tbl[op].bytes = b
    PROVE  /\ inst = inst_tbl[op]
           /\ operand = IF b = 2 THEN Fetch(mem, a + 1) ELSE Word(Fetch(mem, a + 1), Fetch(mem, a + 2))
<1>1. PAST_END = 65535
  BY SMT DEF PAST_END, ADDR_MAX
<1>2. Plus16(PC, 1) = a + 1 /\ Plus16(PC, 2) = a + 2
  BY <1>1, SMT DEF Plus16
<1>3. a # PAST_END /\ a + 1 # PAST_END /\ a + 2 # PAST_END
  BY <1>1, SMT
<1>4. fetch_byte(a) = Fetch(mem, a) /\ fetch_byte(a + 1) = Fetch(mem, a + 1) /\ fetch_byte(a + 2) = Fetch(mem, a + 2)
  BY <1>3 DEF fetch_byte, IsA
<1>5. opcode = op
  BY <1>4 DEF opcode
<1>6. b = 2 \/ b = 3
  OBVIOUS
<1>7. b = 2 => operand = Fetch(mem, a + 1)
  BY <1>2, <1>4, <1>5, SMT DEF operand, fetch_operand
<1>8. b = 3 => operand = Word(Fetch(mem, a + 1), Fetch(mem, a + 2))
  BY <1>2, <1>4, <1>5, SMT DEF operand, fetch_operand, fetch_word
<1>. QED
  BY <1>5, <1>6, <1>7, <1>8, SMT DEF inst

LEMMA Listed ==
    ASSUME NEW n \in 0..254, NEW reg \in Registers, Text(mem, n, reg)
    PROVE  /\ PC = \hF000 => inst = inst_tbl[\hA9] /\ operand = n
           /\ PC = \hF002 => inst = inst_tbl[\h8D] /\ operand = Word(reg, 2)
           /\ PC = \hF005 => inst = inst_tbl[\hC9] /\ operand = 255
           /\ PC = \hF007 => inst = inst_tbl[\hAD] /\ operand = Word(\h84, 2)
           /\ PC = \hF00A => inst = inst_tbl[\hD0] /\ operand = 251
           /\ PC = \hF00C => inst = inst_tbl[\h4C] /\ operand = Word(0, \hF0)
<1>1. PAST_END = 65535
  BY SMT DEF PAST_END, ADDR_MAX
<1>2. /\ inst_tbl[\hA9].bytes = 2 /\ inst_tbl[\h8D].bytes = 3 /\ inst_tbl[\hC9].bytes = 2
      /\ inst_tbl[\hAD].bytes = 3 /\ inst_tbl[\hD0].bytes = 2 /\ inst_tbl[\h4C].bytes = 3
  BY WaitTableAssumption DEF TableHas
<1>3. CASE PC = \hF000
  <2>1. inst = inst_tbl[\hA9] /\ operand = Fetch(mem, \hF000 + 1)
    BY <1>1, <1>2, <1>3, Decoded, SMT DEF Text
  <2>. QED
    BY <1>3, <2>1, SMT DEF Text
<1>4. CASE PC = \hF002
  <2>1. inst = inst_tbl[\h8D] /\ operand = Word(Fetch(mem, \hF002 + 1), Fetch(mem, \hF002 + 2))
    BY <1>1, <1>2, <1>4, Decoded, SMT DEF Text
  <2>. QED
    BY <1>4, <2>1, SMT DEF Text
<1>5. CASE PC = \hF005
  <2>1. inst = inst_tbl[\hC9] /\ operand = Fetch(mem, \hF005 + 1)
    BY <1>1, <1>2, <1>5, Decoded, SMT DEF Text
  <2>. QED
    BY <1>5, <2>1, SMT DEF Text
<1>6. CASE PC = \hF007
  <2>1. inst = inst_tbl[\hAD] /\ operand = Word(Fetch(mem, \hF007 + 1), Fetch(mem, \hF007 + 2))
    BY <1>1, <1>2, <1>6, Decoded, SMT DEF Text
  <2>. QED
    BY <1>6, <2>1, SMT DEF Text
<1>7. CASE PC = \hF00A
  <2>1. inst = inst_tbl[\hD0] /\ operand = Fetch(mem, \hF00A + 1)
    BY <1>1, <1>2, <1>7, Decoded, SMT DEF Text
  <2>. QED
    BY <1>7, <2>1, SMT DEF Text
<1>8. CASE PC = \hF00C
  <2>1. inst = inst_tbl[\h4C] /\ operand = Word(Fetch(mem, \hF00C + 1), Fetch(mem, \hF00C + 2))
    BY <1>1, <1>2, <1>8, Decoded, SMT DEF Text
  <2>. QED
    BY <1>8, <2>1, SMT DEF Text
<1>. QED
  BY <1>3, <1>4, <1>5, <1>6, <1>7, <1>8

(* What a step of the program leaves as it is: all memory but the input    *)
(* and the timer, in the turn of the PIA.                                  *)
LEMMA PiaWrites ==
    ASSUME run_pia, NEW x, x # INTIM, x # SWCHA
    PROVE  Fetch(mem', x) = Fetch(mem, x)
<1>1. \A m : cnt_timer(m) => Fetch(mem', x) = Fetch(m, x)
  BY PutReads DEF cnt_timer
<1>2. \A code : Fetch(pia_process_input(mem, code), x) = Fetch(mem, x)
  BY PutReads DEF pia_process_input
<1>. QED
  BY <1>1, <1>2 DEF run_pia

(* The listing lies apart from the cells that the program and the PIA      *)
(* write.                                                                  *)
LEMMA TextKept ==
    ASSUME NEW m, NEW k, NEW n, NEW reg, Text(m, n, reg),
           \A a \in Int : a >= \hF000 => Fetch(k, a) = Fetch(m, a)
    PROVE  Text(k, n, reg)
BY SMT DEF Text

(* The address of a timer register from its low byte. *)
LEMMA RegisterAddress ==
    ASSUME NEW reg \in Registers
    PROVE  Word(reg, 2) \in TimerRegs
<1>1. \A a \in TimerRegs : Word(Low(a), 2) = a
  BY SMT DEF TimerRegs, TIM1T, TIM8T, TIM64T, T1024T, Low, Word
<1>. QED
  BY <1>1 DEF Registers

(* Its instructions take time. *)
LEMMA TakesCycles ==
    ASSUME TypeOK, Next, NEW n \in 0..254, NEW reg \in Registers, Text(mem, n, reg), Control(n)
    PROVE  cycles' \in Int /\ cycles' > 0
<1>1. \E op \in {\hA9, \h8D, \hC9, \hAD, \hD0, \h4C} : inst = inst_tbl[op]
  BY Listed, SMT DEF Control
<1>2. inst.cycles > 0 /\ inst.exec \in {"lda", "sta", "cmp", "bne", "jmp"}
  BY <1>1, WaitTableAssumption DEF TableHas
<1>3. inst.cycles \in Int
  BY InstType, SMT
<1>4. \E extra \in 0..2 : cycles' = inst.cycles + extra
  <2>1. 0 \in 0..2 /\ 1 \in 0..2 /\ 2 \in 0..2
    BY SMT
  <2>2. CASE lda \/ sta \/ cmp
    BY <2>1, <2>2, ExtraType DEF lda, sta, Store, cmp, Compare, Retire, RetireAt
  <2>3. CASE branch
    BY <2>1, <2>3 DEF branch, Branch, Retire, RetireAt
  <2>4. CASE jmp
    BY <2>1, <2>4 DEF jmp, GoTo, RetireAt
  <2>. QED
    BY <1>2, <2>2, <2>3, <2>4, ExecutesEntry
<1>. QED
  BY <1>2, <1>3, <1>4, SMT

(* One instruction of the program. *)
LEMMA RunWait ==
    ASSUME TypeOK, run_cpu, NEW n \in 0..254, NEW reg \in Registers, Text(mem, n, reg), Control(n)
    PROVE  /\ Text(mem', n, reg) /\ Control(n)'
           /\ PC = \hF000 => PC' = \hF002
           /\ PC = \hF00C => PC' = \hF000
           /\ IF PC = \hF002 THEN Strobes /\ addr = Word(reg, 2) /\ Fetch(mem', INTIM) = n
                            ELSE ~Strobes /\ mem' = mem
           /\ PC = \hF00A /\ PC' = \hF00C => Fetch(mem, INTIM) = 0
           /\ PC = \hF002 => PC' = \hF005
           /\ PC = \hF005 => PC' = \hF007
           /\ PC = \hF007 => PC' = \hF00A /\ (Fetch(mem, INTIM) = 0 => STATUS_Z \in P')
           /\ PC = \hF00A => P' = P /\ PC' = IF STATUS_Z \notin P THEN \hF007 ELSE \hF00C
<1>1. Next
  BY DEF run_cpu, Next
<1>2. n \in Int /\ 0 <= n /\ n <= 254
  BY InRange, SMT
<1>3. CASE PC = \hF000
  <2>1. inst.exec = "lda" /\ inst.mode = "i" /\ inst.bytes = 2 /\ operand = n
    BY <1>3, Listed, WaitTableAssumption DEF TableHas
  <2>2. value = n
    BY <1>2, <2>1, SMT DEF value, Low
  <2>3. A' = n /\ mem' = mem /\ PC' = \hF002
    BY <1>1, <1>3, <2>1, <2>2, ExecutesEntry, SMT DEF lda, Retire, RetireAt, Plus16
  <2>4. ~Strobes
    BY <2>1 DEF Strobes, Writers
  <2>. QED
    BY <1>3, <2>3, <2>4, SMT DEF Control
<1>4. CASE PC = \hF002
  <2>1. inst.exec = "sta" /\ inst.mode = "m" /\ inst.bytes = 3 /\ operand = Word(reg, 2)
    BY <1>4, Listed, WaitTableAssumption DEF TableHas
  <2>2. addr \in TimerRegs
    BY <2>1, RegisterAddress, SMT DEF addr, base
  <2>3. addr \in Int /\ addr < \hF000 /\ INTIM < \hF000 /\ INTIM \in Int /\ ~IsA(addr)
    BY <2>2, SMT DEF TimerRegs, TIM1T, TIM8T, TIM64T, T1024T, INTIM, IsA, PAST_END, ADDR_MAX
  <2>4. set_byte(addr, A) /\ PC' = \hF005
    BY <1>1, <1>4, <2>1, ExecutesEntry, SMT DEF sta, Store, Retire, RetireAt, Plus16
  <2>5. A' = A /\ mem' = Put(Put(mem, INTIM, A), addr, A)
    BY <2>2, <2>3, <2>4 DEF set_byte, Stored
  <2>6. \A a \in Int : a >= \hF000 => Fetch(mem', a) = Fetch(mem, a)
    <3>. SUFFICES ASSUME NEW a \in Int, a >= \hF000 PROVE Fetch(mem', a) = Fetch(mem, a)
      OBVIOUS
    <3>1. a # addr /\ a # INTIM
      BY <2>3, SMT
    <3>. QED
      BY <2>5, <3>1, PutReads
  <2>7. Text(mem', n, reg)
    BY <2>6, TextKept
  <2>8. Strobes /\ addr = Word(reg, 2)
    BY <2>1, <2>2, SMT DEF Strobes, Writers, addr, base
  <2>9. Fetch(mem', INTIM) = n
    <3>1. A = n /\ INTIM # addr
      BY <1>4, <2>2, SMT DEF Control, TimerRegs, TIM1T, TIM8T, TIM64T, T1024T, INTIM
    <3>. QED
      BY <2>5, <3>1, PutReads
  <2>. QED
    BY <1>4, <2>4, <2>5, <2>7, <2>8, <2>9, SMT DEF Control
<1>5. CASE PC = \hF005
  <2>1. inst.exec = "cmp" /\ inst.mode = "i" /\ inst.bytes = 2 /\ operand = 255 /\ A = n
    BY <1>5, Listed, WaitTableAssumption DEF TableHas, Control
  <2>2. value = 255 /\ A # value
    BY <1>2, <2>1, SMT DEF value, Low
  <2>3. mem' = mem /\ PC' = \hF007 /\ P' = compare(A, value)
    BY <1>1, <1>5, <2>1, ExecutesEntry, SMT DEF cmp, Compare, Retire, RetireAt, Plus16
  <2>4. STATUS_Z \notin P'
    BY <2>2, <2>3, SMT DEF compare, With, STATUS_Z, STATUS_N, STATUS_C
  <2>5. ~Strobes
    BY <2>1 DEF Strobes, Writers
  <2>. QED
    BY <1>5, <2>3, <2>4, <2>5, SMT DEF Control
<1>6. CASE PC = \hF007
  <2>1. inst.exec = "lda" /\ inst.mode = "m" /\ inst.bytes = 3 /\ operand = INTIM
    BY <1>6, Listed, WaitTableAssumption, SMT DEF TableHas, Word, INTIM
  <2>2. value = Fetch(mem, INTIM)
    BY <2>1, SMT DEF value, addr, base, fetch_byte, IsA, INTIM, PAST_END, ADDR_MAX
  <2>3. mem' = mem /\ PC' = \hF00A /\ P' = NZ(P, value)
    BY <1>1, <1>6, <2>1, ExecutesEntry, SMT DEF lda, Retire, RetireAt, Plus16
  <2>4. /\ STATUS_Z \in P' => STATUS_Z \in P \/ value = 0
        /\ value = 0 => STATUS_Z \in P'
    BY <2>3, SMT DEF NZ, STATUS_Z, STATUS_N
  <2>5. ~Strobes
    BY <2>1 DEF Strobes, Writers
  <2>. QED
    BY <1>6, <2>2, <2>3, <2>4, <2>5, SMT DEF Control
<1>7. CASE PC = \hF00A
  <2>1. inst.exec = "bne" /\ inst.bytes = 2 /\ operand = 251
    BY <1>7, Listed, WaitTableAssumption DEF TableHas
  <2>2. taken <=> STATUS_Z \notin P
    BY <2>1, SMT DEF taken
  <2>3. new_pc = \hF005
    BY <1>7, <2>1, SMT DEF new_pc
  <2>4. mem' = mem /\ P' = P /\ PC' = IF STATUS_Z \notin P THEN \hF007 ELSE \hF00C
    <3>1. Branch(taken)
      BY <1>1, <2>1, ExecutesEntry DEF branch
    <3>2. Plus16(new_pc, inst.bytes) = \hF007 /\ Plus16(PC, inst.bytes) = \hF00C
      BY <1>7, <2>1, <2>3, SMT DEF Plus16
    <3>. QED
      BY <2>2, <3>1, <3>2 DEF Branch, Retire, RetireAt, registers
  <2>5. ~Strobes
    BY <2>1 DEF Strobes, Writers
  <2>. QED
    BY <1>7, <2>4, <2>5, SMT DEF Control
<1>8. CASE PC = \hF00C
  <2>1. inst.exec = "jmp" /\ inst.bytes = 3 /\ operand = \hF000
    BY <1>8, Listed, WaitTableAssumption, SMT DEF TableHas, Word
  <2>2. mem' = mem /\ PC' = \hF000
    BY <1>1, <2>1, ExecutesEntry, SMT DEF jmp, GoTo, RetireAt, Plus16
  <2>3. ~Strobes
    BY <2>1 DEF Strobes, Writers
  <2>. QED
    BY <1>8, <2>2, <2>3, SMT DEF Control
<1>. QED
  BY <1>3, <1>4, <1>5, <1>6, <1>7, <1>8 DEF Control

(* The PIA may set Z between any two instructions, but only as it counts   *)
(* INTIM down to 0, where it stays.                                        *)
LEMMA PiaKeepsWait ==
    ASSUME TypeOK, run_pia, NEW n, NEW reg, Text(mem, n, reg), Control(n)
    PROVE  Text(mem', n, reg) /\ Control(n)'
<1>1. Text(mem', n, reg)
  <2>1. \A a \in Int : a >= \hF000 => a # INTIM /\ a # SWCHA
    BY SMT DEF INTIM, SWCHA
  <2>2. \A a \in Int : a >= \hF000 => Fetch(mem', a) = Fetch(mem, a)
    BY <2>1, PiaWrites
  <2>. QED
    BY <2>2, TextKept
<1>2. A' = A /\ PC' = PC
  BY DEF run_pia
<1>3. PICK m : Fetch(m, INTIM) = Interval /\ cnt_timer(m)
  BY PiaCounts
<1>4. ASSUME STATUS_Z \in P => Interval = 0, STATUS_Z \in P' PROVE Fetch(mem', INTIM) = 0
  <2>1. CASE Decrements /\ Interval = 1
    BY <1>3, <2>1, PutReads DEF cnt_timer
  <2>2. CASE ~(Decrements /\ Interval = 1)
    <3>1. Interval = 0
      BY <1>3, <1>4, <2>2 DEF cnt_timer
    <3>2. ~Decrements
      BY <3>1, SMT DEF Decrements, Counts
    <3>. QED
      BY <1>3, <3>1, <3>2 DEF cnt_timer
  <2>. QED
    BY <2>1, <2>2
<1>. QED
  BY <1>1, <1>2, <1>4 DEF Control, Interval

LEMMA WaitInvNext ==
    ASSUME TypeOK, WaitInv, [LoopNext]_loopVars
    PROVE  WaitInv' /\ (PC = WaitEnd - 2 /\ PC' = WaitEnd => Fetch(mem, INTIM) = 0)
<1>1. PICK n \in 0..254, reg \in Registers : Text(mem, n, reg) /\ Control(n)
  BY DEF WaitInv
<1>2. WaitEnd = \hF00C /\ WaitEnd - 2 = \hF00A /\ WaitEnd # WaitEnd - 2
  BY SMT DEF WaitEnd
<1>3. CASE run_cpu
  BY <1>1, <1>2, <1>3, RunWait DEF WaitInv
<1>4. CASE run_pia
  <2>1. Text(mem', n, reg) /\ Control(n)'
    BY <1>1, <1>4, PiaKeepsWait
  <2>2. PC' = PC
    BY <1>4 DEF run_pia
  <2>. QED
    BY <1>2, <2>1, <2>2 DEF WaitInv
<1>5. CASE scan_clock \/ run_tia \/ quit \/ UNCHANGED loopVars
  <2>1. mem' = mem /\ P' = P /\ A' = A /\ PC' = PC
    BY <1>5 DEF scan_clock, run_tia, quit, loopVars, vars, registers
  <2>2. Text(mem', n, reg) /\ Control(n)'
    BY <1>1, <2>1 DEF Control
  <2>. QED
    BY <1>2, <2>1, <2>2 DEF WaitInv
<1>. QED
  BY <1>3, <1>4, <1>5 DEF LoopNext

(***************************************************************************)
(* A program that waits for the timer goes on only when INTIM shows 0      *)
(* (pia.c, lines 21-36), for every number of intervals from 0 to 254,      *)
(* every interval, every screen and every input.                           *)
(***************************************************************************)
THEOREM WaitsAreHonest == LoopSpec /\ RunsWait => WaitIsHonest
<1>1. LoopInit /\ RunsWait => WaitInv
  BY WaitInvInit
<1>2. TypeOK /\ WaitInv /\ [LoopNext]_loopVars => WaitInv'
  BY WaitInvNext
<1>3. TypeOK /\ WaitInv /\ [LoopNext]_loopVars
          => [PC = WaitEnd - 2 /\ PC' = WaitEnd => Fetch(mem, INTIM) = 0]_loopVars
  BY WaitInvNext
<1>. QED
  BY <1>1, <1>2, <1>3, ProcessorType, PTL DEF LoopSpec, WaitIsHonest

(* In the loop, what the timer remembers is the load of the program, and   *)
(* no instruction of the program takes an interval off without a cycle.    *)
Pace ==
    /\ phase \in {"tia", "pia"} => cycles \in Int /\ cycles > 0
    /\ PC \in {\hF005, \hF007, \hF00A, \hF00C} =>
          /\ intact /\ vacant = 0 /\ loaded = Intervals
          /\ timer_number = TimerNumber(Word(Fetch(mem, WaitRegister), 2))

LEMMA PaceInit == LoopInit /\ RunsWait => Pace
<1>. SUFFICES ASSUME LoopInit, RunsWait PROVE Pace
  OBVIOUS
<1>1. PICK n \in 0..254, reg \in Registers : mem = LoadCartridge(Waiting(n, reg))
  BY DEF RunsWait, Registers
<1>2. PC = \hF000 /\ phase = "cpu"
  BY <1>1, LoadedText DEF LoopInit, Init
<1>. QED
  BY <1>2, SMT DEF Pace

LEMMA PaceNext == TypeOK /\ WaitInv /\ Pace /\ [LoopNext]_loopVars => Pace'
<1>. SUFFICES ASSUME TypeOK, WaitInv, Pace, [LoopNext]_loopVars PROVE Pace'
  OBVIOUS
<1>1. PICK n \in 0..254, reg \in Registers : Text(mem, n, reg) /\ Control(n)
  BY DEF WaitInv
<1>2. Intervals = n /\ Fetch(mem, WaitRegister) = reg
  BY <1>1 DEF Text, Intervals, WaitCount, WaitRegister
<1>3. \A k : Text(k, n, reg) => Fetch(k, WaitCount) = n /\ Fetch(k, WaitRegister) = reg
  BY DEF Text, WaitCount, WaitRegister
<1>4. CASE run_cpu
  <2>1. Next
    BY <1>4 DEF run_cpu, Next
  <2>2. cycles' \in Int /\ cycles' > 0
    BY <1>1, <2>1, TakesCycles
  <2>3. /\ Text(mem', n, reg) /\ Control(n)'
        /\ PC = \hF000 => PC' = \hF002
        /\ PC = \hF00C => PC' = \hF000
        /\ IF PC = \hF002 THEN Strobes /\ addr = Word(reg, 2) /\ Fetch(mem', INTIM) = n
                         ELSE ~Strobes /\ mem' = mem
    BY <1>1, <1>4, RunWait
  <2>4. Intervals' = n /\ Fetch(mem', WaitRegister) = reg
    BY <1>3, <2>3 DEF Intervals
  <2>5. CASE PC = \hF002
    <3>1. loaded' = n /\ vacant' = 0 /\ intact'
      BY <1>4, <2>3, <2>5 DEF run_cpu, Remember
    <3>2. timer_number' = TimerNumber(Word(reg, 2))
      BY <2>1, <2>3, <2>5, StrobeSets
    <3>. QED
      BY <2>2, <2>4, <3>1, <3>2 DEF Pace
  <2>6. CASE PC # \hF002
    <3>1. UNCHANGED history /\ UNCHANGED timer
      BY <1>4, <2>1, <2>3, <2>6, OthersLeaveTimer DEF run_cpu, Remember
    <3>2. PC' \in {\hF005, \hF007, \hF00A, \hF00C} => PC \in {\hF005, \hF007, \hF00A, \hF00C}
      BY <1>1, <2>3, <2>6, SMT DEF Control
    <3>. QED
      BY <1>2, <2>2, <2>4, <3>1, <3>2 DEF Pace, history, timer
  <2>. QED
    BY <2>5, <2>6
<1>5. CASE run_pia
  <2>1. Text(mem', n, reg)
    BY <1>1, <1>5, PiaKeepsWait
  <2>2. Intervals' = n /\ Fetch(mem', WaitRegister) = reg
    BY <1>3, <2>1 DEF Intervals
  <2>3. cycles \in Int /\ cycles > 0 /\ cycles' = cycles /\ phase' = "cpu" /\ PC' = PC
    BY <1>5 DEF run_pia, Pace
  <2>4. PICK m : cnt_timer(m)
    BY <1>5, PiaCounts
  <2>5. cycles # 0
    BY <2>3, SMT
  <2>6. UNCHANGED <<timer_number, loaded, vacant, intact>>
    BY <2>4, <2>5 DEF cnt_timer
  <2>. QED
    BY <1>2, <2>2, <2>3, <2>6 DEF Pace
<1>6. CASE scan_clock \/ run_tia \/ quit \/ UNCHANGED loopVars
  <2>1. /\ UNCHANGED vars /\ UNCHANGED history
        /\ phase' \in {"tia", "pia"} => phase \in {"tia", "pia"}
    BY <1>6 DEF scan_clock, run_tia, quit, loopVars
  <2>. QED
    BY <2>1 DEF Pace, vars, history, Intervals
<1>. QED
  BY <1>4, <1>5, <1>6 DEF LoopNext

(* Where the program is when the timer has expired, and how many cycles it *)
(* has spent since: at most those of the instructions from the store to    *)
(* PC, the last of them only when its turn is over.                        *)
Late == CASE PC = \hF005 -> 0 [] PC = \hF007 -> 9 [] PC = \hF00A -> 18 [] OTHER -> 27

SpentInv ==
    /\ spent \in Int
    /\ PC \in {\hF005, \hF007, \hF00A, \hF00C} =>
          /\ Fetch(mem, INTIM) # 0 => spent = elapsed
          /\ elapsed <= spent /\ spent <= elapsed + Late + (IF phase = "cpu" THEN 9 ELSE 0)
    /\ PC = \hF00A /\ Fetch(mem, INTIM) = 0 => STATUS_Z \in P
    /\ PC = \hF00C => Fetch(mem, INTIM) = 0

LEMMA SpentInit == LoopInit /\ RunsWait /\ spent = 0 => SpentInv
<1>. SUFFICES ASSUME LoopInit, RunsWait, spent = 0 PROVE SpentInv
  OBVIOUS
<1>1. PICK n \in 0..254, reg \in Registers : mem = LoadCartridge(Waiting(n, reg))
  BY DEF RunsWait, Registers
<1>2. PC = \hF000
  BY <1>1, LoadedText DEF LoopInit, Init
<1>. QED
  BY <1>2, SMT DEF SpentInv

(* The numbers that the bounds are computed from. *)
LEMMA WaitNumbers ==
    ASSUME LoopTypeOK, Pace, TM!NeverEarly, TM!LatenessBounded, PC \in {\hF005, \hF007, \hF00A, \hF00C}
    PROVE  /\ elapsed \in Int /\ Asked \in Int
           /\ Intervals \in Int /\ 0 <= Intervals
           /\ elapsed <= Asked + (9 * Intervals)
           /\ MostSpent = Asked + (9 * Intervals) + 36
           /\ Fetch(mem, INTIM) = 0 => Asked <= elapsed
<1>1. /\ intact /\ vacant = 0 /\ TM!Total = Asked /\ loaded = Intervals
  BY DEF Pace, TM!Total, Asked
<1>2. /\ elapsed \in Int /\ loaded \in Int /\ 0 <= loaded /\ timer_number \in Int
      /\ Fetch(mem, INTIM) \in Int /\ 0 <= Fetch(mem, INTIM)
  <2>1. Fetch(mem, INTIM) \in Byte
    BY FetchCell DEF LoopTypeOK, TypeOK
  <2>. QED
    BY <2>1, InByte, SMT DEF LoopTypeOK, TypeOK, TimerNumbers
<1>3. Asked \in Int
  <2>1. loaded * timer_number \in Int
    BY <1>2, SMT
  <2>. QED
    BY <1>1, <2>1 DEF TM!Total
<1>4. elapsed <= Asked + ((Intervals - Fetch(mem, INTIM)) * 9)
  BY <1>1 DEF TM!LatenessBounded, MostCycles
<1>5. MostSpent = Asked + ((Intervals + 4) * 9)
  BY DEF MostSpent, MostCycles
<1>6. Fetch(mem, INTIM) = 0 => Asked <= elapsed
  <2>. SUFFICES ASSUME Fetch(mem, INTIM) = 0 PROVE Asked <= elapsed
    OBVIOUS
  <2>1. (0 + 0) * timer_number >= Asked - elapsed
    BY <1>1 DEF TM!NeverEarly
  <2>2. (0 + 0) * timer_number = 0
    BY <1>2, SMT
  <2>. QED
    BY <1>2, <1>3, <2>1, <2>2, SMT
<1>. QED
  BY <1>1, <1>2, <1>3, <1>4, <1>5, <1>6, SMT

LEMMA SpentNext ==
    LoopTypeOK /\ WaitInv /\ Pace /\ TM!NeverEarly /\ TM!LatenessBounded /\ SpentInv
        /\ [LoopNext /\ Spends]_waitVars
    => SpentInv'
<1>. SUFFICES ASSUME LoopTypeOK, WaitInv, Pace, TM!NeverEarly, TM!LatenessBounded, SpentInv,
                     [LoopNext /\ Spends]_waitVars
              PROVE  SpentInv'
  OBVIOUS
<1>1. PICK n \in 0..254, reg \in Registers : Text(mem, n, reg) /\ Control(n)
  BY DEF WaitInv
<1>t. TypeOK
  BY DEF LoopTypeOK
<1>2. CASE run_cpu /\ Spends
  <2>1. Next /\ phase = "cpu"
    BY <1>2 DEF run_cpu, Next
  <2>2. /\ Control(n)'
        /\ PC = \hF000 => PC' = \hF002
        /\ PC = \hF00C => PC' = \hF000
        /\ IF PC = \hF002 THEN Strobes /\ Fetch(mem', INTIM) = n
                         ELSE ~Strobes /\ mem' = mem
        /\ PC = \hF00A /\ PC' = \hF00C => Fetch(mem, INTIM) = 0
        /\ PC = \hF002 => PC' = \hF005
        /\ PC = \hF005 => PC' = \hF007
        /\ PC = \hF007 => PC' = \hF00A /\ (Fetch(mem, INTIM) = 0 => STATUS_Z \in P')
        /\ PC = \hF00A => P' = P /\ PC' = IF STATUS_Z \notin P THEN \hF007 ELSE \hF00C
    BY <1>1, <1>2, <1>t, RunWait
  <2>3. phase' = "tia"
    <3>1. status' # "crashed"
      <4>1. inst.exec \in {"lda", "sta", "cmp", "bne", "jmp"}
        BY <1>1, Listed, WaitTableAssumption DEF TableHas, Control
      <4>2. lda \/ sta \/ cmp \/ branch \/ jmp
        BY <2>1, <4>1, ExecutesEntry
      <4>. QED
        BY <4>2 DEF lda, sta, Store, cmp, Compare, branch, Branch, jmp, GoTo, Retire, RetireAt, Executes
    <3>. QED
      BY <1>2, <3>1 DEF run_cpu
  <2>4. CASE PC = \hF002
    <3>1. spent' = 0 /\ elapsed' = 0 /\ PC' = \hF005
      BY <1>2, <2>1, <2>2, <2>4 DEF Spends, run_cpu, Remember
    <3>. QED
      BY <2>3, <3>1, SMT DEF SpentInv, Late
  <2>5. CASE PC # \hF002
    <3>1. spent' = spent /\ elapsed' = elapsed /\ mem' = mem
      BY <1>2, <2>1, <2>2, <2>5 DEF Spends, run_cpu, Remember, history
    <3>2. CASE PC \in {\hF000, \hF00C}
      <4>1. PC' = \hF002 \/ PC' = \hF000
        BY <2>2, <3>2
      <4>. QED
        BY <3>1, <4>1, SMT DEF SpentInv
    <3>3. CASE PC \in {\hF005, \hF007, \hF00A}
      <4>n. elapsed \in Int /\ spent \in Int
        BY <3>3, WaitNumbers DEF SpentInv
      <4>1. CASE PC = \hF005
        BY <2>1, <2>2, <2>3, <3>1, <4>1, <4>n, SMT DEF SpentInv, Late
      <4>2. CASE PC = \hF007
        BY <2>1, <2>2, <2>3, <3>1, <4>2, <4>n, SMT DEF SpentInv, Late
      <4>3. CASE PC = \hF00A /\ STATUS_Z \notin P
        BY <2>1, <2>2, <2>3, <3>1, <4>3, <4>n, SMT DEF SpentInv, Late
      <4>4. CASE PC = \hF00A /\ STATUS_Z \in P
        BY <2>1, <2>2, <2>3, <3>1, <4>4, <4>n, SMT DEF SpentInv, Late
      <4>. QED
        BY <3>3, <4>1, <4>2, <4>3, <4>4
    <3>. QED
      BY <1>1, <2>5, <3>2, <3>3 DEF Control
  <2>. QED
    BY <2>4, <2>5
<1>3. CASE run_pia /\ Spends
  <2>1. /\ phase = "pia" /\ phase' = "cpu" /\ PC' = PC
        /\ cycles \in Int /\ cycles > 0 /\ cycles <= 9
    <3>1. cycles \in 0..9
      BY <1>t DEF TypeOK
    <3>2. phase = "pia" /\ phase' = "cpu" /\ PC' = PC
      BY <1>3 DEF run_pia
    <3>. QED
      BY <3>1, <3>2, SMT DEF Pace
  <2>2. spent' = IF ~Waits THEN 0 ELSE IF spent > MostSpent THEN spent ELSE spent + cycles
    BY <1>3, <2>1, SMT DEF Spends
  <2>3. spent' \in Int
    BY <2>1, <2>2, SMT DEF SpentInv
  <2>4. CASE PC \notin {\hF005, \hF007, \hF00A, \hF00C}
    BY <2>1, <2>3, <2>4, SMT DEF SpentInv
  <2>5. CASE PC \in {\hF005, \hF007, \hF00A, \hF00C}
    <3>1. Waits
      BY <1>1, <2>5, SMT DEF Waits, WaitStart, WaitEnd, WaitLoop, Text
    <3>2. /\ elapsed \in Int /\ spent \in Int /\ Asked \in Int /\ Intervals \in Int /\ 0 <= Intervals
          /\ elapsed <= Asked + (9 * Intervals) /\ MostSpent = Asked + (9 * Intervals) + 36
      BY <2>5, WaitNumbers DEF SpentInv
    <3>3. elapsed <= spent /\ spent <= elapsed + Late /\ Late <= 27 /\ Late \in Int /\ 0 <= Late
      BY <2>1, <2>5, <3>2, SMT DEF SpentInv, Late
    <3>4. spent' = spent + cycles
      BY <2>2, <3>1, <3>2, <3>3, SMT
    <3>5. PICK m : Fetch(m, INTIM) = Interval /\ cnt_timer(m)
      BY <1>3, <1>t, PiaCounts
    <3>6. Late' = Late
      BY <2>1 DEF Late
    <3>7. intact
      BY <2>5 DEF Pace
    <3>8. CASE Interval = 0
      <4>1. ~Counts /\ ~Decrements
        BY <3>8, SMT DEF Decrements, Counts
      <4>2. elapsed' = elapsed /\ P' = P /\ Fetch(mem', INTIM) = 0
        BY <3>5, <3>8, <4>1 DEF cnt_timer
      <4>3. spent' <= elapsed + Late + 9 /\ elapsed <= spent'
        BY <2>1, <3>2, <3>3, <3>4, SMT
      <4>4. PC = \hF00A => STATUS_Z \in P
        BY <3>8 DEF SpentInv, Interval
      <4>. QED
        BY <2>1, <2>3, <3>6, <4>2, <4>3, <4>4 DEF SpentInv
    <3>9. CASE Interval # 0
      <4>1. Interval \in Int /\ Interval > 0
        <5>1. Fetch(mem, INTIM) \in Byte
          BY <1>t, FetchCell DEF TypeOK
        <5>. QED
          BY <3>9, <5>1, InByte, SMT DEF Interval
      <4>2. elapsed' = elapsed + cycles
        BY <3>5, <3>7, <4>1 DEF cnt_timer, Counts
      <4>3. spent = elapsed
        BY <2>5, <3>9 DEF SpentInv, Interval
      <4>4. Fetch(mem', INTIM) = 0 => STATUS_Z \in P'
        <5>1. CASE Decrements /\ Interval = 1
          BY <3>5, <5>1 DEF cnt_timer
        <5>2. CASE Decrements /\ Interval # 1
          <6>1. Fetch(mem', INTIM) = Interval - 1
            BY <3>5, <5>2, PutReads DEF cnt_timer
          <6>. QED
            BY <4>1, <5>2, <6>1, SMT
        <5>3. CASE ~Decrements
          BY <3>5, <3>9, <5>3 DEF cnt_timer
        <5>. QED
          BY <5>1, <5>2, <5>3
      <4>5. PC # \hF00C
        BY <3>9 DEF SpentInv, Interval
      <4>6. /\ spent' = elapsed' /\ elapsed' <= spent'
            /\ spent' <= elapsed' + Late' + 9
        BY <2>1, <3>2, <3>3, <3>4, <3>6, <4>2, <4>3, SMT
      <4>. QED
        BY <2>1, <2>3, <4>4, <4>5, <4>6 DEF SpentInv
    <3>. QED
      BY <3>8, <3>9
  <2>. QED
    BY <2>4, <2>5
<1>4. CASE (scan_clock \/ run_tia \/ quit) /\ Spends
  <2>1. /\ UNCHANGED <<vars, history>> /\ phase # "cpu" /\ phase' # "cpu"
        /\ ~(phase = "pia" /\ phase' = "cpu")
    BY <1>4 DEF scan_clock, run_tia, quit
  <2>2. spent' = spent
    BY <1>4, <2>1 DEF Spends
  <2>. QED
    BY <2>1, <2>2 DEF SpentInv, Late, vars, history, registers
<1>5. CASE UNCHANGED waitVars
  BY <1>5 DEF waitVars, loopVars, vars, history, registers, SpentInv, Late
<1>. QED
  BY <1>2, <1>3, <1>4, <1>5 DEF LoopNext

(* The history restricts no step of the loop. *)
LEMMA SpentIsHistory == WaitSpec => LoopSpec
<1>1. [LoopNext /\ Spends]_waitVars => [LoopNext]_loopVars
  BY DEF waitVars
<1>. QED
  BY <1>1, PTL DEF WaitSpec, LoopSpec

(***************************************************************************)
(* When a program that waits for the timer goes on behind its loop it has  *)
(* spent the cycles that it asked for, and at most nine cycles more for    *)
(* each of its intervals and for four instructions: the bounds of          *)
(* LoopKeepsTime where INTIM shows 0 and no vacant opcode was met, and the *)
(* way from the expiry of the timer out of the loop.                       *)
(***************************************************************************)
THEOREM WaitsTakeTheirTime == WaitSpec /\ RunsWait => []WaitTakesItsTime
<1>1. LoopTypeOK /\ Pace /\ TM!NeverEarly /\ TM!LatenessBounded /\ SpentInv => WaitTakesItsTime
  <2>. SUFFICES ASSUME LoopTypeOK, Pace, TM!NeverEarly, TM!LatenessBounded, SpentInv,
                       phase = "cpu", PC = WaitEnd
                PROVE  Asked <= spent /\ spent <= MostSpent
    BY DEF WaitTakesItsTime
  <2>1. PC = \hF00C
    BY DEF WaitEnd
  <2>2. Fetch(mem, INTIM) = 0 /\ spent \in Int /\ elapsed <= spent /\ spent <= elapsed + 36
    <3>1. elapsed \in Int
      BY <2>1, WaitNumbers
    <3>. QED
      BY <2>1, <3>1, SMT DEF SpentInv, Late
  <2>3. /\ elapsed \in Int /\ Asked \in Int /\ Intervals \in Int
        /\ elapsed <= Asked + (9 * Intervals) /\ MostSpent = Asked + (9 * Intervals) + 36
        /\ Asked <= elapsed
    BY <2>1, <2>2, WaitNumbers
  <2>. QED
    BY <2>2, <2>3, SMT
<1>2. LoopSpec => [](TM!NeverEarly /\ TM!LatenessBounded)
  BY LoopKeepsTime
<1>3. TypeOK /\ WaitInv /\ [LoopNext]_loopVars => WaitInv'
  BY WaitInvNext
<1>4. LoopSpec /\ RunsWait => []WaitInv
  BY <1>3, WaitInvInit, ProcessorType, PTL DEF LoopSpec
<1>5. LoopSpec /\ RunsWait => []Pace
  BY <1>4, PaceInit, PaceNext, ProcessorType, PTL DEF LoopSpec
<1>. QED
  BY <1>1, <1>2, <1>4, <1>5, SpentIsHistory, SpentInit, SpentNext, LoopTypeCorrect, PTL DEF WaitSpec

(* ---------------------------- Subroutine calls ------------------------- *)

LEMMA LoopCallsInvInit == LoopCallsInit => CallsInv
BY InitType DEF LoopCallsInit, LoopInit, CallsInv, FramesIntact

(* The turn of the PIA leaves the calls it does not forget as they are. *)
LEMMA PiaKeepsCalls ==
    ASSUME CallsInv, run_pia, calls' = {f \in calls : ~PiaChanged(f)}
    PROVE  calls' \subseteq CallFrame /\ FramesIntact'
<1>1. S' = S
  BY DEF run_pia
<1>2. \A f \in calls' : /\ Fetch(mem', f.at) = Fetch(mem, f.at)
                        /\ Fetch(mem', f.at - 1) = Fetch(mem, f.at - 1)
  BY PiaWrites DEF PiaChanged
<1>. QED
  BY <1>1, <1>2 DEF CallsInv, FramesIntact, OnStack

LEMMA LoopCallsInvNext ==
    ASSUME CallsInv, [LoopCallsNext]_loopCallVars
    PROVE  /\ CallsInv'
           /\ \A f \in calls : phase = "cpu" /\ inst.exec = "rts" /\ S = f.at - 2
                               => PC' = f.ret \/ UNCHANGED loopCallVars
<1>1. CASE run_cpu /\ calls' = {f \in calls \cup NewFrame : OnStack(f, S') /\ ~Changed(f)}
  <2>1. CallsNext
    BY <1>1 DEF CallsNext, run_cpu, Next
  <2>. QED
    BY <2>1, CallsInvNext, ReturnStep
<1>2. CASE run_pia /\ calls' = {f \in calls : ~PiaChanged(f)}
  <2>1. TypeOK'
    BY <1>2, LoopNextType DEF CallsInv, LoopNext
  <2>2. phase # "cpu"
    BY <1>2 DEF run_pia
  <2>. QED
    BY <1>2, <2>1, <2>2, PiaKeepsCalls DEF CallsInv
<1>3. CASE (scan_clock \/ run_tia \/ quit) /\ UNCHANGED calls
  <2>1. UNCHANGED callVars
    BY <1>3 DEF scan_clock, run_tia, quit, callVars
  <2>2. phase # "cpu"
    BY <1>3 DEF scan_clock, run_tia, quit
  <2>. QED
    BY <2>1, <2>2, CallsInvNext
<1>4. CASE UNCHANGED loopCallVars
  <2>1. UNCHANGED callVars
    BY <1>4 DEF loopCallVars, loopVars, callVars
  <2>. QED
    BY <1>4, <2>1, CallsInvNext
<1>. QED
  BY <1>1, <1>2, <1>3, <1>4 DEF LoopCallsNext

(***************************************************************************)
(* RTS at the frame of an open call goes on behind that call in the whole  *)
(* loop: whatever the program, the input and the timer do in between, the  *)
(* PIA can take a return address away only where the stack lies over SWCHA *)
(* or INTIM.                                                               *)
(***************************************************************************)
THEOREM CallsReturnInLoop == LoopCallsSpec => []FramesIntact /\ LoopReturnsToCaller
<1>1. CallsInv /\ [LoopCallsNext]_loopCallVars => CallsInv'
  BY LoopCallsInvNext
<1>2. CallsInv /\ [LoopCallsNext]_loopCallVars =>
        [\A f \in calls :
            phase = "cpu" /\ inst.exec = "rts" /\ S = f.at - 2 => PC' = f.ret]_loopCallVars
  BY LoopCallsInvNext
<1>3. CallsInv => FramesIntact
  BY DEF CallsInv
<1>. QED
  BY <1>1, <1>2, <1>3, LoopCallsInvInit, PTL DEF LoopCallsSpec, LoopReturnsToCaller

(* The history restricts no step of the loop: what the loop promises holds *)
(* of it with the history, too.                                            *)
LEMMA CallsAreHistory == LoopCallsSpec => LoopSpec
<1>1. [LoopCallsNext]_loopCallVars => [LoopNext]_loopVars
  BY DEF LoopCallsNext, LoopNext, loopCallVars
<1>. QED
  BY <1>1, PTL DEF LoopCallsSpec, LoopCallsInit, LoopSpec

=============================================================================
