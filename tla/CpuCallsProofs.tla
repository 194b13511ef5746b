--------------------------- MODULE CpuCallsProofs ---------------------------
(***************************************************************************)
(* Proofs about CpuCalls: return addresses stay intact on the stack, and   *)
(* RTS returns to its caller, for every cartridge, however long it runs.   *)
(***************************************************************************)
EXTENDS CpuCalls, CpuProofs

(* The inductive invariant: FramesIntact needs the types of the registers, *)
(* and that frames lie inside the array, away from the wrap of S.          *)
CallsInv == TypeOK /\ calls \subseteq CallFrame /\ FramesIntact

LEMMA HighLow == ASSUME NEW w \in Addr PROVE Word(Low(w), High(w)) = w
BY InAddr, SMT DEF Word, Low, High

(* What a transfer of control takes off, run_cpu() adds again. *)
LEMMA Arrives ==
    ASSUME TypeOK, NEW target \in Addr, GoTo(target)
    PROVE  PC' = target
<1>1. inst.bytes \in Int /\ 0 <= inst.bytes /\ inst.bytes <= 3
  BY InstType, SMT
<1>2. target \in Int /\ 0 <= target /\ target <= 65535
  BY InAddr
<1>3. ((((target - inst.bytes) % 65536) + inst.bytes) % 65536) = target
  BY <1>1, <1>2, SMT
<1>. QED
  BY <1>3 DEF GoTo, RetireAt, Plus16

LEMMA Wraps == ASSUME NEW a \in Int, -65536 <= a, a < 0 PROVE (a % 65536) = a + 65536
BY SMT

LEMMA FrameType ==
    ASSUME NEW f \in CallFrame
    PROVE  f.at \in Int /\ 2 <= f.at /\ f.at < PAST_END /\ PAST_END = 65535 /\ f.ret \in Addr
<1>1. PAST_END = 65535
  BY SMT DEF PAST_END, ADDR_MAX
<1>2. PAST_END \in Int
  BY <1>1, SMT
<1>3. f.at \in 2..(PAST_END - 1)
  BY DEF CallFrame
<1>4. f.at \in Int /\ 2 <= f.at /\ f.at < PAST_END
  BY <1>2, <1>3, SMT
<1>5. f.ret \in Addr
  BY DEF CallFrame
<1>. QED
  BY <1>1, <1>4, <1>5

LEMMA PushedReads ==
    ASSUME NEW m, NEW a, NEW b
    PROVE  \A x : x # a => Fetch(Pushed(m, a, b), x) = Fetch(m, x)
BY PutReads DEF Pushed

(* Below a frame on the stack, a push goes to cells that are not the       *)
(* frame's, also when the stack pointer wraps from 0 to the top.           *)
LEMMA BelowFrame ==
    ASSUME NEW f \in CallFrame, S \in Addr, OnStack(f, S)
    PROVE  S # f.at /\ S # f.at - 1 /\ Below(S) # f.at /\ Below(S) # f.at - 1
<1>1. f.at \in Int /\ 2 <= f.at /\ f.at < 65535
  BY FrameType, SMT
<1>2. S \in Int /\ 0 <= S /\ S < f.at - 1
  BY InAddr DEF OnStack
<1>3. CASE S = 0
  <2>1. S - 1 \in Int /\ -65536 <= S - 1 /\ S - 1 < 0
    BY <1>3, SMT
  <2>2. Below(S) = (S - 1) + 65536
    BY <2>1, Wraps DEF Below
  <2>. QED
    BY <1>1, <1>3, <2>2, SMT
<1>4. CASE S # 0
  <2>1. Below(S) = S - 1
    BY <1>1, <1>2, <1>4, SMT DEF Below
  <2>. QED
    BY <1>1, <1>2, <2>1, SMT
<1>. QED
  BY <1>3, <1>4

(* No step but a store changes the bytes of a frame on the stack. *)
LEMMA FrameKept ==
    ASSUME TypeOK, Next, NEW f \in CallFrame, OnStack(f, S), ~Changed(f)
    PROVE  Fetch(mem', f.at) = Fetch(mem, f.at) /\ Fetch(mem', f.at - 1) = Fetch(mem, f.at - 1)
<1>1. S # f.at /\ S # f.at - 1 /\ Below(S) # f.at /\ Below(S) # f.at - 1
  BY BelowFrame DEF TypeOK
<1>2. CASE inst.exec \in Writers
  BY <1>2 DEF Changed
<1>3. CASE asl \/ lsr \/ rol \/ ror \/ inc \/ dec \/ sta \/ stx \/ sty
  <2>1. inst.exec \in Writers
    BY <1>3 DEF asl, lsr, rol, ror, inc, dec, sta, stx, sty, Executes, Writers
  <2>. QED
    BY <1>2, <2>1
<1>4. CASE pha \/ php
  <2>1. \E b : mem' = Pushed(mem, S, b)
    BY <1>4 DEF pha, php, Push, stack_push
  <2>. QED
    BY <1>1, <2>1, PushedReads
<1>5. CASE jsr
  <2>1. \E h, l : mem' = Pushed(Pushed(mem, S, h), Below(S), l)
    BY <1>5 DEF jsr, push_word
  <2>. QED
    BY <1>1, <2>1, PushedReads
<1>6. CASE lda \/ ldx \/ ldy \/ adc \/ sbc \/ and \/ ora \/ eor \/ cmp \/ cpx \/ cpy \/ bit
  BY <1>6 DEF lda, ldx, ldy, adc, sbc, and, ora, eor, Accumulate, cmp, cpx, cpy, Compare, bit
<1>7. CASE inx \/ dex \/ iny \/ dey \/ tax \/ tay \/ txa \/ tya \/ tsx \/ txs
  BY <1>7 DEF inx, dex, iny, dey, tax, tay, txa, tya, tsx, SetX, SetY, SetA, txs
<1>8. CASE clear \/ set \/ idle \/ pla \/ plp
  BY <1>8 DEF clear, set, idle, Flags, pla, plp
<1>9. CASE jmp \/ jmpin \/ rts \/ branch \/ crash
  BY <1>9 DEF jmp, jmpin, rts, branch, Branch, crash
<1>. QED
  BY <1>3, <1>4, <1>5, <1>6, <1>7, <1>8, <1>9 DEF Next, inst_exec

(* The step that executes "jsr" is jsr, and likewise rts. *)
LEMMA OnlyJsr == ASSUME Next, inst.exec = "jsr" PROVE jsr
BY SMT DEF Next, inst_exec, Executes, lda, ldx, ldy, adc, sbc, and, ora, eor, cmp, cpx, cpy, bit,
       asl, lsr, rol, ror, inc, dec, sta, stx, sty, inx, dex, iny, dey, tax, tay, txa, tya, tsx, txs,
       clear, set, idle, pha, php, pla, plp, jmp, jmpin, rts, branch, crash

LEMMA OnlyRts == ASSUME Next, inst.exec = "rts" PROVE rts
BY SMT DEF Next, inst_exec, Executes, lda, ldx, ldy, adc, sbc, and, ora, eor, cmp, cpx, cpy, bit,
       asl, lsr, rol, ror, inc, dec, sta, stx, sty, inx, dex, iny, dey, tax, tay, txa, tya, tsx, txs,
       clear, set, idle, pha, php, pla, plp, jmp, jmpin, jsr, branch, crash

(* The frame of a call that is being made holds its return address. *)
LEMMA FrameMade ==
    ASSUME TypeOK, Next, NEW f \in NewFrame
    PROVE  f \in CallFrame /\ Word(Fetch(mem', f.at - 1), Fetch(mem', f.at)) = f.ret
<1>. DEFINE next == Plus16(PC, inst.bytes)
<1>1. inst.exec = "jsr" /\ S \in 2..(PAST_END - 1) /\ f = [at |-> S, ret |-> next]
  BY DEF NewFrame
<1>2. next \in Addr
  BY InstType, Widths, Plus16Type, SMT DEF TypeOK
<1>3. f \in CallFrame /\ f.at = S /\ f.ret = next
  BY <1>1, <1>2 DEF CallFrame
<1>4. S \in Int /\ 2 <= S /\ S < PAST_END /\ PAST_END = 65535
  BY <1>3, FrameType
<1>5. Below(S) = S - 1 /\ S - 1 # S /\ S - 1 # PAST_END /\ S # PAST_END
  BY <1>4, SMT DEF Below
<1>6. mem' = Put(Put(mem, S, High(next)), S - 1, Low(next))
  BY <1>1, <1>5, OnlyJsr DEF jsr, push_word, Pushed, IsA
<1>7. Fetch(mem', S) = High(next) /\ Fetch(mem', S - 1) = Low(next)
  BY <1>5, <1>6, PutReads
<1>. QED
  BY <1>2, <1>3, <1>7, HighLow

LEMMA CallsInvInit == CallsInit => CallsInv
BY InitType DEF CallsInit, CallsInv, FramesIntact

LEMMA CallsInvNext == CallsInv /\ [CallsNext]_callVars => CallsInv'
<1>. SUFFICES ASSUME CallsInv, [CallsNext]_callVars PROVE CallsInv'
  OBVIOUS
<1>1. CASE CallsNext
  <2>1. TypeOK'
    BY <1>1, NextType DEF CallsInv, CallsNext
  <2>2. \A f \in calls' : f \in CallFrame /\ OnStack(f, S')
                          /\ Word(Fetch(mem', f.at - 1), Fetch(mem', f.at)) = f.ret
    <3>. SUFFICES ASSUME NEW f \in calls'
                  PROVE  /\ f \in CallFrame /\ OnStack(f, S')
                         /\ Word(Fetch(mem', f.at - 1), Fetch(mem', f.at)) = f.ret
      OBVIOUS
    <3>1. f \in calls \cup NewFrame /\ OnStack(f, S') /\ ~Changed(f)
      BY <1>1 DEF CallsNext
    <3>2. CASE f \in calls
      <4>1. /\ f \in CallFrame /\ OnStack(f, S)
            /\ Word(Fetch(mem, f.at - 1), Fetch(mem, f.at)) = f.ret
        BY <3>2 DEF CallsInv, FramesIntact
      <4>2. Fetch(mem', f.at) = Fetch(mem, f.at) /\ Fetch(mem', f.at - 1) = Fetch(mem, f.at - 1)
        BY <1>1, <3>1, <4>1, FrameKept DEF CallsInv, CallsNext
      <4>. QED
        BY <3>1, <4>1, <4>2
    <3>3. CASE f \in NewFrame
      BY <1>1, <3>1, <3>3, FrameMade DEF CallsInv, CallsNext
    <3>. QED
      BY <3>1, <3>2, <3>3
  <2>. QED
    BY <2>1, <2>2 DEF CallsInv, FramesIntact, OnStack
<1>2. CASE UNCHANGED callVars
  BY <1>2 DEF callVars, vars, CallsInv, TypeOK, FramesIntact, OnStack, CallFrame
<1>. QED
  BY <1>1, <1>2

LEMMA CallsInvariant == CallsSpec => []CallsInv
BY CallsInvInit, CallsInvNext, PTL DEF CallsSpec

(***************************************************************************)
(* The return address of every open call is on the stack where JSR put it. *)
(***************************************************************************)
THEOREM FramesStayIntact == CallsSpec => []FramesIntact
<1>1. CallsInv => FramesIntact
  BY DEF CallsInv
<1>. QED
  BY <1>1, CallsInvariant, PTL

(* The two bytes RTS pops at the frame of a call are those of the frame.   *)
LEMMA ReturnStep ==
    ASSUME CallsInv, CallsNext, NEW f \in calls, inst.exec = "rts", S = f.at - 2
    PROVE  PC' = f.ret
<1>1. f \in CallFrame /\ Word(Fetch(mem, f.at - 1), Fetch(mem, f.at)) = f.ret
  BY DEF CallsInv, FramesIntact
<1>2. f.at \in Int /\ 2 <= f.at /\ f.at < PAST_END /\ PAST_END = 65535 /\ f.ret \in Addr
  BY <1>1, FrameType
<1>3. Plus16(S, 1) = f.at - 1 /\ Plus16(S, 2) = f.at
  BY <1>2, SMT DEF Plus16
<1>4. f.at - 1 # PAST_END /\ f.at # PAST_END
  BY <1>2, SMT
<1>5. Word(stack_pop(1), stack_pop(2)) = f.ret
  BY <1>1, <1>3, <1>4 DEF stack_pop, fetch_byte, IsA
<1>6. GoTo(f.ret)
  BY <1>5, OnlyRts DEF CallsNext, rts
<1>. QED
  BY <1>2, <1>6, Arrives DEF CallsInv

(***************************************************************************)
(* RTS at the frame of an open call goes on behind that call, whatever the *)
(* program and whatever ran in between (cpu.c: jsr(), rts()).              *)
(***************************************************************************)
THEOREM RtsReturns == CallsSpec => ReturnsToCaller
<1>1. CallsInv /\ [CallsNext]_callVars =>
        [\A f \in calls :
            status = "running" /\ inst.exec = "rts" /\ S = f.at - 2 => PC' = f.ret]_callVars
  BY ReturnStep
<1>. QED
  BY <1>1, CallsInvariant, PTL DEF CallsSpec, ReturnsToCaller

=============================================================================
