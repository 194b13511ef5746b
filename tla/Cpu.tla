-------------------------------- MODULE Cpu ---------------------------------
(***************************************************************************)
(* The processor (cpu.c) and the state of mspace.c it works on, including  *)
(* the timer registers of pia.c that its stores reach.  A step is one call *)
(* of run_cpu() in main.c: fetch the opcode, execute its function, move    *)
(* the program counter.                                                    *)
(*                                                                         *)
(* Two choices of the build are kept open.  The byte after mspace[0xffff], *)
(* which the program addresses as 0xffff, is the accumulator or a padding  *)
(* byte, as the compiler lays the variables out (mspace.c, lines 12, 16).  *)
(***************************************************************************)
EXTENDS Mspace

CONSTANTS
    Carts,      \* the cartridge files, as sequences of bytes
    Layouts,    \* what may lie behind the array: a subset of {"A", "padding"}
    inst_tbl    \* the instruction table: what inst_tbl_init() leaves

ASSUME CartsAssumption == \A file \in Carts : file \in Seq(Byte)

ASSUME InstTblAssumption ==
    inst_tbl \in [Byte -> [bytes : 0..3, cycles : 0..7, exec : STRING, mode : STRING]]

VARIABLES
    mem,                         \* mspace[]
    A, X, Y, S, P, PC,           \* the registers
    timer_cycles, timer_number,  \* pia.c
    cycles,                      \* what the last run_cpu() returned
    status,                      \* "running", or "crashed" on a null function
    past                         \* the layout of this build

timer == <<timer_cycles, timer_number>>
registers == <<A, X, Y, S, P>>
vars == <<mem, A, X, Y, S, P, PC, timer_cycles, timer_number, cycles, status, past>>

-----------------------------------------------------------------------------
(* Reading memory; the cell past the end may be the accumulator. *)

IsA(a) == a = PAST_END /\ past = "A"

fetch_byte(a) == IF IsA(a) THEN A ELSE Fetch(mem, a)

fetch_word(l, h) == Word(fetch_byte(l), fetch_byte(h))

(* Writing memory: set_byte() with its strobes, and the bare write of the  *)
(* stack.                                                                  *)

(* Mutant of set_byte(): the cycles are counted with the old interval.     *)
set_byte_OldNumber(a, b) ==
    /\ mem' = IF IsA(a) THEN mem ELSE Stored(mem, a, b)
    /\ A' = IF IsA(a) THEN b ELSE A
    /\ timer_number' = IF a \in TimerRegs THEN TimerNumber(a) ELSE timer_number
    /\ timer_cycles' = IF a \in TimerRegs THEN b * timer_number ELSE timer_cycles

set_byte(a, b) ==
    /\ mem' = IF IsA(a) THEN mem ELSE Stored(mem, a, b)
    /\ A' = IF IsA(a) THEN b ELSE A
    /\ timer_number' = IF a \in TimerRegs THEN TimerNumber(a) ELSE timer_number
    /\ timer_cycles' = IF a \in TimerRegs THEN b * TimerNumber(a) ELSE timer_cycles

Below_Unwrapped(a) == a - 1      \* mutant: a stack pointer wider than addr_t
Below(a) == (a - 1) % 65536

Pushed(m, a, b) == IF IsA(a) THEN m ELSE Put(m, a, b)

stack_push(b) ==
    /\ mem' = Pushed(mem, S, b)
    /\ A' = IF IsA(S) THEN b ELSE A
    /\ S' = Below(S)

(* Mutant of the two pushes of jsr(): the low byte first.                  *)
push_word_Swapped(h, l) ==
    /\ mem' = Pushed(Pushed(mem, S, l), Below(S), h)
    /\ A' = IF IsA(S) THEN l ELSE IF IsA(Below(S)) THEN h ELSE A
    /\ S' = Below(Below(S))

push_word(h, l) ==
    /\ mem' = Pushed(Pushed(mem, S, h), Below(S), l)
    /\ A' = IF IsA(S) THEN h ELSE IF IsA(Below(S)) THEN l ELSE A
    /\ S' = Below(Below(S))

stack_pop_Late(n) == fetch_byte(Plus16(S, n - 1))   \* mutant: reads, then moves S
stack_pop(n) == fetch_byte(Plus16(S, n))     \* the n-th byte popped

-----------------------------------------------------------------------------
(* The instruction at PC and its operand. *)

opcode == fetch_byte(PC)
inst   == inst_tbl[opcode]

fetch_operand(op) ==
    CASE inst_tbl[op].bytes = 2 -> fetch_byte(Plus16(PC, 1))
      [] inst_tbl[op].bytes = 3 -> fetch_word(Plus16(PC, 1), Plus16(PC, 2))
      [] OTHER -> 0

operand == fetch_operand(opcode)

page_boundary_crossed(old, new) == High(old) # High(new)

(* The address before it is indexed, and after.  "inx" takes its high byte *)
(* X cells after its low byte.                                             *)
base == CASE inst.mode = "inx" -> fetch_word(operand, Plus16(operand, X))
          [] inst.mode = "iny" -> fetch_word(operand, Plus16(operand, 1))
          [] OTHER -> operand

addr == CASE inst.mode \in {"zx", "ax"} -> Plus16(base, X)
          [] inst.mode \in {"zy", "ay", "iny"} -> Plus16(base, Y)
          [] OTHER -> base

value == CASE inst.mode = "i" -> Low(operand)
           [] inst.mode = "a" -> A
           [] OTHER -> fetch_byte(addr)

(* The extra cycle of the functions that read: the stores and the          *)
(* read-modify-write functions count none.                                 *)
extra_cycles ==
    IF inst.mode \in {"ax", "ay", "iny"} /\ page_boundary_crossed(base, addr) THEN 1 ELSE 0

-----------------------------------------------------------------------------
(* Flags. *)

With(p, flag, on) == IF on THEN p \cup {flag} ELSE p \ {flag}

(* N and Z as most functions treat them: set on the result, never cleared. *)
NZ(p, v) == p \cup (IF v >= 128 THEN {STATUS_N} ELSE {})
              \cup (IF v = 0 THEN {STATUS_Z} ELSE {})

compare(b1, b2) ==
    With(With(With(P, STATUS_N, b1 < b2), STATUS_Z, b1 = b2), STATUS_C, b1 > b2)

Carry == IF STATUS_C \in P THEN 1 ELSE 0

Asl(b) == (2 * b) % 256
Lsr(b) == b \div 2
RollLeft(b)  == Plus8(2 * b, Carry)
RollRight(b) == (b \div 2) + (128 * Carry)
TopBit(b) == b >= 128
LowBit(b) == b % 2 = 1

-----------------------------------------------------------------------------
(* run_cpu() around the function: the loop of main() runs while PC is      *)
(* below the last cell of the array, a null function is never returned     *)
(* from, and every other function ends with the move of PC.                *)

(* Mutant of the guard of the loop: the last cell is executed, too.        *)
Executes_LastCell(functions) ==
    /\ status = "running"
    /\ PC < CARMEM_END
    /\ inst.exec \in functions

Executes(functions) ==
    /\ status = "running"
    /\ PC < CARMEM_END - 1
    /\ inst.exec \in functions

RetireAt(pc, extra) ==
    /\ PC' = Plus16(pc, inst.bytes)
    /\ cycles' = inst.cycles + extra
    /\ UNCHANGED <<status, past>>

Retire(extra) == RetireAt(PC, extra)

Init ==
    /\ \E file \in Carts : mem = LoadCartridge(file)
    /\ PC = EntryPoint(mem)
    /\ A = 0 /\ X = 0 /\ Y = 0
    /\ S = RAM_END
    /\ P = {UNUSED}
    /\ timer_cycles = 0 /\ timer_number = 1
    /\ cycles = 0
    /\ status = "running"
    /\ past \in Layouts

-----------------------------------------------------------------------------
(* Loads. *)

lda == /\ Executes({"lda"})
       /\ A' = value /\ P' = NZ(P, value)
       /\ UNCHANGED <<mem, X, Y, S, timer>>
       /\ Retire(extra_cycles)

ldx == /\ Executes({"ldx"})
       /\ X' = value /\ P' = NZ(P, value)
       /\ UNCHANGED <<mem, A, Y, S, timer>>
       /\ Retire(extra_cycles)

ldy == /\ Executes({"ldy"})
       /\ Y' = value /\ P' = NZ(P, value)
       /\ UNCHANGED <<mem, A, X, S, timer>>
       /\ Retire(extra_cycles)

(* Arithmetic and logic on the accumulator.  The carry is set by a result  *)
(* that does not fit and cleared by nothing; it is never added in.         *)

Accumulate(result, p) ==
    /\ A' = result /\ P' = NZ(p, result)
    /\ UNCHANGED <<mem, X, Y, S, timer>>
    /\ Retire(extra_cycles)

adc == Executes({"adc"}) /\ Accumulate(Plus8(A, value),
                                IF A + value > 255 THEN P \cup {STATUS_C} ELSE P)
sbc == Executes({"sbc"}) /\ Accumulate((A - value) % 256,
                                IF A < value THEN P \cup {STATUS_C} ELSE P)
and == Executes({"and"}) /\ Accumulate(ByteOf(BitsOf(A) \cap BitsOf(value)), P)
ora == Executes({"ora"}) /\ Accumulate(ByteOf(BitsOf(A) \cup BitsOf(value)), P)
eor == Executes({"eor"}) /\ Accumulate(ByteOf((BitsOf(A) \ BitsOf(value))
                                              \cup (BitsOf(value) \ BitsOf(A))), P)

(* Comparisons. *)

Compare(register) ==
    /\ P' = compare(register, value)
    /\ UNCHANGED <<mem, A, X, Y, S, timer>>
    /\ Retire(extra_cycles)

cmp == Executes({"cmp"}) /\ Compare(A)
cpx == Executes({"cpx"}) /\ Compare(X)
cpy == Executes({"cpy"}) /\ Compare(Y)

bit == /\ Executes({"bit"})
       /\ P' = With(With(With(P, STATUS_V, 6 \in BitsOf(value)),
                         STATUS_N, 7 \in BitsOf(value)),
                    STATUS_Z, BitsOf(A) \cap BitsOf(value) = {0})
       /\ UNCHANGED <<mem, A, X, Y, S, timer>>
       /\ Retire(0)

(* Read-modify-write functions, on the accumulator or on a cell. *)

Modify(result) ==
    /\ IF inst.mode = "a" THEN A' = result /\ UNCHANGED <<mem, timer>>
                          ELSE set_byte(addr, result)
    /\ UNCHANGED <<X, Y, S>>
    /\ Retire(0)

asl == /\ Executes({"asl"}) /\ Modify(Asl(value))
       /\ P' = NZ(With(P, STATUS_C, TopBit(value)), Asl(value))

(* lsrzx() looks for zero before it shifts. *)
lsr == /\ Executes({"lsr", "lsrzx"}) /\ Modify(Lsr(value))
       /\ P' = LET tested == IF inst.exec = "lsrzx" THEN value ELSE Lsr(value)
                   p == With(P, STATUS_C, LowBit(value)) \ {STATUS_N}
               IN  IF tested = 0 THEN p \cup {STATUS_Z} ELSE p

rol == /\ Executes({"rol"}) /\ Modify(RollLeft(value))
       /\ P' = With(NZ(P, RollLeft(value)), STATUS_C, TopBit(value))

ror == /\ Executes({"ror"}) /\ Modify(RollRight(value))
       /\ P' = With(NZ(P, RollRight(value)), STATUS_C, LowBit(value))

inc == /\ Executes({"inc"}) /\ Modify(Plus8(value, 1))
       /\ P' = NZ(P, Plus8(value, 1))

dec == /\ Executes({"dec"}) /\ Modify((value - 1) % 256)
       /\ P' = NZ(P, (value - 1) % 256)

(* Stores. *)

Store(b) == /\ set_byte(addr, b)
            /\ UNCHANGED <<X, Y, S, P>>
            /\ Retire(0)

sta == Executes({"sta"}) /\ Store(A)
stx == Executes({"stx"}) /\ Store(X)
sty == Executes({"sty"}) /\ Store(Y)

(* Index registers and transfers; iny() counts up from X. *)

SetX(v) == /\ X' = v /\ P' = NZ(P, v)
           /\ UNCHANGED <<mem, A, Y, S, timer>> /\ Retire(0)
SetY(v) == /\ Y' = v /\ P' = NZ(P, v)
           /\ UNCHANGED <<mem, A, X, S, timer>> /\ Retire(0)
SetA(v) == /\ A' = v /\ P' = NZ(P, v)
           /\ UNCHANGED <<mem, X, Y, S, timer>> /\ Retire(0)

(* Mutant of dex(): the flags are set before X is counted down.            *)
dex_Early == /\ Executes({"dex"})
             /\ X' = (X - 1) % 256 /\ P' = NZ(P, X)
             /\ UNCHANGED <<mem, A, Y, S, timer>> /\ Retire(0)

inx == Executes({"inx"}) /\ SetX(Plus8(X, 1))
dex == Executes({"dex"}) /\ SetX((X - 1) % 256)
iny == Executes({"iny"}) /\ SetY(Plus8(X, 1))
dey == Executes({"dey"}) /\ SetY((Y - 1) % 256)
tax == Executes({"tax"}) /\ SetX(A)
tay == Executes({"tay"}) /\ SetY(A)
txa == Executes({"txa"}) /\ SetA(X)
tya == Executes({"tya"}) /\ SetA(Y)
tsx == Executes({"tsx"}) /\ SetX(Low(S))

txs == /\ Executes({"txs"})
       /\ S' = X
       /\ UNCHANGED <<mem, A, X, Y, P, timer>>
       /\ Retire(0)

(* The flag functions, and the functions that do nothing. *)

Flags(p) == P' = p /\ UNCHANGED <<mem, A, X, Y, S, timer>> /\ Retire(0)

clear == \/ Executes({"clc"}) /\ Flags(P \ {STATUS_C})
         \/ Executes({"cld"}) /\ Flags(P \ {STATUS_D})
         \/ Executes({"cli"}) /\ Flags(P \ {STATUS_I})
         \/ Executes({"clv"}) /\ Flags(P \ {STATUS_V})

set == \/ Executes({"sec"}) /\ Flags(P \cup {STATUS_C})
       \/ Executes({"sed"}) /\ Flags(P \cup {STATUS_D})
       \/ Executes({"sei"}) /\ Flags(P \cup {STATUS_I})

idle == Executes({"nop", "brk", "rti", "vac"}) /\ Flags(P)

(* The stack. *)

Push(b) == /\ stack_push(b)
           /\ UNCHANGED <<X, Y, P, timer>>
           /\ Retire(0)

pha == Executes({"pha"}) /\ Push(A)
php == Executes({"php"}) /\ Push(ByteOf(P))

pla == /\ Executes({"pla"})
       /\ A' = stack_pop(1) /\ S' = Plus16(S, 1)
       /\ UNCHANGED <<mem, X, Y, P, timer>>
       /\ Retire(0)

plp == /\ Executes({"plp"})
       /\ P' = BitsOf(stack_pop(1)) /\ S' = Plus16(S, 1)
       /\ UNCHANGED <<mem, A, X, Y, timer>>
       /\ Retire(0)

(* Transfers of control.  A target has the size of the instruction taken   *)
(* off, because run_cpu() adds it.                                         *)

GoTo(target) == RetireAt((target - inst.bytes) % 65536, 0)

jmp == /\ Executes({"jmp"})
       /\ GoTo(operand)
       /\ UNCHANGED <<mem, registers, timer>>

(* The high byte is not the cell after the pointer: it is the operand that *)
(* an instruction whose opcode is the low byte of pointer + 1 would have   *)
(* at this PC.                                                             *)
jmpin == /\ Executes({"jmpin"})
         /\ GoTo(Word(fetch_byte(operand), Low(fetch_operand(Low(operand + 1)))))
         /\ UNCHANGED <<mem, registers, timer>>

jsr == LET next == Plus16(PC, inst.bytes)
       IN  /\ Executes({"jsr"})
           /\ push_word(High(next), Low(next))
           /\ GoTo(operand)
           /\ UNCHANGED <<X, Y, P, timer>>

rts == /\ Executes({"rts"})
       /\ S' = Plus16(S, 2)
       /\ GoTo(Word(stack_pop(1), stack_pop(2)))
       /\ UNCHANGED <<mem, A, X, Y, P, timer>>

(* branch_aux(): the offset is a two's complement byte. *)
new_pc == IF operand > 127 THEN (PC - (256 - operand)) % 65536 ELSE Plus16(PC, operand)

Branch(condition) ==
    /\ IF condition THEN RetireAt(new_pc, IF page_boundary_crossed(PC, new_pc) THEN 2 ELSE 1)
                    ELSE Retire(0)
    /\ UNCHANGED <<mem, registers, timer>>

taken == \/ inst.exec = "bcc" /\ STATUS_C \notin P
         \/ inst.exec = "bcs" /\ STATUS_C \in P
         \/ inst.exec = "bne" /\ STATUS_Z \notin P
         \/ inst.exec = "beq" /\ STATUS_Z \in P
         \/ inst.exec = "bpl" /\ STATUS_N \notin P
         \/ inst.exec = "bmi" /\ STATUS_N \in P
         \/ inst.exec = "bvc" /\ STATUS_V \notin P
         \/ inst.exec = "bvs" /\ STATUS_V \in P

branch == /\ Executes({"bcc", "bcs", "bne", "beq", "bpl", "bmi", "bvc", "bvs"})
          /\ Branch(taken)

(* The call of a null function. *)
crash == /\ Executes({"NULL"})
         /\ status' = "crashed"
         /\ UNCHANGED <<mem, registers, PC, timer, cycles, past>>

-----------------------------------------------------------------------------
inst_exec ==
    \/ lda \/ ldx \/ ldy
    \/ adc \/ sbc \/ and \/ ora \/ eor
    \/ cmp \/ cpx \/ cpy \/ bit
    \/ asl \/ lsr \/ rol \/ ror \/ inc \/ dec
    \/ sta \/ stx \/ sty
    \/ inx \/ dex \/ iny \/ dey
    \/ tax \/ tay \/ txa \/ tya \/ tsx \/ txs
    \/ clear \/ set \/ idle
    \/ pha \/ php \/ pla \/ plp
    \/ jmp \/ jmpin \/ jsr \/ rts \/ branch
    \/ crash

Next == inst_exec

Spec == Init /\ [][Next]_vars

-----------------------------------------------------------------------------
(* Properties. *)

(* Type correctness: every variable keeps the width its C type has.        *)
TypeOK ==
    /\ IsMemory(mem)
    /\ A \in Byte /\ X \in Byte /\ Y \in Byte
    /\ S \in Addr /\ PC \in Addr
    /\ P \subseteq Bit
    /\ timer_number \in TimerNumbers
    /\ timer_cycles \in 0..TIMER_MAX
    /\ cycles \in 0..9
    /\ status \in {"running", "crashed"}
    /\ past \in Layouts

(* The functions that write a cell through set_byte(). *)
Writers == {"asl", "lsr", "lsrzx", "rol", "ror", "inc", "dec", "sta", "stx", "sty"}

(* Where the result of an instruction lies afterwards.                     *)
Result ==
    CASE inst.exec \in {"ldx", "inx", "dex", "tax", "tsx"} -> X'
      [] inst.exec \in {"ldy", "iny", "dey", "tay"} -> Y'
      [] inst.exec \in {"lda", "adc", "sbc", "and", "ora", "eor", "txa", "tya"} -> A'
      [] OTHER -> IF inst.mode = "a" \/ IsA(addr) THEN A' ELSE Fetch(mem', addr)

(* Every function computes its flags by itself, some before and some after *)
(* they store the result.  The flags of a zero and of a negative result    *)
(* come up only with such a result in the register or the cell the         *)
(* instruction has written, behind a strobe and past the end of the array  *)
(* too; only comparisons, BIT and PLP set them without a result.           *)
FlagsHaveCause ==
    [][inst.exec \notin {"cmp", "cpx", "cpy", "bit", "plp"} =>
          /\ STATUS_Z \in P' \ P => Result = 0
          /\ STATUS_N \in P' \ P => TopBit(Result)
      ]_vars

(* The timer is set by stores and read-modify-write functions on one of its *)
(* four registers and by nothing else, a push onto such a register included *)
(* (stack_push() goes past the strobes); and a step that sets it leaves the *)
(* interval of this register in force, and the register's cell, the         *)
(* interval counter and the cycle counter in agreement.                     *)
TimerSetByStrobe ==
    [][timer' # timer =>
          /\ inst.exec \in Writers /\ addr \in TimerRegs
          /\ timer_number' = TimerNumber(addr)
          /\ Fetch(mem', addr) = Fetch(mem', INTIM)
          /\ timer_cycles' = Fetch(mem', INTIM) * timer_number'
      ]_vars

(* The functions that set PC themselves. *)
Transfers == {"jmp", "jmpin", "jsr", "rts", "bcc", "bcs", "bne", "beq", "bpl", "bmi", "bvc", "bvs"}

(* A program that runs on over the end of the address space ends the loop   *)
(* of main() (main.c, lines 86-91): PC starts again at the bottom in one    *)
(* place only, when an instruction of three bytes lies at 0xfffd, the high  *)
(* byte of the start vector.                                                *)
OnlyTheVectorWraps ==
    [][PC' < PC /\ inst.exec \notin Transfers
          => PC = CARMEM_END - 2 /\ inst.bytes = 3 /\ PC' = 0
      ]_vars

=============================================================================
