------------------------------- MODULE Mspace -------------------------------
(***************************************************************************)
(* The address space and the status register (mspace.c, mspace.h), as      *)
(* operators: bytes, addresses, the memory map, the flags of P, the cells  *)
(* of mspace[] and the loading of a cartridge.                             *)
(*                                                                         *)
(* A memory is a function on the cells that were written so far; a cell    *)
(* outside its domain holds 0, the value C gives a static array.  P is the *)
(* set of the bits that are 1.                                             *)
(***************************************************************************)
EXTENDS Integers, Sequences

Byte == 0..\hFF                       \* byte_t
ADDR_MAX == \hFFFF
Addr == 0..ADDR_MAX                   \* addr_t

Plus8(a, b)  == (a + b) % 256         \* assignment to a byte_t
Plus16(a, b) == (a + b) % 65536       \* assignment to an addr_t
Low(w)       == w % 256
High(w)      == w \div 256
Word(l, h)   == (h * 256) + l         \* little endian

(* mspace[0xffff]: the cells are 0 .. 0xfffe, so that the last value of an *)
(* addr_t is one past the end of the array.                                *)
PAST_END == ADDR_MAX

CARMEM_START == \hF000
CARMEM_END   == \hFFFF
RAM_START    == \h0180
RAM_END      == \h01FF                \* the initial stack pointer

VSYNC  == \h00
VBLANK == \h01
SWCHA  == \h0280
INTIM  == \h0284
TIM1T  == \h0294
TIM8T  == \h0295
TIM64T == \h0296
T1024T == \h0297

(***************************************************************************)
(* The strobe registers that have an effect, each with the number of       *)
(* cycles strobe_dispatch() passes to set_timer(); the other ten strobes   *)
(* of tia.c do nothing.                                                    *)
(***************************************************************************)
TimerRegs == {TIM1T, TIM8T, TIM64T, T1024T}
TimerNumbers == {1, 8, 64, 1024}
TimerNumber(a) == CASE a = TIM1T  -> 1
                    [] a = TIM8T  -> 8
                    [] a = TIM64T -> 64
                    [] OTHER      -> 1024
TIMER_MAX == 255 * 1024               \* the most cycles a store asks for

(***************************************************************************)
(* The bits of P, and a byte as the set of its bits.                       *)
(***************************************************************************)
STATUS_C == 0
STATUS_Z == 1
STATUS_I == 2
STATUS_D == 3
STATUS_B == 4
UNUSED   == 5                         \* "supposed to be logical 1 at all times"
STATUS_V == 6
STATUS_N == 7
Bit == 0..7

BitsOf(b) == {i \in Bit : (b \div (2^i)) % 2 = 1}

Weight(bits, i, w) == IF i \in bits THEN w ELSE 0
ByteOf(bits) ==
    Weight(bits, 0, 1)  + Weight(bits, 1, 2)  + Weight(bits, 2, 4)  + Weight(bits, 3, 8) +
    Weight(bits, 4, 16) + Weight(bits, 5, 32) + Weight(bits, 6, 64) + Weight(bits, 7, 128)

(***************************************************************************)
(* Cells.                                                                  *)
(***************************************************************************)
IsMemory(m) == DOMAIN m \subseteq Addr /\ m \in [DOMAIN m -> Byte]

Fetch(m, a) == IF a \in DOMAIN m THEN m[a] ELSE 0

Put(m, a, b) == [x \in DOMAIN m \cup {a} |-> IF x = a THEN b ELSE m[x]]

(* set_byte(): a timer register also loads INTIM, through set_timer().     *)
Stored(m, a, b) == IF a \in TimerRegs THEN Put(Put(m, INTIM, b), a, b)
                                      ELSE Put(m, a, b)

(***************************************************************************)
(* load_cartridge(): at most CARMEM_END - CARMEM_START bytes of the file   *)
(* are copied, so the last byte of a 4 Kbyte file is not.  The program     *)
(* starts at the word in 0xfffc, 0xfffd, or at the first byte of the       *)
(* cartridge area when that word lies below the area.                      *)
(***************************************************************************)
LoadCartridge(file) ==
    LET Byteof(a) == file[a - CARMEM_START + 1]
        loaded == {a \in CARMEM_START..(CARMEM_END - 1) : a - CARMEM_START < Len(file)}
    IN  [a \in {x \in loaded : Byteof(x) # 0} |-> Byteof(a)]

EntryPoint(m) ==
    LET vector == Word(Fetch(m, CARMEM_END - 3), Fetch(m, CARMEM_END - 2))
    IN  IF vector < CARMEM_START THEN CARMEM_START ELSE vector

=============================================================================
