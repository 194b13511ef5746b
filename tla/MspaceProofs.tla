---------------------------- MODULE MspaceProofs -----------------------------
(***************************************************************************)
(* Lemmas about the operators of Mspace and PiaInput: the ranges of bytes, *)
(* addresses and words, what a cell holds after it was written, and what a *)
(* key leaves in SWCHA.                                                    *)
(***************************************************************************)
EXTENDS PiaInput, TLAPS

(***************************************************************************)
(* Ranges.  The SMT translation enumerates a range between two numerals,   *)
(* so the proofs use these facts and never expand Byte and Addr.           *)
(***************************************************************************)
LEMMA InRange == \A n \in Int : \A x : x \in 0..n <=> x \in Int /\ 0 <= x /\ x <= n
BY SMT

LEMMA InByte == \A x : x \in Byte <=> x \in Int /\ 0 <= x /\ x <= 255
<1>1. 255 \in Int
  BY SMT
<1>. QED
  BY <1>1, InRange, Zenon DEF Byte

LEMMA InAddr == \A x : x \in Addr <=> x \in Int /\ 0 <= x /\ x <= 65535
<1>1. ADDR_MAX \in Int
  BY SMT DEF ADDR_MAX
<1>2. \A x : x \in Addr <=> x \in Int /\ 0 <= x /\ x <= ADDR_MAX
  BY <1>1, InRange, Zenon DEF Addr
<1>. QED
  BY <1>2, SMT DEF ADDR_MAX

LEMMA InTimer == \A x : x \in 0..TIMER_MAX <=> x \in Int /\ 0 <= x /\ x <= TIMER_MAX
<1>1. TIMER_MAX \in Int
  BY SMT DEF TIMER_MAX
<1>. QED
  BY <1>1, InRange, Zenon

(* ------------------------------ Arithmetic ----------------------------- *)

LEMMA Mod16 == ASSUME NEW a \in Int PROVE (a % 65536) \in Addr
BY InAddr, SMT

LEMMA Mod8 == ASSUME NEW a \in Int PROVE (a % 256) \in Byte
BY InByte, SMT

LEMMA Plus16Type == ASSUME NEW a \in Int, NEW b \in Int PROVE Plus16(a, b) \in Addr
BY InAddr, SMT DEF Plus16

LEMMA Plus8Type == ASSUME NEW a \in Int, NEW b \in Int PROVE Plus8(a, b) \in Byte
BY InByte, SMT DEF Plus8

LEMMA WordType == ASSUME NEW l \in Byte, NEW h \in Byte PROVE Word(l, h) \in Addr
BY InByte, InAddr, SMT DEF Word

LEMMA LowType == ASSUME NEW w \in Int PROVE Low(w) \in Byte
BY InByte, SMT DEF Low

LEMMA HighType == ASSUME NEW w \in Addr PROVE High(w) \in Byte
BY InByte, InAddr, SMT DEF High

LEMMA ByteOfType == ASSUME NEW bits PROVE ByteOf(bits) \in Byte
BY InByte, SMT DEF ByteOf, Weight

LEMMA BitsOfType == ASSUME NEW b PROVE BitsOf(b) \subseteq Bit
BY SMT DEF BitsOf

(* -------------------------------- Cells -------------------------------- *)

LEMMA FetchCell == ASSUME NEW m, IsMemory(m), NEW a PROVE Fetch(m, a) \in Byte
<1>1. 0 \in Byte
  BY InByte, SMT
<1>. QED
  BY <1>1 DEF Fetch, IsMemory

LEMMA PutMemory ==
    ASSUME NEW m, IsMemory(m), NEW a \in Addr, NEW b \in Byte
    PROVE  IsMemory(Put(m, a, b))
BY SMT DEF Put, IsMemory

LEMMA StoredMemory ==
    ASSUME NEW m, IsMemory(m), NEW a \in Addr, NEW b \in Byte
    PROVE  IsMemory(Stored(m, a, b))
<1>1. INTIM \in Addr
  BY InAddr, SMT DEF INTIM
<1>2. IsMemory(Put(m, INTIM, b))
  BY <1>1, PutMemory
<1>. QED
  BY <1>2, PutMemory DEF Stored

LEMMA PutReads ==
    ASSUME NEW m, NEW a, NEW b
    PROVE  /\ Fetch(Put(m, a, b), a) = b
           /\ \A x : x # a => Fetch(Put(m, a, b), x) = Fetch(m, x)
BY SMT DEF Fetch, Put

(* ------------------------------- Widths -------------------------------- *)

LEMMA Widths == Byte \subseteq Addr /\ Byte \subseteq Int /\ Addr \subseteq Int /\ 0 \in Byte
BY InByte, InAddr, SMT

(* ------------------------------ The input ------------------------------ *)

LEMMA KeyByteType == ASSUME NEW code \in JoystickKeys PROVE KeyByte(code) \in Byte
<1>1. JoystickBit[code] \in {0, 1, 2, 3, 4, 5, 6, 7}
  BY SMT DEF JoystickKeys, JoystickBit
<1>2. p2(JoystickBit[code]) \in {2, 4, 8, 16, 32, 64, 128, 256}
  <2>1. /\ p2(0) = 2 /\ p2(1) = 4 /\ p2(2) = 8 /\ p2(3) = 16
        /\ p2(4) = 32 /\ p2(5) = 64 /\ p2(6) = 128 /\ p2(7) = 256
    BY SMT DEF p2
  <2>. QED
    BY <1>1, <2>1
<1>3. \A p \in {2, 4, 8, 16, 32, 64, 128, 256} :
          (IF (255 \div p) % 2 = 1 THEN 255 - p ELSE 255) \in Byte
  BY InByte, SMT
<1>. QED
  BY <1>2, <1>3 DEF KeyByte, clear_bit

(* The input changes one cell of the memory, and not INTIM. *)
LEMMA InputKeeps ==
    ASSUME NEW m, IsMemory(m), NEW code
    PROVE  /\ IsMemory(pia_process_input(m, code))
           /\ Fetch(pia_process_input(m, code), INTIM) = Fetch(m, INTIM)
<1>1. SWCHA \in Addr
  BY InAddr, SMT DEF SWCHA
<1>2. INTIM # SWCHA
  BY SMT DEF INTIM, SWCHA
<1>3. CASE code \in JoystickKeys
  BY <1>1, <1>2, <1>3, KeyByteType, PutMemory, PutReads DEF pia_process_input
<1>4. CASE code \notin JoystickKeys
  BY <1>4 DEF pia_process_input
<1>. QED
  BY <1>3, <1>4

=============================================================================
