--------------------------- MODULE MainLoopProofs ---------------------------
(***************************************************************************)
(* Proofs about MainLoop: the loop keeps its types, implements PiaTimer    *)
(* and draws the pictures of Picture, and the beam moves with the cycles   *)
(* of the program, for every set of cartridges, instruction table, size of *)
(* the raster and set of keys.                                             *)
(***************************************************************************)
EXTENDS MainLoop, CpuProofs

(* ------------------- The picture of Tia, step by step ------------------ *)

LEMMA BlankingBoolean == (VsyncOn \in BOOLEAN /\ VblankOn \in BOOLEAN)'
BY DEF VsyncOn, VblankOn

LEMMA PictureKept ==
    ASSUME UNCHANGED picture
    PROVE  T!SetBlanking
<1>1. VsyncOn' \in BOOLEAN /\ VblankOn' \in BOOLEAN
  BY BlankingBoolean
<1>2. UNCHANGED <<hi, vi, ti, chi, cvi, cti, displayed, drawn, behind>>
  BY DEF picture
<1>. QED
  BY <1>1, <1>2 DEF T!SetBlanking, T!raster, T!cursor

LEMMA TiaStep == [LoopNext]_loopVars => [T!Next]_T!vars
<1>. SUFFICES ASSUME [LoopNext]_loopVars PROVE T!Next
  BY DEF T!Next
<1>1. CASE run_cpu
  <2>1. UNCHANGED picture
    BY <1>1 DEF run_cpu
  <2>. QED
    BY <2>1, PictureKept DEF T!Next
<1>2. CASE scan_clock
  BY <1>2 DEF scan_clock, T!Next
<1>3. CASE run_tia \/ run_pia \/ quit
  <2>1. UNCHANGED picture
    BY <1>3 DEF run_tia, run_pia, quit, picture
  <2>. QED
    BY <2>1, PictureKept DEF T!Next
<1>4. CASE UNCHANGED loopVars
  <2>1. UNCHANGED picture
    BY <1>4 DEF loopVars
  <2>. QED
    BY <2>1, PictureKept DEF T!Next
<1>. QED
  BY <1>1, <1>2, <1>3, <1>4 DEF LoopNext

(* In the turns of the processor and of the PIA only the blanking changes. *)
LEMMA LoopImplementsTia == LoopSpec => T!Spec
<1>1. LoopInit => T!Init
  BY DEF LoopInit
<1>2. [LoopNext]_loopVars => [T!Next]_T!vars
  BY TiaStep
<1>. QED
  BY <1>1, <1>2, PTL DEF LoopSpec, T!Spec

(* -------- What is proved of Tia and PiaTimer holds of the loop --------- *)

(* The instances of the parts in MainLoop, with what is proved of them.    *)
TP == INSTANCE TiaProofs WITH vsync <- VsyncOn, vblank <- VblankOn, Layouts <- BufferLayouts

TMP == INSTANCE PiaTimerProofs WITH
        INTIM <- Fetch(mem, INTIM), Z <- STATUS_Z \in P,
        Intervals <- Byte, Numbers <- TimerNumbers,
        Durations <- 0..MostCycles, Longest <- MostCycles

LEMMA RasterFits == TP!RasterAssumption
BY RasterAssumption DEF TP!RasterAssumption, T!RasterAssumption

LEMMA TimerFits == TMP!TimerAssumption
BY SMT DEF TMP!TimerAssumption, TMP!Byte, TimerNumbers, Byte, MostCycles

LEMMA SamePictureType == T!TypeOK <=> TP!TypeOK
BY DEF T!TypeOK, TP!TypeOK

LEMMA SamePictureInit == T!Init <=> TP!Init
BY DEF T!Init, TP!Init

LEMMA SamePictureStep == [T!Next]_T!vars <=> [TP!Next]_TP!vars
BY DEF T!Next, TP!Next, T!vars, TP!vars, T!raster, TP!raster, T!cursor, TP!cursor,
       T!tia_exec, TP!tia_exec, T!SetBlanking, TP!SetBlanking, T!isonscreen, TP!isonscreen,
       T!place_pixel, TP!place_pixel, T!display, TP!display, T!Scan, TP!Scan,
       T!Over, TP!Over, T!Clobbers, TP!Clobbers, T!Size, TP!Size,
       T!Advanced, TP!Advanced, T!Carries, TP!Carries,
       T!cal_total_index, TP!cal_total_index, T!cal_total_cindex, TP!cal_total_cindex

LEMMA SamePicture == LoopSpec => TP!Spec
<1>1. LoopInit => TP!Init
  BY SamePictureInit DEF LoopInit
<1>2. [LoopNext]_loopVars => [TP!Next]_TP!vars
  BY TiaStep, SamePictureStep
<1>. QED
  BY <1>1, <1>2, PTL DEF LoopSpec, TP!Spec

LEMMA LoopDraws == LoopSpec => T!PictureImplemented
<1>1. LoopSpec => TP!PictureImplemented
  BY RasterFits, SamePicture, TP!TiaImplementsPicture, PTL
<1>2. TP!Drawing!Init => T!Drawing!Init
  BY DEF TP!Drawing!Init, T!Drawing!Init
<1>3. [TP!Drawing!Next]_<<cti, displayed>> => [T!Drawing!Next]_<<cti, displayed>>
  BY DEF TP!Drawing!Next, T!Drawing!Next, TP!Drawing!Draw, T!Drawing!Draw, TP!Drawing!Skip, T!Drawing!Skip,
         TP!Drawing!LineEnds, T!Drawing!LineEnds, TP!Drawing!Cells, T!Drawing!Cells
<1>. QED
  BY <1>1, <1>2, <1>3, PTL DEF TP!PictureImplemented, T!PictureImplemented, TP!Drawing!Spec, T!Drawing!Spec

(***************************************************************************)
(* The pictures of a program are drawn in order and complete and its stray *)
(* writes stay close to the buffer, whatever the processor, the input and  *)
(* the timer do between two color clocks.                                  *)
(***************************************************************************)
THEOREM LoopDrawsWholePictures ==
    LoopSpec => T!PictureImplemented /\ T!PictureComplete /\ []T!StrayWritesBounded
<1>1. LoopSpec => TP!PictureComplete /\ []TP!StrayWritesBounded
  BY RasterFits, SamePicture, TP!PicturesAreComplete, TP!StrayWritesStayClose, PTL
<1>3. TP!StrayWritesBounded => T!StrayWritesBounded
  BY DEF TP!StrayWritesBounded, T!StrayWritesBounded, TP!Size, T!Size
<1>4. TP!PictureComplete => T!PictureComplete
  BY DEF TP!PictureComplete, T!PictureComplete, TP!Size, T!Size, TP!vars, T!vars, TP!raster, T!raster, TP!cursor, T!cursor
<1>. QED
  BY <1>1, <1>3, <1>4, LoopDraws, PTL

(* ---------------------------- Type correctness ------------------------- *)

LEMMA TimerNumberType == \A a : TimerNumber(a) \in TimerNumbers
BY SMT DEF TimerNumber, TimerNumbers

LEMMA CountType ==
    ASSUME TypeOK, NEW m, IsMemory(m), cnt_timer(m)
    PROVE  /\ IsMemory(mem') /\ P' \subseteq Bit
           /\ timer_number' \in TimerNumbers /\ timer_cycles' \in 0..TIMER_MAX
<1>1. INTIM \in Addr
  BY InAddr, SMT DEF INTIM
<1>2. Interval \in Byte
  BY FetchCell DEF Interval, TypeOK
<1>3. IsMemory(mem')
  <2>1. CASE Decrements
    <3>1. Interval - 1 \in Byte
      BY <1>2, <2>1, InByte, SMT DEF Decrements, Counts
    <3>2. mem' = Put(m, INTIM, Interval - 1)
      BY <2>1 DEF cnt_timer
    <3>. QED
      BY <1>1, <3>1, <3>2, PutMemory
  <2>2. CASE ~Decrements
    BY <2>2 DEF cnt_timer
  <2>. QED
    BY <2>1, <2>2
<1>4. P' \subseteq Bit
  BY FlagBits DEF cnt_timer, TypeOK
<1>5. timer_number' \in TimerNumbers
  BY DEF cnt_timer, TypeOK
<1>6. timer_cycles' \in 0..TIMER_MAX
  <2>1. cycles \in Int /\ 0 <= cycles
    BY SMT DEF TypeOK
  <2>2. timer_cycles \in Int /\ 0 <= timer_cycles /\ timer_cycles <= TIMER_MAX
    BY InTimer DEF TypeOK
  <2>3. CASE Counts /\ timer_cycles >= cycles
    <3>1. timer_cycles' = timer_cycles - cycles
      BY <2>3 DEF cnt_timer
    <3>2. TIMER_MAX \in Int
      BY SMT DEF TIMER_MAX
    <3>3. timer_cycles' \in Int /\ 0 <= timer_cycles' /\ timer_cycles' <= TIMER_MAX
      BY <2>1, <2>2, <2>3, <3>1, <3>2, SMT
    <3>. QED
      BY <3>3, InTimer
  <2>4. CASE ~(Counts /\ timer_cycles >= cycles)
    BY <2>4 DEF cnt_timer, TypeOK
  <2>. QED
    BY <2>3, <2>4
<1>. QED
  BY <1>3, <1>4, <1>5, <1>6

LEMMA PiaCounts ==
    ASSUME TypeOK, run_pia
    PROVE  \E m : IsMemory(m) /\ Fetch(m, INTIM) = Interval /\ cnt_timer(m)
<1>1. CASE cnt_timer(mem)
  BY <1>1 DEF TypeOK, Interval
<1>2. CASE \E code \in Keys : cnt_timer(pia_process_input(mem, code))
  BY <1>2, InputKeeps DEF TypeOK, Interval
<1>. QED
  BY <1>1, <1>2 DEF run_pia

LEMMA LoopNextType == TypeOK /\ [LoopNext]_loopVars => TypeOK'
<1>. SUFFICES ASSUME TypeOK, [LoopNext]_loopVars PROVE TypeOK'
  OBVIOUS
<1>1. CASE run_cpu
  BY <1>1, NextType DEF run_cpu, Next
<1>2. CASE run_pia
  <2>1. /\ IsMemory(mem') /\ P' \subseteq Bit
        /\ timer_number' \in TimerNumbers /\ timer_cycles' \in 0..TIMER_MAX
    BY <1>2, PiaCounts, CountType
  <2>. QED
    BY <1>2, <2>1 DEF run_pia, TypeOK
<1>3. CASE scan_clock \/ run_tia \/ quit \/ UNCHANGED loopVars
  <2>1. UNCHANGED vars
    BY <1>3 DEF scan_clock, run_tia, quit, loopVars
  <2>. QED
    BY <2>1, NextType
<1>. QED
  BY <1>1, <1>2, <1>3 DEF LoopNext

(***************************************************************************)
(* The variables of the processor keep their widths under the input and    *)
(* the timer, too.                                                         *)
(***************************************************************************)
LEMMA ProcessorType == LoopSpec => []TypeOK
<1>1. LoopInit => TypeOK
  BY InitType DEF LoopInit
<1>. QED
  BY <1>1, LoopNextType, PTL DEF LoopSpec

(* ------------------- The timer of PiaTimer, step by step --------------- *)

(* A function that writes through set_byte() is executed by the action of  *)
(* its name.                                                               *)
LEMMA OnlyWriters ==
    ASSUME Next, inst.exec \in Writers
    PROVE  asl \/ lsr \/ rol \/ ror \/ inc \/ dec \/ sta \/ stx \/ sty
BY SMT DEF Writers, Next, inst_exec, Executes, lda, ldx, ldy, adc, sbc, and, ora, eor, cmp, cpx, cpy,
       bit, inx, dex, iny, dey, tax, tay, txa, tya, tsx, txs, clear, set, idle, pha, php, pla, plp,
       jmp, jmpin, jsr, rts, branch, crash

(* An instruction that goes through set_byte() on a timer register sets    *)
(* the timer as set_timer() does.                                          *)
LEMMA StrobeSets ==
    ASSUME Next, Strobes
    PROVE  /\ timer_number' = TimerNumber(addr)
           /\ timer_cycles' = Fetch(mem', INTIM) * TimerNumber(addr)
<1>1. \E b : set_byte(addr, b)
  <2>1. CASE asl \/ lsr \/ rol \/ ror \/ inc \/ dec
    <3>1. inst.mode # "a"
      BY <2>1 DEF Strobes, asl, lsr, rol, ror, inc, dec, Executes
    <3>2. \E b : Modify(b)
      BY <2>1 DEF asl, lsr, rol, ror, inc, dec
    <3>. QED
      BY <3>1, <3>2 DEF Modify
  <2>2. CASE sta \/ stx \/ sty
    BY <2>2 DEF sta, stx, sty, Store
  <2>. QED
    BY <2>1, <2>2, OnlyWriters DEF Strobes
<1>2. PICK b : set_byte(addr, b)
  BY <1>1
<1>3. addr \in TimerRegs
  BY DEF Strobes
<1>4. addr # INTIM /\ addr # PAST_END
  BY <1>3, SMT DEF TimerRegs, TIM1T, TIM8T, TIM64T, T1024T, INTIM, PAST_END, ADDR_MAX
<1>5. mem' = Put(Put(mem, INTIM, b), addr, b)
  BY <1>2, <1>3, <1>4 DEF set_byte, IsA, Stored
<1>6. Fetch(mem', INTIM) = b
  BY <1>4, <1>5, PutReads
<1>. QED
  BY <1>2, <1>3, <1>6 DEF set_byte

(* Any other instruction leaves the timer alone. *)
LEMMA OthersLeaveTimer == ASSUME Next, ~Strobes PROVE UNCHANGED timer
<1>. SUFFICES ASSUME timer' # timer PROVE FALSE
  OBVIOUS
<1>1. inst.exec \in Writers /\ addr \in TimerRegs
  BY NextTimer
<1>2. CASE asl \/ lsr \/ rol \/ ror \/ inc \/ dec
  <2>1. inst.mode = "a"
    BY <1>1 DEF Strobes
  <2>. QED
    BY <1>2, <2>1 DEF asl, lsr, rol, ror, inc, dec, Modify
<1>3. CASE sta \/ stx \/ sty
  <2>1. inst.exec \in {"sta", "stx", "sty"}
    BY <1>3 DEF sta, stx, sty, Executes
  <2>. QED
    BY <1>1, <2>1 DEF Strobes
<1>. QED
  BY <1>1, <1>2, <1>3, OnlyWriters

LEMMA TimerInit == LoopInit => TM!Init
<1>. SUFFICES ASSUME LoopInit PROVE TM!Init
  OBVIOUS
<1>1. PICK file \in Carts : mem = LoadCartridge(file)
  BY DEF LoopInit, Init
<1>2. INTIM \notin CARMEM_START..(CARMEM_END - 1)
  BY SMT DEF INTIM, CARMEM_START, CARMEM_END
<1>3. Fetch(mem, INTIM) = 0
  BY <1>1, <1>2 DEF LoadCartridge, Fetch
<1>4. STATUS_Z \notin P
  BY SMT DEF LoopInit, Init, STATUS_Z, UNUSED
<1>. QED
  BY <1>3, <1>4 DEF LoopInit, Init, TM!Init

LEMMA TimerStep ==
    ASSUME TypeOK, [LoopNext]_loopVars
    PROVE  [TM!Next]_TM!vars
<1>1. CASE run_cpu
  <2>1. Next /\ Remember
    BY <1>1 DEF run_cpu, Next
  <2>2. TypeOK'
    BY <2>1, NextType
  <2>3. Fetch(mem', INTIM) \in Byte
    BY <2>2, FetchCell DEF TypeOK
  <2>4. (STATUS_Z \in P)' \in BOOLEAN
    OBVIOUS
  <2>5. CASE Strobes
    <3>1. TimerNumber(addr) \in TimerNumbers
      BY TimerNumberType
    <3>2. loaded' = Fetch(mem', INTIM) /\ elapsed' = 0 /\ vacant' = 0 /\ intact' = TRUE
      BY <2>1, <2>5 DEF Remember
    <3>3. TM!set_timer(Fetch(mem', INTIM), TimerNumber(addr))
      BY <2>1, <2>4, <2>5, <3>2, StrobeSets DEF TM!set_timer
    <3>. QED
      BY <2>3, <3>1, <3>3 DEF TM!Next
  <2>6. CASE ~Strobes
    <3>1. UNCHANGED timer
      BY <2>1, <2>6, OthersLeaveTimer
    <3>2. IF Fetch(mem', INTIM) = Fetch(mem, INTIM)
          THEN UNCHANGED <<loaded, elapsed, vacant, intact>>
          ELSE loaded' = 0 /\ elapsed' = 0 /\ vacant' = 0 /\ intact' = FALSE
      BY <2>1, <2>6 DEF Remember, history
    <3>3. TM!OtherInstruction
      BY <2>3, <2>4, <3>1, <3>2 DEF TM!OtherInstruction, timer
    <3>. QED
      BY <3>3 DEF TM!Next
  <2>. QED
    BY <2>5, <2>6
<1>2. CASE run_pia
  <2>1. PICK m : IsMemory(m) /\ Fetch(m, INTIM) = Interval /\ cnt_timer(m)
    BY <1>2, PiaCounts
  <2>2. Fetch(mem', INTIM) = IF Decrements THEN Interval - 1 ELSE Interval
    BY <2>1, PutReads DEF cnt_timer
  <2>3. (STATUS_Z \in P') = (STATUS_Z \in P \/ (Decrements /\ Interval = 1))
    BY <2>1 DEF cnt_timer
  <2>4. cycles \in 0..MostCycles
    BY DEF TypeOK, MostCycles
  <2>5. TM!cnt_timer(cycles)
    <3>1. UNCHANGED <<timer_number, loaded, intact>>
      BY <2>1 DEF cnt_timer
    <3>2. CASE ~(Interval > 0)
      <4>1. Fetch(mem, INTIM) = 0
        BY <3>2, FetchCell, InByte, SMT DEF Interval, TypeOK
      <4>. QED
        BY <2>1, <2>2, <2>3, <3>1, <3>2, <4>1 DEF Interval, Decrements, Counts, cnt_timer, TM!cnt_timer, TM!vars
    <3>3. CASE Interval > 0 /\ timer_cycles < cycles
      <4>1. ~(timer_cycles >= cycles) /\ cycles # 0
        BY <3>3, <2>4, InTimer, SMT DEF TypeOK, MostCycles
      <4>2. Counts /\ Decrements
        BY <3>3 DEF Interval, Decrements, Counts
      <4>3. UNCHANGED <<timer_cycles, vacant>>
        BY <2>1, <4>1 DEF cnt_timer
      <4>4. elapsed' = IF intact THEN elapsed + cycles ELSE 0
        BY <2>1, <4>2 DEF cnt_timer
      <4>5. TM!dec_interval
        BY <2>2, <2>3, <4>2 DEF Interval, TM!dec_interval
      <4>. QED
        BY <3>1, <3>3, <4>3, <4>4, <4>5 DEF Interval, TM!cnt_timer
    <3>4. CASE Interval > 0 /\ timer_cycles >= cycles
      <4>1. ~(timer_cycles < cycles)
        BY <3>4, <2>4, InTimer, SMT DEF TypeOK, MostCycles
      <4>2. Counts
        BY <3>4 DEF Counts
      <4>3. timer_cycles' = timer_cycles - cycles
        BY <2>1, <3>4, <4>2 DEF cnt_timer
      <4>4. Decrements <=> timer_cycles' % timer_number = 0
        BY <4>1, <4>2, <4>3 DEF Decrements
      <4>5. IF timer_cycles' % timer_number = 0
            THEN TM!dec_interval
            ELSE Fetch(mem', INTIM) = Fetch(mem, INTIM) /\ (STATUS_Z \in P') = (STATUS_Z \in P)
        BY <2>2, <2>3, <4>4 DEF Interval, TM!dec_interval
      <4>6. elapsed' = IF intact THEN elapsed + cycles ELSE 0
        BY <2>1, <4>2 DEF cnt_timer
      <4>7. cycles = 0 => timer_cycles - cycles = timer_cycles
        BY InTimer, SMT DEF TypeOK
      <4>8. cycles = 0 => (Decrements <=> timer_cycles % timer_number = 0)
        BY <4>3, <4>4, <4>7
      <4>9. vacant' = IF intact /\ TM!TakesNoTime(cycles) THEN vacant + 1 ELSE vacant
        BY <2>1, <4>8 DEF cnt_timer, TM!TakesNoTime
      <4>. QED
        BY <3>1, <3>4, <4>3, <4>5, <4>6, <4>9 DEF Interval, TM!cnt_timer
    <3>. QED
      BY <3>2, <3>3, <3>4, <2>4, InTimer, SMT DEF TypeOK, MostCycles
  <2>. QED
    BY <2>4, <2>5 DEF TM!Next
<1>3. CASE scan_clock \/ run_tia \/ quit \/ UNCHANGED loopVars
  <2>1. UNCHANGED <<mem, P, timer_cycles, timer_number, loaded, elapsed, vacant, intact>>
    BY <1>3 DEF scan_clock, run_tia, quit, loopVars, vars, history
  <2>. QED
    BY <2>1 DEF TM!vars
<1>. QED
  BY <1>1, <1>2, <1>3 DEF LoopNext

(***************************************************************************)
(* The cell INTIM and the flag Z behave as the timer of PiaTimer whatever  *)
(* the program does to them: what is proved of PiaTimer holds of the       *)
(* timer a program sees.                                                   *)
(***************************************************************************)
THEOREM LoopImplementsTimer == LoopSpec => TimerImplemented
<1>1. TypeOK /\ [LoopNext]_loopVars => [TM!Next]_TM!vars
  BY TimerStep
<1>. QED
  BY <1>1, TimerInit, ProcessorType, PTL DEF LoopSpec, TimerImplemented, TM!Spec

LEMMA SameTimerInit == TM!Init <=> TMP!Init
BY DEF TM!Init, TMP!Init

LEMMA SameTimerStep == [TM!Next]_TM!vars <=> [TMP!Next]_TMP!vars
BY DEF TM!Next, TMP!Next, TM!vars, TMP!vars, TM!cnt_timer, TMP!cnt_timer,
       TM!set_timer, TMP!set_timer, TM!OtherInstruction, TMP!OtherInstruction,
       TM!dec_interval, TMP!dec_interval, TM!TakesNoTime, TMP!TakesNoTime

(***************************************************************************)
(* The timer a program sees is early only by the intervals that vacant     *)
(* opcodes take off, and late by at most an instruction for each interval, *)
(* as long as the program leaves INTIM alone.                              *)
(***************************************************************************)
THEOREM LoopKeepsTime == LoopSpec => [](TM!NeverEarly /\ TM!LatenessBounded)
<1>1. LoopInit => TMP!Init
  BY TimerInit, SameTimerInit
<1>2. TypeOK /\ [LoopNext]_loopVars => [TMP!Next]_TMP!vars
  BY TimerStep, SameTimerStep
<1>3. LoopSpec => TMP!Spec
  BY <1>1, <1>2, ProcessorType, PTL DEF LoopSpec, TMP!Spec
<1>4. LoopSpec => [](TMP!NeverEarly /\ TMP!LatenessBounded)
  BY <1>3, TimerFits, TMP!TimerNeverEarly, TMP!TimerLateness, PTL
<1>5. TMP!NeverEarly /\ TMP!LatenessBounded => TM!NeverEarly /\ TM!LatenessBounded
  BY DEF TMP!NeverEarly, TM!NeverEarly, TMP!LatenessBounded, TM!LatenessBounded, TMP!Total, TM!Total
<1>. QED
  BY <1>4, <1>5, PTL

(* ---------------- Type correctness of the whole loop ------------------- *)

LEMMA PictureTypeInit == T!Init => T!TypeOK
BY RasterFits, SamePictureInit, SamePictureType, TP!InitType

LEMMA PictureTypeNext == T!TypeOK /\ [LoopNext]_loopVars => T!TypeOK'
<1>1. T!TypeOK' <=> TP!TypeOK'
  BY DEF T!TypeOK, TP!TypeOK
<1>. QED
  BY <1>1, TiaStep, RasterFits, SamePictureType, SamePictureStep, TP!NextType

LEMMA ProductNat == ASSUME NEW a \in Nat, NEW n \in Nat PROVE a * n \in Nat
BY SMT

LEMMA FramePositive == Frame \in Nat \ {0}
<1>1. TOTAL_WIDTH + 1 \in Nat /\ TOTAL_HEIGHT + 1 \in Nat /\ TOTAL_WIDTH + 1 >= 1 /\ TOTAL_HEIGHT + 1 >= 1
  BY RasterAssumption, SMT DEF T!RasterAssumption
<1>. QED
  BY <1>1, SMT DEF Frame

LEMMA CountedType ==
    ASSUME NEW c \in 0..(Frame - 1), NEW n \in Nat
    PROVE  Counted(c, n) \in 0..(Frame - 1)
<1>1. c \in Int /\ c + n \in Int
  BY FramePositive, SMT
<1>. QED
  BY <1>1, FramePositive, SMT DEF Counted

LEMMA LoopTypeInit == LoopInit => LoopTypeOK
<1>. SUFFICES ASSUME LoopInit PROVE LoopTypeOK
  OBVIOUS
<1>1. TypeOK /\ T!TypeOK
  BY InitType, PictureTypeInit DEF LoopInit
<1>2. 0 \in 0..(Frame - 1) /\ 0 \in 0..(3 * MostCycles) /\ 0 \in Nat
  BY FramePositive, SMT DEF MostCycles
<1>. QED
  BY <1>1, <1>2, Widths DEF LoopInit, LoopTypeOK

LEMMA ClocksType == \A c \in 0..9 : c \in Nat /\ 3 * c \in 0..(3 * MostCycles)
BY SMT DEF MostCycles

(* The conjuncts of LoopTypeOK about the variables of MainLoop itself. *)
LoopVarsOK ==
    /\ phase \in {"cpu", "tia", "pia", "exited"}
    /\ clocks \in 0..(3 * MostCycles)
    /\ MACHINE_CYCLES \in 0..(Frame - 1) /\ COLOR_CLOCKS \in 0..(Frame - 1)
    /\ PIA_CYCLES \in 0..(Frame - 1)
    /\ loaded \in Byte /\ elapsed \in Nat /\ vacant \in Nat /\ intact \in BOOLEAN

LEMMA LoopTypeNext == LoopTypeOK /\ [LoopNext]_loopVars => LoopTypeOK'
<1>. SUFFICES ASSUME LoopTypeOK, [LoopNext]_loopVars PROVE LoopTypeOK'
  OBVIOUS
<1>1. TypeOK' /\ T!TypeOK'
  BY LoopNextType, PictureTypeNext DEF LoopTypeOK
<1>2. LoopVarsOK
  BY DEF LoopTypeOK, LoopVarsOK
<1>3. cycles \in Nat /\ 3 * cycles \in Nat
  BY SMT DEF LoopTypeOK, TypeOK
<1>4. LoopVarsOK'
  <2>1. CASE run_cpu
    <3>1. Fetch(mem', INTIM) \in Byte
      BY <1>1, FetchCell DEF TypeOK
    <3>2. loaded' \in Byte /\ elapsed' \in Nat /\ vacant' \in Nat /\ intact' \in BOOLEAN
      <4>1. Remember /\ 0 \in Nat
        BY <2>1 DEF run_cpu
      <4>2. CASE Strobes
        BY <3>1, <4>1, <4>2 DEF Remember
      <4>3. CASE ~Strobes
        BY <1>2, <4>1, <4>3, Widths DEF Remember, history, LoopVarsOK
      <4>. QED
        BY <4>2, <4>3
    <3>3. cycles' \in 0..9
      BY <1>1 DEF TypeOK
    <3>4. CASE status' = "crashed"
      BY <1>2, <2>1, <3>2, <3>4 DEF run_cpu, counters, LoopVarsOK
    <3>5. CASE status' # "crashed"
      <4>1. cycles' \in Nat /\ 3 * cycles' \in 0..(3 * MostCycles)
        BY <3>3, ClocksType
      <4>2. MACHINE_CYCLES' \in 0..(Frame - 1)
        BY <1>2, <2>1, <3>5, <4>1, CountedType DEF run_cpu, LoopVarsOK
      <4>. QED
        BY <1>2, <2>1, <3>2, <3>5, <4>1, <4>2 DEF run_cpu, LoopVarsOK
    <3>. QED
      BY <3>4, <3>5
  <2>2. CASE scan_clock
    <3>1. clocks' \in 0..(3 * MostCycles)
      BY <1>2, <2>2, SMT DEF scan_clock, LoopVarsOK, MostCycles
    <3>. QED
      BY <1>2, <2>2, <3>1 DEF scan_clock, counters, history, LoopVarsOK
  <2>3. CASE run_tia
    <3>1. COLOR_CLOCKS' \in 0..(Frame - 1)
      BY <1>2, <1>3, <2>3, CountedType DEF run_tia, LoopVarsOK
    <3>. QED
      BY <1>2, <2>3, <3>1 DEF run_tia, history, LoopVarsOK
  <2>4. CASE run_pia
    <3>1. PIA_CYCLES' \in 0..(Frame - 1)
      BY <1>2, <1>3, <2>4, CountedType DEF run_pia, LoopVarsOK
    <3>2. loaded' \in Byte /\ elapsed' \in Nat /\ vacant' \in Nat /\ intact' \in BOOLEAN
      <4>1. PICK m : cnt_timer(m)
        BY <2>4 DEF run_pia
      <4>2. elapsed + cycles \in Nat /\ vacant + 1 \in Nat /\ 0 \in Nat
        BY <1>2, <1>3, SMT DEF LoopVarsOK
      <4>. QED
        BY <1>2, <4>1, <4>2 DEF cnt_timer, LoopVarsOK
    <3>. QED
      BY <1>2, <2>4, <3>1, <3>2 DEF run_pia, LoopVarsOK
  <2>5. CASE quit
    BY <1>2, <2>5 DEF quit, counters, history, LoopVarsOK
  <2>6. CASE UNCHANGED loopVars
    BY <1>2, <2>6 DEF loopVars, counters, history, LoopVarsOK
  <2>. QED
    BY <2>1, <2>2, <2>3, <2>4, <2>5, <2>6 DEF LoopNext
<1>. QED
  BY <1>1, <1>4 DEF LoopTypeOK, LoopVarsOK

(***************************************************************************)
(* Type correctness of the composition: the counters of main.c, tia.c and  *)
(* pia.c stay in range, and an instruction never leaves more color clocks  *)
(* to scan than those of its longest form.                                 *)
(***************************************************************************)
THEOREM LoopTypeCorrect == LoopSpec => []LoopTypeOK
<1>. QED
  BY LoopTypeInit, LoopTypeNext, PTL DEF LoopSpec

(* -------------------------- Remainders --------------------------------- *)

LEMMA Quotient ==
    ASSUME NEW n \in Nat \ {0}, NEW x \in Int
    PROVE  /\ (x \div n) \in Int /\ (x % n) \in Int
           /\ x = ((x \div n) * n) + (x % n)
           /\ 0 <= (x % n) /\ (x % n) < n
BY SMT

LEMMA ProductMonotone ==
    ASSUME NEW a \in Int, NEW b \in Int, NEW n \in Nat, a <= b
    PROVE  a * n <= b * n
BY SMT

(* The remainder is the only number below n that differs from x by a       *)
(* multiple of n.                                                          *)
LEMMA OneRemainder ==
    ASSUME NEW n \in Nat \ {0}, NEW x \in Int, NEW k \in Int, NEW r \in Int,
           x = (k * n) + r, 0 <= r, r < n
    PROVE  (x % n) = r
<1>. DEFINE q == x \div n
<1>1. /\ q \in Int /\ (x % n) \in Int /\ x = (q * n) + (x % n) /\ 0 <= (x % n) /\ (x % n) < n
      /\ q * n \in Int /\ k * n \in Int /\ n \in Nat
  BY Quotient, SMT
<1>2. CASE q + 1 <= k
  <2>1. (q + 1) * n <= k * n
    BY <1>1, <1>2, ProductMonotone, SMT
  <2>2. (q + 1) * n = (q * n) + n
    BY <1>1, SMT
  <2>. QED
    BY <1>1, <2>1, <2>2, SMT
<1>3. CASE k + 1 <= q
  <2>1. (k + 1) * n <= q * n
    BY <1>1, <1>3, ProductMonotone, SMT
  <2>2. (k + 1) * n = (k * n) + n
    BY <1>1, SMT
  <2>. QED
    BY <1>1, <2>1, <2>2, SMT
<1>4. CASE q = k
  BY <1>1, <1>4, SMT
<1>. QED
  BY <1>1, <1>2, <1>3, <1>4, SMT

LEMMA Distributes ==
    ASSUME NEW n \in Int, NEW a \in Int, NEW b \in Int, NEW r \in Int
    PROVE  ((a * n) + r) + (b * n) = ((a + b) * n) + r
BY SMT

LEMMA MultipleDrops ==
    ASSUME NEW n \in Nat \ {0}, NEW x \in Int, NEW k \in Int
    PROVE  ((x + (k * n)) % n) = (x % n)
<1>1. PICK q \in Int, r \in Int : r = (x % n) /\ x = (q * n) + r /\ 0 <= r /\ r < n
  BY Quotient
<1>2. x + (k * n) = ((q + k) * n) + r
  BY <1>1, Distributes, SMT
<1>3. x + (k * n) \in Int /\ q + k \in Int
  BY <1>1, SMT
<1>. QED
  BY <1>1, <1>2, <1>3, OneRemainder

LEMMA AddRemainder ==
    ASSUME NEW n \in Nat \ {0}, NEW x \in Int, NEW y \in Int
    PROVE  (((x % n) + y) % n) = ((x + y) % n)
<1>1. PICK q \in Int, r \in Int : r = (x % n) /\ x = (q * n) + r
  BY Quotient
<1>2. x + y = (r + y) + (q * n) /\ r + y \in Int
  BY <1>1, SMT
<1>3. (((r + y) + (q * n)) % n) = ((r + y) % n)
  BY <1>1, <1>2, MultipleDrops
<1>. QED
  BY <1>1, <1>2, <1>3

LEMMA TripleRemainder ==
    ASSUME NEW n \in Nat \ {0}, NEW x \in Int
    PROVE  ((3 * (x % n)) % n) = ((3 * x) % n)
<1>1. PICK q \in Int, r \in Int : r = (x % n) /\ x = (q * n) + r
  BY Quotient
<1>2. 3 * x = (3 * r) + ((3 * q) * n) /\ 3 * q \in Int /\ 3 * r \in Int
  BY <1>1, SMT
<1>3. (((3 * r) + ((3 * q) * n)) % n) = ((3 * r) % n)
  BY <1>1, <1>2, MultipleDrops
<1>. QED
  BY <1>1, <1>2, <1>3

(* -------------------------- The beam ----------------------------------- *)

(* Clocks are left to scan in the turn of the TIA only, and within a turn  *)
(* each counter lacks the cycles of the instruction until its part is over. *)
BeamInv ==
    /\ phase # "tia" => clocks = 0
    /\ phase \in {"cpu", "pia"} => COLOR_CLOCKS = (3 * MACHINE_CYCLES) % Frame
    /\ phase = "tia" => (COLOR_CLOCKS + (3 * cycles)) % Frame = (3 * MACHINE_CYCLES) % Frame
    /\ phase = "cpu" => PIA_CYCLES = MACHINE_CYCLES
    /\ phase \in {"tia", "pia"} => (PIA_CYCLES + cycles) % Frame = MACHINE_CYCLES

LEMMA SmallRemainder ==
    ASSUME NEW n \in Nat \ {0}, NEW x \in Int, 0 <= x, x < n
    PROVE  (x % n) = x
<1>1. x = (0 * n) + x /\ 0 \in Int
  BY SMT
<1>. QED
  BY <1>1, OneRemainder

LEMMA LineStart == ASSUME NEW v \in Int, NEW n \in Int PROVE (v + 1) * n = (v * n) + n
BY SMT

LEMMA FrameIs == Frame = (TOTAL_HEIGHT * (TOTAL_WIDTH + 1)) + (TOTAL_WIDTH + 1)
<1>1. TOTAL_WIDTH \in Int /\ TOTAL_HEIGHT \in Int
  BY RasterAssumption, SMT DEF T!RasterAssumption
<1>. QED
  BY <1>1, SMT DEF Frame

LEMMA PositionType == ASSUME T!TypeOK PROVE Position \in Int
<1>1. vi \in Int /\ hi \in Int /\ TOTAL_WIDTH + 1 \in Int
  BY RasterAssumption, SMT DEF T!RasterAssumption, T!TypeOK
<1>. QED
  BY <1>1, SMT DEF Position

(* A color clock that writes over neither hi nor vi moves the beam by one  *)
(* position.                                                               *)
LEMMA BeamStep ==
    ASSUME T!TypeOK, T!tia_exec, ~(T!isonscreen /\ (T!Clobbers(0) \/ T!Clobbers(1)))
    PROVE  Position' = Position + 1 \/ Position' = (Position + 1) - Frame
<1>1. T!Scan(hi, vi)
  BY DEF T!tia_exec, T!Over
<1>2. /\ vi \in Int /\ 0 <= vi /\ vi <= TOTAL_HEIGHT /\ hi \in Int /\ 0 <= hi /\ hi <= TOTAL_WIDTH
      /\ TOTAL_WIDTH + 1 \in Int /\ TOTAL_WIDTH \in Int /\ TOTAL_HEIGHT \in Int
  BY RasterAssumption, SMT DEF T!RasterAssumption, T!TypeOK
<1>3. CASE hi < TOTAL_WIDTH
  <2>1. hi' = hi + 1 /\ vi' = vi
    BY <1>1, <1>2, <1>3, SMT DEF T!Scan, T!Advanced, T!Carries
  <2>2. vi * (TOTAL_WIDTH + 1) \in Int
    BY <1>2, SMT
  <2>. QED
    BY <1>2, <2>1, <2>2, SMT DEF Position
<1>4. CASE hi = TOTAL_WIDTH /\ vi < TOTAL_HEIGHT
  <2>1. hi' = 0 /\ vi' = vi + 1
    BY <1>1, <1>2, <1>4, SMT DEF T!Scan, T!Advanced, T!Carries
  <2>2. (vi + 1) * (TOTAL_WIDTH + 1) = (vi * (TOTAL_WIDTH + 1)) + (TOTAL_WIDTH + 1)
    BY <1>2, LineStart
  <2>3. vi * (TOTAL_WIDTH + 1) \in Int
    BY <1>2, SMT
  <2>. QED
    BY <1>2, <1>4, <2>1, <2>2, <2>3, SMT DEF Position
<1>5. CASE hi = TOTAL_WIDTH /\ vi = TOTAL_HEIGHT
  <2>1. hi' = 0 /\ vi' = 0
    BY <1>1, <1>2, <1>5, SMT DEF T!Scan, T!Advanced, T!Carries
  <2>2. TOTAL_HEIGHT * (TOTAL_WIDTH + 1) \in Int
    BY <1>2, SMT
  <2>3. 0 * (TOTAL_WIDTH + 1) = 0
    BY <1>2, SMT
  <2>. QED
    BY <1>2, <1>5, <2>1, <2>2, <2>3, FrameIs, SMT DEF Position
<1>. QED
  BY <1>2, <1>3, <1>4, <1>5, SMT

LEMMA BeamInit == LoopInit => BeamInv /\ Drift = 0
<1>. SUFFICES ASSUME LoopInit PROVE BeamInv /\ Drift = 0
  OBVIOUS
<1>1. (0 % Frame) = 0
  BY FramePositive, SmallRemainder, SMT
<1>2. Position = 0
  BY RasterAssumption, SMT DEF T!RasterAssumption, LoopInit, T!Init, Position
<1>3. MACHINE_CYCLES = 0 /\ COLOR_CLOCKS = 0 /\ PIA_CYCLES = 0 /\ clocks = 0 /\ phase = "cpu"
  BY DEF LoopInit
<1>4. 3 * 0 = 0 /\ 0 + 0 - (3 * 0) = 0
  BY SMT
<1>. QED
  BY <1>1, <1>2, <1>3, <1>4 DEF BeamInv, Drift

(* Three clocks for every cycle, on either side of a remainder. *)
LEMMA DueAdvances ==
    ASSUME NEW n \in Nat \ {0}, NEW m \in Int, NEW c \in Int
    PROVE  ((3 * ((m + c) % n)) % n) = ((((3 * m) % n) + (3 * c)) % n)
<1>1. m + c \in Int /\ 3 * m \in Int /\ 3 * c \in Int /\ 3 * (m + c) = (3 * m) + (3 * c)
  BY SMT
<1>2. ((3 * ((m + c) % n)) % n) = ((3 * (m + c)) % n)
  BY <1>1, TripleRemainder
<1>3. ((((3 * m) % n) + (3 * c)) % n) = (((3 * m) + (3 * c)) % n)
  BY <1>1, AddRemainder
<1>. QED
  BY <1>1, <1>2, <1>3

(* The clocks of an instruction and its cycles cancel out. *)
LEMMA DriftAdvances ==
    ASSUME NEW n \in Nat \ {0}, NEW x \in Int, NEW m \in Int, NEW c \in Int
    PROVE  ((x + (3 * c) - (3 * ((m + c) % n))) % n) = ((x - (3 * m)) % n)
<1>1. m + c \in Int
  BY SMT
<1>2. PICK q \in Int, r \in Int : r = ((m + c) % n) /\ m + c = (q * n) + r
  BY <1>1, Quotient
<1>3. PICK d \in Int : d = q * n /\ m + c = d + r
  BY <1>2, SMT
<1>4. (3 * q) * n = 3 * d
  BY <1>3, SMT
<1>5. x + (3 * c) - (3 * r) = (x - (3 * m)) + (3 * d)
  BY <1>3, SMT
<1>6. x - (3 * m) \in Int /\ 3 * q \in Int
  BY SMT
<1>7. (((x - (3 * m)) + ((3 * q) * n)) % n) = ((x - (3 * m)) % n)
  BY <1>6, MultipleDrops
<1>. QED
  BY <1>2, <1>4, <1>5, <1>7

LEMMA CounterInt ==
    ASSUME LoopTypeOK
    PROVE  /\ cycles \in Int /\ clocks \in Int /\ Frame \in Nat \ {0} /\ Frame \in Int
           /\ MACHINE_CYCLES \in Int /\ COLOR_CLOCKS \in Int /\ PIA_CYCLES \in Int
           /\ T!TypeOK /\ Position \in Int
           /\ phase \in {"cpu", "tia", "pia", "exited"}
<1>1. cycles \in Int /\ clocks \in Int
  BY SMT DEF LoopTypeOK, TypeOK, MostCycles
<1>2. Frame \in Int
  BY FramePositive, SMT
<1>3. MACHINE_CYCLES \in Int /\ COLOR_CLOCKS \in Int /\ PIA_CYCLES \in Int
  BY <1>2, SMT DEF LoopTypeOK
<1>. QED
  BY <1>1, <1>2, <1>3, FramePositive, PositionType DEF LoopTypeOK

LEMMA BeamNext ==
    ASSUME LoopTypeOK, BeamInv, [LoopNext]_loopVars
    PROVE  /\ BeamInv'
           /\ Drift' # Drift => T!isonscreen /\ (T!Clobbers(0) \/ T!Clobbers(1))
<1>1. LoopTypeOK'
  BY LoopTypeNext
<1>2. ASSUME UNCHANGED <<picture, clocks, MACHINE_CYCLES>> PROVE Drift' = Drift
  BY <1>2 DEF picture, Position, Drift
<1>3. CASE run_cpu /\ status' = "crashed"
  <2>1. /\ phase = "cpu" /\ phase' = "cpu"
        /\ UNCHANGED <<picture, clocks, MACHINE_CYCLES, COLOR_CLOCKS, PIA_CYCLES>>
    BY <1>3 DEF run_cpu, counters
  <2>. QED
    BY <1>2, <2>1 DEF BeamInv, Frame
<1>4. CASE run_cpu /\ status' # "crashed"
  <2>1. /\ phase = "cpu" /\ phase' = "tia" /\ clocks' = 3 * cycles' /\ UNCHANGED picture
        /\ UNCHANGED <<COLOR_CLOCKS, PIA_CYCLES>>
        /\ MACHINE_CYCLES' = (MACHINE_CYCLES + cycles') % Frame
    BY <1>4 DEF run_cpu, Counted
  <2>2. cycles' \in Int
    BY <1>1, SMT DEF LoopTypeOK, TypeOK
  <2>3. /\ clocks = 0 /\ COLOR_CLOCKS = (3 * MACHINE_CYCLES) % Frame /\ PIA_CYCLES = MACHINE_CYCLES
    BY <2>1 DEF BeamInv
  <2>4. (COLOR_CLOCKS' + (3 * cycles')) % Frame = (3 * MACHINE_CYCLES') % Frame
    BY <2>1, <2>2, <2>3, CounterInt, DueAdvances
  <2>5. (PIA_CYCLES' + cycles') % Frame = MACHINE_CYCLES'
    BY <2>1, <2>3
  <2>6. Drift' = Drift
    <3>1. Position' = Position
      BY <2>1 DEF picture, Position
    <3>2. Drift' = (Position + (3 * cycles') - (3 * ((MACHINE_CYCLES + cycles') % Frame))) % Frame
      BY <2>1, <3>1 DEF Drift, Frame
    <3>3. Position + (clocks - (3 * MACHINE_CYCLES)) = Position - (3 * MACHINE_CYCLES)
      BY <2>3, CounterInt, SMT
    <3>4. Drift = (Position - (3 * MACHINE_CYCLES)) % Frame
      BY <3>3 DEF Drift
    <3>. QED
      BY <2>2, <3>2, <3>4, CounterInt, DriftAdvances
  <2>. QED
    BY <2>1, <2>4, <2>5, <2>6 DEF BeamInv, Frame
<1>5. CASE scan_clock
  <2>1. /\ phase = "tia" /\ phase' = "tia" /\ clocks' = clocks - 1 /\ T!tia_exec
        /\ UNCHANGED <<MACHINE_CYCLES, COLOR_CLOCKS, PIA_CYCLES, cycles>>
    BY <1>5 DEF scan_clock, vars, counters
  <2>2. BeamInv'
    BY <2>1 DEF BeamInv, Frame
  <2>3. ASSUME ~(T!isonscreen /\ (T!Clobbers(0) \/ T!Clobbers(1))) PROVE Drift' = Drift
    <3>1. Drift' = (Position' + (clocks - 1) - (3 * MACHINE_CYCLES)) % Frame
      BY <2>1 DEF Drift, Frame
    <3>2. CASE Position' = Position + 1
      <4>1. Position' + (clocks - 1) - (3 * MACHINE_CYCLES) = Position + clocks - (3 * MACHINE_CYCLES)
        BY <3>2, CounterInt, SMT
      <4>. QED
        BY <3>1, <4>1 DEF Drift
    <3>3. CASE Position' = (Position + 1) - Frame
      <4>1. Position' + (clocks - 1) - (3 * MACHINE_CYCLES)
              = (Position + clocks - (3 * MACHINE_CYCLES)) + ((-1) * Frame)
        BY <3>3, CounterInt, SMT
      <4>2. Position + clocks - (3 * MACHINE_CYCLES) \in Int /\ -1 \in Int
        BY CounterInt, SMT
      <4>. QED
        BY <3>1, <4>1, <4>2, CounterInt, MultipleDrops DEF Drift
    <3>. QED
      BY <2>1, <2>3, <3>2, <3>3, BeamStep, CounterInt
  <2>. QED
    BY <2>2, <2>3
<1>6. CASE run_tia
  <2>1. /\ phase = "tia" /\ phase' = "pia" /\ clocks = 0 /\ clocks' = clocks
        /\ UNCHANGED <<picture, MACHINE_CYCLES, PIA_CYCLES, cycles>>
        /\ COLOR_CLOCKS' = (COLOR_CLOCKS + (3 * cycles)) % Frame
    BY <1>6 DEF run_tia, vars, Counted
  <2>. QED
    BY <1>2, <2>1 DEF BeamInv, Frame
<1>7. CASE run_pia
  <2>1. /\ phase = "pia" /\ phase' = "cpu"
        /\ UNCHANGED <<picture, clocks, MACHINE_CYCLES, COLOR_CLOCKS>>
        /\ PIA_CYCLES' = (PIA_CYCLES + cycles) % Frame
    BY <1>7 DEF run_pia, Counted
  <2>. QED
    BY <1>2, <2>1 DEF BeamInv, Frame
<1>8. CASE quit
  <2>1. phase = "pia" /\ phase' = "exited" /\ UNCHANGED <<picture, clocks, MACHINE_CYCLES>>
    BY <1>8 DEF quit, counters
  <2>. QED
    BY <1>2, <2>1 DEF BeamInv
<1>9. CASE UNCHANGED loopVars
  <2>1. UNCHANGED <<picture, phase, clocks, cycles, MACHINE_CYCLES, COLOR_CLOCKS, PIA_CYCLES>>
    BY <1>9 DEF loopVars, vars, counters
  <2>. QED
    BY <1>2, <2>1 DEF BeamInv, Frame
<1>. QED
  BY <1>3, <1>4, <1>5, <1>6, <1>7, <1>8, <1>9 DEF LoopNext

(***************************************************************************)
(* A program can place what it draws by counting cycles: the beam moves    *)
(* three clocks for each of them, and only a pixel written over the        *)
(* counters of the raster lets it drift; between instructions the three    *)
(* components have counted the same time.                                  *)
(***************************************************************************)
THEOREM BeamIsDue == LoopSpec => BeamFollowsClock
<1>1. LoopTypeOK /\ BeamInv /\ [LoopNext]_loopVars => LoopTypeOK' /\ BeamInv'
  BY LoopTypeNext, BeamNext
<1>2. LoopTypeOK /\ BeamInv /\ [LoopNext]_loopVars =>
        [Drift' # Drift => T!isonscreen /\ (T!Clobbers(0) \/ T!Clobbers(1))]_loopVars
  BY BeamNext
<1>3. BeamInv => (phase = "cpu" =>
                    COLOR_CLOCKS = (3 * MACHINE_CYCLES) % Frame /\ PIA_CYCLES = MACHINE_CYCLES)
  BY DEF BeamInv
<1>. QED
  BY <1>1, <1>2, <1>3, LoopTypeInit, BeamInit, PTL DEF LoopSpec, BeamFollowsClock

=============================================================================
