------------------------------ MODULE MainLoop ------------------------------
(***************************************************************************)
(* The loop of main() (main.c, lines 34-92): the processor, the picture,   *)
(* the input and the timer take turns on one address space.  After every   *)
(* instruction run_tia() scans three color clocks for each of its cycles   *)
(* with VSYNC and VBLANK as the program left them, then run_pia() handles  *)
(* the input and counts the cycles off the timer, in INTIM and P.          *)
(*                                                                         *)
(* The module composes Cpu with Tia, and implements PiaTimer on the cell   *)
(* INTIM and the flag Z.  The cycle counters are kept modulo the color     *)
(* clocks of one picture, Frame.                                           *)
(***************************************************************************)
EXTENDS Cpu, PiaInput

CONSTANTS
    VISIBLE_HEIGHT, VISIBLE_WIDTH,
    VSYNC_H, VBLANK_H, TOTAL_HEIGHT, HBLANK_W, TOTAL_WIDTH,
    PIXEL, BufferLayouts,        \* see Tia
    Keys                         \* the keys of the user

VARIABLES
    phase,                       \* whose turn it is; "exited" after exit()
    clocks,                      \* the color clocks run_tia() still has to scan
    MACHINE_CYCLES, COLOR_CLOCKS, PIA_CYCLES,
    hi, vi, ti, chi, cvi, cti, displayed, drawn, behind,    \* see Tia
    loaded, elapsed, vacant, intact                         \* see PiaTimer

VsyncOn  == 1 \in BitsOf(Fetch(mem, VSYNC))
VblankOn == 1 \in BitsOf(Fetch(mem, VBLANK))

T == INSTANCE Tia WITH vsync <- VsyncOn, vblank <- VblankOn, Layouts <- BufferLayouts

MostCycles == 9      \* of one instruction: at most 7 in the table and 2 more

TM == INSTANCE PiaTimer WITH
        INTIM <- Fetch(mem, INTIM), Z <- STATUS_Z \in P,
        Intervals <- Byte, Numbers <- TimerNumbers,
        Durations <- 0..MostCycles, Longest <- MostCycles

counters == <<MACHINE_CYCLES, COLOR_CLOCKS, PIA_CYCLES>>
picture  == <<hi, vi, ti, chi, cvi, cti, displayed, drawn, behind>>
history  == <<loaded, elapsed, vacant, intact>>
loopVars == <<vars, phase, clocks, counters, picture, history>>

(* The raster has the proportions that Tia needs. *)
ASSUME RasterAssumption == T!RasterAssumption

(* The raster has one clock and one line more than its totals say. *)
Frame == (TOTAL_WIDTH + 1) * (TOTAL_HEIGHT + 1)

Counted(counter, n) == (counter + n) % Frame

-----------------------------------------------------------------------------
LoopInit ==
    /\ Init
    /\ T!Init
    /\ phase = "cpu" /\ clocks = 0
    /\ MACHINE_CYCLES = 0 /\ COLOR_CLOCKS = 0 /\ PIA_CYCLES = 0
    /\ loaded = 0 /\ elapsed = 0 /\ vacant = 0 /\ intact = TRUE

(* The instruction goes through set_byte() on a timer register. *)
Strobes ==
    /\ inst.exec \in Writers /\ addr \in TimerRegs
    /\ inst.mode = "a" => inst.exec \in {"sta", "stx", "sty"}

Remember ==
    CASE Strobes -> /\ loaded' = Fetch(mem', INTIM)
                    /\ elapsed' = 0 /\ vacant' = 0 /\ intact' = TRUE
      [] ~Strobes /\ Fetch(mem', INTIM) # Fetch(mem, INTIM) ->
                    /\ loaded' = 0
                    /\ elapsed' = 0 /\ vacant' = 0 /\ intact' = FALSE
      [] OTHER -> UNCHANGED history

(* One instruction.  A null function ends the process before the rest of   *)
(* the turn.                                                               *)
run_cpu ==
    /\ phase = "cpu"
    /\ inst_exec
    /\ Remember
    /\ IF status' = "crashed"
       THEN UNCHANGED <<phase, clocks, counters>>
       ELSE /\ phase' = "tia" /\ clocks' = 3 * cycles'
            /\ MACHINE_CYCLES' = Counted(MACHINE_CYCLES, cycles')
            /\ UNCHANGED <<COLOR_CLOCKS, PIA_CYCLES>>
    /\ UNCHANGED picture

(* One color clock of the loop in run_tia(). *)
scan_clock ==
    /\ phase = "tia" /\ clocks > 0
    /\ UNCHANGED <<vars, phase, counters, history>>
    /\ clocks' = clocks - 1
    /\ T!tia_exec

(* Mutant of run_tia(): one clock is left over for the turn of the PIA.    *)
run_tia_OneShort ==
    /\ phase = "tia" /\ clocks <= 1
    /\ phase' = "pia" /\ clocks' = 0
    /\ COLOR_CLOCKS' = Counted(COLOR_CLOCKS, 3 * cycles)
    /\ UNCHANGED <<vars, MACHINE_CYCLES, PIA_CYCLES, picture, history>>

(* The rest of run_tia(). *)
run_tia ==
    /\ phase = "tia" /\ clocks = 0
    /\ phase' = "pia"
    /\ COLOR_CLOCKS' = Counted(COLOR_CLOCKS, 3 * cycles)
    /\ UNCHANGED <<vars, clocks, MACHINE_CYCLES, PIA_CYCLES, picture, history>>

Interval == Fetch(mem, INTIM)

(* Mutant of the first test of cnt_timer(): it is missing.                 *)
Counts_Always == TRUE

(* Mutant of the first test of cnt_timer(): too few cycles left are none.  *)
Counts_Waits == Interval > 0 /\ timer_cycles >= cycles

(* cnt_timer() goes on past its first return, and to dec_interval. *)
Counts == Interval > 0
Decrements ==
    Counts /\ (timer_cycles < cycles \/ (timer_cycles - cycles) % timer_number = 0)

(* Mutant of cnt_timer(): the flag is set one interval early.              *)
cnt_timer_FlagEarly(m) ==
    /\ mem' = IF Decrements THEN Put(m, INTIM, Interval - 1) ELSE m
    /\ P' = IF Decrements /\ Interval <= 2 THEN P \cup {STATUS_Z} ELSE P
    /\ timer_cycles' = IF Counts /\ timer_cycles >= cycles
                       THEN timer_cycles - cycles ELSE timer_cycles
    /\ elapsed' = IF ~Counts THEN elapsed ELSE IF intact THEN elapsed + cycles ELSE 0
    /\ vacant' = IF intact /\ Decrements /\ cycles = 0 THEN vacant + 1 ELSE vacant
    /\ UNCHANGED <<timer_number, loaded, intact>>

(* Mutant of cnt_timer(): the interval is stored one cell too high.        *)
cnt_timer_CellAbove(m) ==
    /\ mem' = IF Decrements THEN Put(m, INTIM + 1, Interval - 1) ELSE m
    /\ P' = IF Decrements /\ Interval = 1 THEN P \cup {STATUS_Z} ELSE P
    /\ timer_cycles' = IF Counts /\ timer_cycles >= cycles
                       THEN timer_cycles - cycles ELSE timer_cycles
    /\ elapsed' = IF ~Counts THEN elapsed ELSE IF intact THEN elapsed + cycles ELSE 0
    /\ vacant' = IF intact /\ Decrements /\ cycles = 0 THEN vacant + 1 ELSE vacant
    /\ UNCHANGED <<timer_number, loaded, intact>>

(* cnt_timer() on a memory m in which only the input has changed.          *)
cnt_timer(m) ==
    /\ mem' = IF Decrements THEN Put(m, INTIM, Interval - 1) ELSE m
    /\ P' = IF Decrements /\ Interval = 1 THEN P \cup {STATUS_Z} ELSE P
    /\ timer_cycles' = IF Counts /\ timer_cycles >= cycles
                       THEN timer_cycles - cycles ELSE timer_cycles
    /\ elapsed' = IF ~Counts THEN elapsed ELSE IF intact THEN elapsed + cycles ELSE 0
    /\ vacant' = IF intact /\ Decrements /\ cycles = 0 THEN vacant + 1 ELSE vacant
    /\ UNCHANGED <<timer_number, loaded, intact>>

(* handle_input() with an empty queue, or where the last joystick key of   *)
(* the queue was code; then the cycles are counted.                        *)
run_pia ==
    /\ phase = "pia"
    /\ \/ cnt_timer(mem)
       \/ \E code \in Keys : cnt_timer(pia_process_input(mem, code))
    /\ PIA_CYCLES' = Counted(PIA_CYCLES, cycles)
    /\ phase' = "cpu"
    /\ UNCHANGED <<A, X, Y, S, PC, cycles, status, past>>
    /\ UNCHANGED <<clocks, MACHINE_CYCLES, COLOR_CLOCKS, picture>>

(* handle_input() finds a request to quit and calls exit(). *)
quit ==
    /\ phase = "pia"
    /\ phase' = "exited"
    /\ UNCHANGED <<vars, clocks, counters, picture, history>>

LoopNext == run_cpu \/ scan_clock \/ run_tia \/ run_pia \/ quit

LoopSpec == LoopInit /\ [][LoopNext]_loopVars

(* One thread runs the loop, and nothing in it waits: a turn that can be   *)
(* taken is taken.                                                         *)
LoopFairness == WF_loopVars(LoopNext)

-----------------------------------------------------------------------------
(* Type correctness, of the parts and of what the loop adds.               *)
LoopTypeOK ==
    /\ TypeOK
    /\ T!TypeOK
    /\ phase \in {"cpu", "tia", "pia", "exited"}
    /\ clocks \in 0..(3 * MostCycles)
    /\ MACHINE_CYCLES \in 0..(Frame - 1) /\ COLOR_CLOCKS \in 0..(Frame - 1)
    /\ PIA_CYCLES \in 0..(Frame - 1)
    /\ loaded \in Byte /\ elapsed \in Nat /\ vacant \in Nat /\ intact \in BOOLEAN

(* How far the beam is from where the cycles of the program have moved it, *)
(* three clocks for each, but for those that run_tia() has still to scan.  *)
Position == (vi * (TOTAL_WIDTH + 1)) + hi
Drift == (Position + clocks - (3 * MACHINE_CYCLES)) % Frame

(* The beam follows the cycles of the program, whatever VSYNC and VBLANK   *)
(* are set to, and between instructions the three components have counted  *)
(* the same time.  A line takes one clock and a picture one line more than *)
(* tia.h, lines 12 and 16, says (see Tia, LineIsTotalWidth), but they do   *)
(* so always: only a pixel that is written over hi or vi, behind the frame *)
(* buffer (tia.c, lines 284, 285, 308), lets the beam drift.               *)
BeamFollowsClock ==
    /\ Drift = 0
    /\ [](phase = "cpu" => COLOR_CLOCKS = (3 * MACHINE_CYCLES) % Frame /\ PIA_CYCLES = MACHINE_CYCLES)
    /\ [][Drift' # Drift => T!isonscreen /\ (T!Clobbers(0) \/ T!Clobbers(1))]_loopVars

(* The cell INTIM and the flag Z, which the processor may change at every  *)
(* instruction, behave as the timer of PiaTimer.                           *)
TimerImplemented == TM!Spec

(* A program that runs on has its pictures displayed, if it leaves the     *)
(* screen on in the end, or if it switches it off and on for ever and a    *)
(* color clock on the screen meets it switched on again and again.         *)
PicturesKeepComing ==
    /\ []<>(phase = "tia")
    /\ \/ <>[](~VsyncOn /\ ~VblankOn)
       \/ []<>(phase = "tia" /\ clocks > 0 /\ T!isonscreen)
    => []<>displayed

=============================================================================
