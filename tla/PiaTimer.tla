------------------------------ MODULE PiaTimer ------------------------------
(***************************************************************************)
(* The interval timer (pia.c, set_timer() and cnt_timer()).  The program   *)
(* loads it by a store to one of the timer registers; after every          *)
(* instruction run_pia() counts the instruction's cycles, and the          *)
(* processor sees INTIM fall to 0 and its Z flag set.                      *)
(*                                                                         *)
(* Four history variables: what was loaded, how many cycles were counted   *)
(* since, until the timer expires, how many intervals were taken off by    *)
(* vacant opcodes, which count no cycles, and whether INTIM is intact,     *)
(* that is, has not been changed by a store or push of the program's own,  *)
(* which set_byte() and stack_push() allow.                                *)
(***************************************************************************)
EXTENDS Integers

CONSTANTS
    Intervals,      \* the bytes a program stores to a timer register or to INTIM
    Numbers,        \* the cycles of one interval: 1, 8, 64 or 1024
    Durations,      \* the cycles an instruction can take; 0 for vac()
    Longest         \* the cycles of the longest instruction

Byte == 0..255

(* What the proofs need of the constants.  A module that instantiates this *)
(* one proves it of the values it gives them.                              *)
TimerAssumption ==
    /\ Intervals \subseteq Byte
    /\ Numbers \subseteq Nat \ {0}
    /\ Longest \in Nat /\ Durations \subseteq 0..Longest

VARIABLES
    INTIM,                       \* the cell of mspace[]
    timer_cycles, timer_number,
    Z,                           \* STATUS_Z
    loaded, elapsed, vacant, intact

vars == <<INTIM, timer_cycles, timer_number, Z, loaded, elapsed, vacant, intact>>

Total == loaded * timer_number   \* the cycles the program asked for

Init ==
    /\ INTIM = 0
    /\ timer_cycles = 0 /\ timer_number = 1
    /\ Z = FALSE
    /\ loaded = 0 /\ elapsed = 0 /\ vacant = 0 /\ intact = TRUE

(* Mutant of set_timer(): counts with the interval set before.             *)
set_timer_OldNumber(intervals, number) ==
    /\ INTIM' = intervals
    /\ timer_number' = number
    /\ timer_cycles' = intervals * timer_number
    /\ loaded' = intervals /\ elapsed' = 0 /\ vacant' = 0 /\ intact' = TRUE
    /\ Z' \in BOOLEAN

(* Mutant of set_timer(): counts down from the end of one more interval.   *)
set_timer_OneMore(intervals, number) ==
    /\ INTIM' = intervals
    /\ timer_number' = number
    /\ timer_cycles' = (intervals + 1) * number
    /\ loaded' = intervals /\ elapsed' = 0 /\ vacant' = 0 /\ intact' = TRUE
    /\ Z' \in BOOLEAN

(* The instruction that stores may also be one that sets or clears Z.      *)
set_timer(intervals, number) ==
    /\ INTIM' = intervals
    /\ timer_number' = number
    /\ timer_cycles' = intervals * number
    /\ loaded' = intervals /\ elapsed' = 0 /\ vacant' = 0 /\ intact' = TRUE
    /\ Z' \in BOOLEAN

(* A vacant opcode that finds a whole number of intervals left takes one   *)
(* of them off.                                                            *)
TakesNoTime(cycles) == cycles = 0 /\ timer_cycles % timer_number = 0

dec_interval ==
    /\ INTIM' = INTIM - 1
    /\ Z' = (Z \/ INTIM = 1)

(* Mutant of cnt_timer(): the first early return is missing.               *)
cnt_timer_NoReturn(cycles) ==
    \/ /\ timer_cycles < cycles
       /\ dec_interval
       /\ elapsed' = IF intact THEN elapsed + cycles ELSE 0
       /\ UNCHANGED <<timer_cycles, timer_number, loaded, vacant, intact>>
    \/ /\ timer_cycles >= cycles
       /\ timer_cycles' = timer_cycles - cycles
       /\ IF timer_cycles' % timer_number = 0 THEN dec_interval ELSE UNCHANGED <<INTIM, Z>>
       /\ elapsed' = IF intact THEN elapsed + cycles ELSE 0
       /\ vacant' = IF intact /\ TakesNoTime(cycles) THEN vacant + 1 ELSE vacant
       /\ UNCHANGED <<timer_number, loaded, intact>>

(* Mutant of cnt_timer(): too few cycles left means nothing to count.      *)
cnt_timer_Waits(cycles) ==
    \/ /\ INTIM = 0 \/ timer_cycles < cycles
       /\ UNCHANGED vars
    \/ /\ INTIM > 0 /\ timer_cycles >= cycles
       /\ timer_cycles' = timer_cycles - cycles
       /\ IF timer_cycles' % timer_number = 0 THEN dec_interval ELSE UNCHANGED <<INTIM, Z>>
       /\ elapsed' = IF intact THEN elapsed + cycles ELSE 0
       /\ vacant' = IF intact /\ TakesNoTime(cycles) THEN vacant + 1 ELSE vacant
       /\ UNCHANGED <<timer_number, loaded, intact>>

(* An expired timer counts nothing.  When the instruction took more cycles *)
(* than are left, the interval counter goes down and the cycles stay;      *)
(* otherwise it goes down when a whole number of intervals is left.        *)
cnt_timer(cycles) ==
    \/ /\ INTIM = 0
       /\ UNCHANGED vars
    \/ /\ INTIM > 0 /\ timer_cycles < cycles
       /\ dec_interval
       /\ elapsed' = IF intact THEN elapsed + cycles ELSE 0
       /\ UNCHANGED <<timer_cycles, timer_number, loaded, vacant, intact>>
    \/ /\ INTIM > 0 /\ timer_cycles >= cycles
       /\ timer_cycles' = timer_cycles - cycles
       /\ IF timer_cycles' % timer_number = 0 THEN dec_interval ELSE UNCHANGED <<INTIM, Z>>
       /\ elapsed' = IF intact THEN elapsed + cycles ELSE 0
       /\ vacant' = IF intact /\ TakesNoTime(cycles) THEN vacant + 1 ELSE vacant
       /\ UNCHANGED <<timer_number, loaded, intact>>

(* The other instructions of the program: they set and clear Z as they     *)
(* please, and one that stores to INTIM or pushes onto it changes what the *)
(* timer shows and not what it counts.                                     *)
OtherInstruction ==
    /\ Z' \in BOOLEAN
    /\ INTIM' \in Intervals \cup {INTIM}
    /\ UNCHANGED <<timer_cycles, timer_number>>
    /\ IF INTIM' = INTIM
       THEN UNCHANGED <<loaded, elapsed, vacant, intact>>
       ELSE loaded' = 0 /\ elapsed' = 0 /\ vacant' = 0 /\ intact' = FALSE

Next ==
    \/ \E cycles \in Durations : cnt_timer(cycles)
    \/ OtherInstruction
    \/ \E intervals \in Intervals, number \in Numbers : set_timer(intervals, number)

Spec == Init /\ [][Next]_vars

(* Every turn of the loop in main() counts the cycles of the instruction   *)
(* before it, and instructions that take cycles keep coming: a run of      *)
(* vacant opcodes, which take none, ends at the end of the address space.  *)
FairSpec == Spec /\ WF_vars(\E cycles \in Durations \ {0} : cnt_timer(cycles))

-----------------------------------------------------------------------------
(* Type correctness.                                                       *)
TypeOK ==
    /\ INTIM \in Byte /\ loaded \in Byte
    /\ timer_cycles \in Nat /\ timer_number \in Nat \ {0}
    /\ Z \in BOOLEAN /\ intact \in BOOLEAN
    /\ elapsed \in Nat /\ vacant \in Nat

(* INTIM runs ahead of the program's clock only through vacant opcodes     *)
(* (cpu.c, lines 1813-1817, pia.c, lines 24-26): the intervals it still    *)
(* shows, and the one that each of these has taken off, are worth at least *)
(* the cycles that are left of the time asked for.  Where every            *)
(* instruction takes a cycle no interval is cut short.                     *)
NeverEarly == intact => (INTIM + vacant) * timer_number >= Total - elapsed

(* The timer counts the cycles faithfully as long as it counts them.  When *)
(* the rest is shorter than an instruction it goes on for at most as many  *)
(* instructions as intervals are shown, however they are interleaved: the  *)
(* delay is bounded, if long.                                              *)
LatenessBounded ==
    intact => elapsed <= Total + ((loaded - INTIM) * Longest)

(* A timer that is not loaded again and again, and whose INTIM is not      *)
(* raised again and again, expires in the end: there is no state from      *)
(* which cnt_timer() only waits (pia.c, lines 21-25).                      *)
Expires ==
    \/ []<>(INTIM = 0)
    \/ []<><<\E intervals \in Intervals, number \in Numbers : set_timer(intervals, number)>>_vars
    \/ []<><<INTIM' > INTIM>>_vars

=============================================================================
