--------------------------- MODULE PiaTimerProofs ---------------------------
(***************************************************************************)
(* Proofs about PiaTimer: for every choice of intervals and durations, the *)
(* timer is early only by the intervals that vacant opcodes take off, and  *)
(* its delay is bounded.                                                   *)
(***************************************************************************)
EXTENDS PiaTimer, TLAPS

(* The SMT translation enumerates a range between two numerals, so Byte is *)
(* never expanded below.                                                   *)
LEMMA InByte == \A x : x \in Byte <=> x \in Int /\ 0 <= x /\ x <= 255
<1>1. \A n \in Int : \A x : x \in 0..n <=> x \in Int /\ 0 <= x /\ x <= n
  BY SMT
<1>2. 255 \in Int
  BY SMT
<1>. QED
  BY <1>1, <1>2, Zenon DEF Byte

(* ------------------------------ Arithmetic ----------------------------- *)

LEMMA ProductNat == ASSUME NEW a \in Nat, NEW n \in Nat PROVE a * n \in Nat
BY SMT

LEMMA ProductMonotone ==
    ASSUME NEW a \in Int, NEW b \in Int, NEW n \in Nat, a <= b
    PROVE  a * n <= b * n
BY SMT

(* A multiple of n below i * n is at most (i - 1) * n. *)
LEMMA WholeIntervals ==
    ASSUME NEW i \in Int, NEW n \in Nat \ {0}, NEW c \in Nat, (c % n) = 0, c < i * n
    PROVE  c <= (i - 1) * n
<1>. DEFINE k == c \div n
<1>1. k \in Int /\ c = n * k
  BY SMT
<1>2. k < i
  <2>1. CASE i <= k
    <3>1. i * n <= k * n
      BY <1>1, <2>1, ProductMonotone
    <3>. QED
      BY <1>1, <3>1, SMT
  <2>. QED
    BY <1>1, <2>1, SMT
<1>3. k * n <= (i - 1) * n
  <2>1. k <= i - 1 /\ i - 1 \in Int
    BY <1>1, <1>2, SMT
  <2>. QED
    BY <1>1, <2>1, ProductMonotone
<1>. QED
  BY <1>1, <1>3, SMT

(* ---------------------------- Type correctness ------------------------- *)

LEMMA DurationType ==
    ASSUME TimerAssumption, NEW d \in Durations
    PROVE  d \in Nat /\ d <= Longest
<1>1. d \in 0..Longest /\ Longest \in Nat
  BY DEF TimerAssumption
<1>. QED
  BY <1>1, SMT

LEMMA DecrementType == ASSUME INTIM \in Byte, INTIM > 0 PROVE INTIM - 1 \in Byte
BY InByte, SMT

LEMMA InitType == Init => TypeOK
<1>1. 0 \in Byte /\ 0 \in Nat /\ 1 \in Nat \ {0}
  BY InByte, SMT
<1>. QED
  BY <1>1, Zenon DEF Init, TypeOK

LEMMA NextType == ASSUME TimerAssumption PROVE TypeOK /\ [Next]_vars => TypeOK'
<1>. SUFFICES ASSUME TypeOK, [Next]_vars PROVE TypeOK'
  OBVIOUS
<1>1. ASSUME NEW intervals \in Intervals, NEW number \in Numbers, set_timer(intervals, number)
      PROVE  TypeOK'
  <2>1. intervals \in Byte /\ number \in Nat \ {0}
    BY DEF TimerAssumption
  <2>2. intervals \in Nat
    BY <2>1, InByte, SMT
  <2>3. intervals * number \in Nat
    BY <2>1, <2>2, ProductNat
  <2>4. elapsed' \in Nat /\ vacant' \in Nat /\ intact' \in BOOLEAN /\ Z' \in BOOLEAN
    BY <1>1, SMT DEF set_timer, TypeOK
  <2>. QED
    BY <1>1, <2>1, <2>3, <2>4 DEF set_timer, TypeOK
<1>2. ASSUME NEW d \in Durations, cnt_timer(d)
      PROVE  TypeOK'
  <2>1. d \in Nat
    BY DurationType
  <2>2. CASE INTIM = 0 /\ UNCHANGED vars
    BY <2>2 DEF vars, TypeOK
  <2>3. CASE INTIM > 0 /\ timer_cycles < d
    <3>1. INTIM' \in Byte
      BY <1>2, <2>3, DecrementType DEF cnt_timer, dec_interval, TypeOK
    <3>2. Z' \in BOOLEAN
      <4>1. dec_interval
        BY <1>2, <2>1, <2>3, SMT DEF cnt_timer, TypeOK
      <4>. QED
        BY <4>1 DEF dec_interval
    <3>3. elapsed' \in Nat
      BY <1>2, <2>1, <2>3, SMT DEF cnt_timer, TypeOK
    <3>. QED
      BY <1>2, <2>1, <2>3, <3>1, <3>2, <3>3, SMT DEF cnt_timer, TypeOK
  <2>4. CASE INTIM > 0 /\ timer_cycles >= d
    <3>1. timer_cycles' \in Nat /\ elapsed' \in Nat /\ UNCHANGED <<timer_number, loaded, intact>>
      BY <1>2, <2>1, <2>4, SMT DEF cnt_timer, TypeOK
    <3>5. vacant' \in Nat
      <4>1. vacant' = vacant \/ vacant' = vacant + 1
        BY <1>2, <2>1, <2>4, SMT DEF cnt_timer, TypeOK
      <4>. QED
        BY <4>1, SMT DEF TypeOK
    <3>2. dec_interval \/ UNCHANGED <<INTIM, Z>>
      BY <1>2, <2>1, <2>4, SMT DEF cnt_timer, TypeOK
    <3>3. INTIM' \in Byte
      BY <2>4, <3>2, DecrementType DEF dec_interval, TypeOK
    <3>4. Z' \in BOOLEAN
      BY <3>2 DEF dec_interval, TypeOK
    <3>. QED
      BY <3>1, <3>3, <3>4, <3>5 DEF TypeOK
  <2>. QED
    BY <1>2, <2>2, <2>3, <2>4 DEF cnt_timer
<1>3. CASE OtherInstruction
  <2>1. INTIM' \in Byte /\ Z' \in BOOLEAN
    BY <1>3 DEF OtherInstruction, TypeOK, TimerAssumption
  <2>2. loaded' \in Byte /\ elapsed' \in Nat /\ vacant' \in Nat /\ intact' \in BOOLEAN
    <3>1. 0 \in Byte
      BY InByte, SMT
    <3>2. 0 \in Nat
      BY SMT
    <3>3. CASE INTIM' = INTIM
      BY <1>3, <3>3, Zenon DEF OtherInstruction, TypeOK
    <3>4. CASE INTIM' # INTIM
      BY <1>3, <3>1, <3>2, <3>4, Zenon DEF OtherInstruction
    <3>. QED
      BY <3>3, <3>4
  <2>. QED
    BY <1>3, <2>1, <2>2 DEF OtherInstruction, TypeOK
<1>4. CASE UNCHANGED vars
  BY <1>4 DEF vars, TypeOK
<1>. QED
  BY <1>1, <1>2, <1>3, <1>4 DEF Next

(***************************************************************************)
(* The interval counter stays a byte, the other counters natural numbers.  *)
(***************************************************************************)
THEOREM TypeCorrect == ASSUME TimerAssumption PROVE Spec => []TypeOK
<1>. QED
  BY InitType, NextType, PTL DEF Spec

(* ------------------------------ Never early ---------------------------- *)

(* NeverEarly is not inductive: until the time asked for has passed, the   *)
(* cycles left are counted exactly.                                        *)
EarlyInv ==
    intact => \/ /\ timer_cycles = Total - elapsed
                 /\ timer_cycles <= (INTIM + vacant) * timer_number
              \/ elapsed > Total

LEMMA EarlyInvNext == ASSUME TimerAssumption PROVE TypeOK /\ EarlyInv /\ [Next]_vars => EarlyInv'
<1>. SUFFICES ASSUME TypeOK, EarlyInv, [Next]_vars PROVE EarlyInv'
  OBVIOUS
<1>t. /\ INTIM \in Nat /\ loaded \in Nat /\ timer_number \in Nat \ {0} /\ vacant \in Nat
      /\ timer_cycles \in Nat /\ elapsed \in Nat /\ Total \in Nat
  <2>1. INTIM \in Nat /\ loaded \in Nat
    BY InByte, SMT DEF TypeOK
  <2>. QED
    BY <2>1, ProductNat DEF Total, TypeOK
<1>1. ASSUME NEW intervals \in Intervals, NEW number \in Numbers, set_timer(intervals, number)
      PROVE  EarlyInv'
  <2>1. intervals \in Nat /\ number \in Nat
    BY InByte, SMT DEF TimerAssumption
  <2>2. intervals * number \in Nat
    BY <2>1, ProductNat
  <2>3. intervals + 0 = intervals
    BY <2>1, SMT
  <2>4. /\ Total' = intervals * number /\ (INTIM' + vacant') * timer_number' = intervals * number
        /\ timer_cycles' = intervals * number /\ elapsed' = 0
    BY <1>1, <2>3 DEF set_timer, Total
  <2>. QED
    BY <2>2, <2>4, SMT DEF EarlyInv
<1>2. ASSUME NEW d \in Durations, cnt_timer(d)
      PROVE  EarlyInv'
  <2>. DEFINE worth == INTIM + vacant
  <2>1. d \in Nat
    BY DurationType
  <2>2. CASE INTIM = 0 /\ UNCHANGED vars
    BY <2>2 DEF vars, EarlyInv, Total
  <2>4. CASE ~intact'
    BY <2>4 DEF EarlyInv
  <2>3. CASE intact' /\ ~(INTIM = 0 /\ UNCHANGED vars)
    <3>0. intact
      BY <1>2, <2>3 DEF cnt_timer
    <3>1. /\ Total' = Total /\ elapsed' = elapsed + d /\ UNCHANGED timer_number
          /\ INTIM > 0
      BY <1>2, <2>3, <3>0 DEF cnt_timer, Total
    <3>2. CASE elapsed > Total \/ timer_cycles < d
      <4>1. elapsed + d > Total
        BY <1>t, <2>1, <3>0, <3>2, SMT DEF EarlyInv
      <4>. QED
        BY <3>1, <4>1 DEF EarlyInv
    <3>3. CASE ~(elapsed > Total) /\ ~(timer_cycles < d)
      <4>1. timer_cycles = Total - elapsed /\ timer_cycles <= worth * timer_number
        BY <3>0, <3>3 DEF EarlyInv
      <4>2. /\ timer_cycles' = timer_cycles - d
            /\ vacant' = IF TakesNoTime(d) THEN vacant + 1 ELSE vacant
        BY <1>2, <2>3, <3>0, <3>3 DEF cnt_timer
      <4>3. /\ worth \in Nat /\ worth > 0 /\ worth * timer_number \in Nat
            /\ timer_cycles' \in Nat /\ timer_cycles' <= worth * timer_number
            /\ d # 0 => timer_cycles' < worth * timer_number
            /\ timer_cycles' = Total' - elapsed'
        <5>1. worth \in Nat /\ worth > 0
          BY <1>t, <3>1, SMT
        <5>2. worth * timer_number \in Nat
          BY <1>t, <5>1, ProductNat
        <5>. QED
          BY <1>t, <2>1, <3>1, <3>3, <4>1, <4>2, <5>1, <5>2, SMT
      <4>4. CASE (timer_cycles' % timer_number) = 0 /\ INTIM' = INTIM - 1
        <5>1. CASE d = 0
          <6>1. timer_cycles' = timer_cycles
            BY <1>t, <4>2, <5>1, SMT
          <6>2. vacant' = vacant + 1
            BY <4>2, <4>4, <5>1, <6>1 DEF TakesNoTime
          <6>3. INTIM' + vacant' = worth
            BY <1>t, <4>4, <6>2, SMT
          <6>. QED
            BY <3>1, <4>3, <6>3 DEF EarlyInv
        <5>2. CASE d # 0
          <6>1. timer_cycles' <= (worth - 1) * timer_number
            BY <1>t, <4>3, <4>4, <5>2, WholeIntervals
          <6>2. vacant' = vacant
            BY <4>2, <5>2 DEF TakesNoTime
          <6>3. INTIM' + vacant' = worth - 1
            BY <1>t, <4>4, <6>2, SMT
          <6>. QED
            BY <3>1, <4>3, <6>1, <6>3 DEF EarlyInv
        <5>. QED
          BY <5>1, <5>2
      <4>5. CASE (timer_cycles' % timer_number) # 0 /\ INTIM' = INTIM
        <5>1. vacant' = vacant
          <6>1. d = 0 => timer_cycles' = timer_cycles
            BY <1>t, <4>2, SMT
          <6>. QED
            BY <4>2, <4>5, <6>1 DEF TakesNoTime
        <5>. QED
          BY <3>1, <4>3, <4>5, <5>1 DEF EarlyInv
      <4>. QED
        BY <1>2, <2>3, <3>3, <4>4, <4>5 DEF cnt_timer, dec_interval
    <3>. QED
      BY <3>2, <3>3
  <2>. QED
    BY <2>2, <2>3, <2>4
<1>3. CASE OtherInstruction
  <2>1. CASE INTIM' = INTIM
    <3>1. UNCHANGED <<INTIM, timer_cycles, timer_number, loaded, elapsed, vacant, intact>>
      BY <1>3, <2>1 DEF OtherInstruction
    <3>. QED
      BY <3>1 DEF EarlyInv, Total
  <2>2. CASE INTIM' # INTIM
    BY <1>3, <2>2 DEF OtherInstruction, EarlyInv
  <2>. QED
    BY <2>1, <2>2
<1>4. CASE UNCHANGED vars
  BY <1>4 DEF vars, EarlyInv, Total
<1>. QED
  BY <1>1, <1>2, <1>3, <1>4 DEF Next

(***************************************************************************)
(* No interval is cut short but by a vacant opcode, and that one by one.   *)
(***************************************************************************)
THEOREM TimerNeverEarly == ASSUME TimerAssumption PROVE Spec => []NeverEarly
<1>1. Init => EarlyInv
  BY SMT DEF Init, EarlyInv, Total
<1>2. TypeOK /\ EarlyInv /\ [Next]_vars => EarlyInv'
  BY EarlyInvNext
<1>3. TypeOK /\ EarlyInv => NeverEarly
  <2>. SUFFICES ASSUME TypeOK, EarlyInv PROVE NeverEarly
    OBVIOUS
  <2>1. /\ INTIM + vacant \in Nat /\ loaded \in Nat /\ timer_number \in Nat /\ elapsed \in Nat
    BY InByte, SMT DEF TypeOK
  <2>2. (INTIM + vacant) * timer_number \in Nat /\ Total \in Nat
    BY <2>1, ProductNat DEF Total
  <2>. QED
    BY <2>1, <2>2, SMT DEF EarlyInv, NeverEarly, TypeOK
<1>. QED
  BY <1>1, <1>2, <1>3, TypeCorrect, PTL DEF Spec

(* --------------------------- Bounded lateness -------------------------- *)

(* LatenessBounded is not inductive: the cycles left are still to come.    *)
LateInv ==
    intact => /\ INTIM <= loaded
              /\ elapsed + timer_cycles <= Total + ((loaded - INTIM) * Longest)

LEMMA OneMoreInstruction ==
    ASSUME NEW k \in Int, NEW n \in Nat
    PROVE  (k + 1) * n = (k * n) + n
BY SMT

LEMMA LateInvNext == ASSUME TimerAssumption PROVE TypeOK /\ LateInv /\ [Next]_vars => LateInv'
<1>. SUFFICES ASSUME TypeOK, LateInv, [Next]_vars PROVE LateInv'
  OBVIOUS
<1>t. /\ INTIM \in Nat /\ loaded \in Nat /\ timer_number \in Nat \ {0}
      /\ timer_cycles \in Nat /\ elapsed \in Nat /\ Total \in Nat
      /\ Longest \in Nat
  <2>1. INTIM \in Nat /\ loaded \in Nat
    BY InByte, SMT DEF TypeOK
  <2>. QED
    BY <2>1, ProductNat DEF Total, TypeOK, TimerAssumption
<1>1. ASSUME NEW intervals \in Intervals, NEW number \in Numbers, set_timer(intervals, number)
      PROVE  LateInv'
  <2>1. intervals \in Nat /\ number \in Nat
    BY InByte, SMT DEF TimerAssumption
  <2>2. intervals * number \in Nat /\ (intervals - intervals) * Longest = 0
    BY <1>t, <2>1, ProductNat, SMT
  <2>3. /\ Total' = intervals * number /\ INTIM' = intervals /\ loaded' = intervals
        /\ timer_cycles' = intervals * number /\ elapsed' = 0
    BY <1>1 DEF set_timer, Total
  <2>. QED
    BY <2>1, <2>2, <2>3, SMT DEF LateInv
<1>2. ASSUME NEW d \in Durations, cnt_timer(d)
      PROVE  LateInv'
  <2>. DEFINE k == loaded - INTIM
  <2>1. d \in Nat /\ d <= Longest
    BY DurationType
  <2>2. k \in Int /\ k * Longest \in Int /\ (k + 1) * Longest = (k * Longest) + Longest
    BY <1>t, OneMoreInstruction, SMT
  <2>3. CASE INTIM = 0 /\ UNCHANGED vars
    BY <2>3 DEF vars, LateInv, Total
  <2>5. CASE ~intact'
    BY <2>5 DEF LateInv
  <2>4. CASE intact' /\ ~(INTIM = 0 /\ UNCHANGED vars)
    <3>0. intact
      BY <1>2, <2>4 DEF cnt_timer
    <3>1. /\ Total' = Total /\ loaded' = loaded /\ elapsed' = elapsed + d /\ INTIM > 0
          /\ INTIM' = INTIM \/ INTIM' = INTIM - 1
      BY <1>2, <2>4, <3>0 DEF cnt_timer, dec_interval, Total
    <3>2. INTIM <= loaded /\ elapsed + timer_cycles <= Total + (k * Longest)
      BY <3>0 DEF LateInv
    <3>3. CASE INTIM' = INTIM - 1
      <4>1. elapsed' + timer_cycles' <= Total + (k * Longest) + Longest
        <5>1. timer_cycles' = timer_cycles \/ timer_cycles' = timer_cycles - d
          BY <1>2, <2>4 DEF cnt_timer
        <5>. QED
          BY <1>t, <2>1, <2>2, <3>1, <3>2, <5>1, SMT
      <4>2. loaded' - INTIM' = k + 1
        BY <1>t, <3>1, <3>3, SMT
      <4>3. elapsed' + timer_cycles' <= Total' + ((loaded' - INTIM') * Longest)
        BY <1>t, <2>2, <3>1, <4>1, <4>2, SMT
      <4>. QED
        BY <1>t, <3>1, <3>2, <3>3, <4>3, SMT DEF LateInv
    <3>4. CASE INTIM' = INTIM
      <4>1. timer_cycles' = timer_cycles - d
        <5>1. ~dec_interval
          BY <1>t, <3>4, SMT DEF dec_interval
        <5>. QED
          BY <1>2, <2>4, <5>1 DEF cnt_timer
      <4>2. elapsed' + timer_cycles' = elapsed + timer_cycles
        BY <1>t, <2>1, <3>1, <4>1, SMT
      <4>. QED
        BY <3>1, <3>2, <3>4, <4>2 DEF LateInv
    <3>. QED
      BY <3>1, <3>3, <3>4
  <2>. QED
    BY <2>3, <2>4, <2>5
<1>3. CASE OtherInstruction
  <2>1. CASE INTIM' = INTIM
    <3>1. UNCHANGED <<INTIM, timer_cycles, timer_number, loaded, elapsed, vacant, intact>>
      BY <1>3, <2>1 DEF OtherInstruction
    <3>. QED
      BY <3>1 DEF LateInv, Total
  <2>2. CASE INTIM' # INTIM
    BY <1>3, <2>2 DEF OtherInstruction, LateInv
  <2>. QED
    BY <2>1, <2>2
<1>4. CASE UNCHANGED vars
  BY <1>4 DEF vars, LateInv, Total
<1>. QED
  BY <1>1, <1>2, <1>3, <1>4 DEF Next

(***************************************************************************)
(* For every interval taken off, the timer is at most one instruction      *)
(* behind.                                                                 *)
(***************************************************************************)
THEOREM TimerLateness == ASSUME TimerAssumption PROVE Spec => []LatenessBounded
<1>1. Init => LateInv
  <2>1. (0 - 0) * Longest = 0
    BY SMT DEF TimerAssumption
  <2>. QED
    BY <2>1, SMT DEF Init, LateInv, Total
<1>2. TypeOK /\ LateInv /\ [Next]_vars => LateInv'
  BY LateInvNext
<1>3. TypeOK /\ LateInv => LatenessBounded
  <2>. SUFFICES ASSUME TypeOK, LateInv PROVE LatenessBounded
    OBVIOUS
  <2>1. INTIM \in Int /\ loaded \in Int /\ elapsed \in Nat /\ timer_cycles \in Nat /\ Longest \in Int
    BY InByte, SMT DEF TypeOK, TimerAssumption
  <2>2. Total \in Int /\ (loaded - INTIM) * Longest \in Int
    BY <2>1, SMT DEF Total, TypeOK
  <2>. QED
    BY <2>1, <2>2, SMT DEF LateInv, LatenessBounded
<1>. QED
  BY <1>1, <1>2, <1>3, TypeCorrect, PTL DEF Spec

=============================================================================
