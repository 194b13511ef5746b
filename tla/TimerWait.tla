----------------------------- MODULE TimerWait ------------------------------
(***************************************************************************)
(* MainLoop and the programs that wait for the timer, the way games pace   *)
(* themselves: load a number of intervals, store it to a timer register,   *)
(* and read INTIM until the Z flag is set.  A history variable counts the  *)
(* cycles such a program spends from the store on.                         *)
(***************************************************************************)
EXTENDS MainLoop

VARIABLE spent      \* the cycles since the last store to a timer register

waitVars == <<loopVars, spent>>

(* The entries of the instruction table that such a program uses. *)
TableHas(op, bytes, exec, mode) ==
    /\ inst_tbl[op].bytes = bytes /\ inst_tbl[op].cycles > 0
    /\ inst_tbl[op].exec = exec /\ inst_tbl[op].mode = mode

ASSUME WaitTableAssumption ==
    /\ TableHas(\hA9, 2, "lda", "i") /\ TableHas(\h8D, 3, "sta", "m") /\ TableHas(\hC9, 2, "cmp", "i")
    /\ TableHas(\hAD, 3, "lda", "m") /\ TableHas(\hD0, 2, "bne", "-") /\ TableHas(\h4C, 3, "jmp", "-")

(* f000 LDA #n, STA $02reg, CMP #$FF, f007 LDA INTIM, f00a BNE f007,       *)
(* f00c JMP f000.  The comparison clears Z, which the last wait left set.  *)
Waiting(n, reg) == <<\hA9, n, \h8D, reg, \h02, \hC9, \hFF,
                     \hAD, \h84, \h02, \hD0, \hFB, \h4C, \h00, \hF0>>
WaitCount == \hF001
WaitRegister == \hF003
WaitStart == \hF005     \* behind the store
WaitLoop == \hF007
WaitEnd == \hF00C

(* With 255 intervals the comparison would set Z. *)
RunsWait == \E n \in 0..254, reg \in {Low(a) : a \in TimerRegs} : mem = LoadCartridge(Waiting(n, reg))

(* The loop that waits for the timer is left only when it has expired,     *)
(* although the Z flag it tests is also set by the timer itself, between   *)
(* any two of its instructions (pia.c, line 33).                           *)
WaitIsHonest ==
    [][PC = WaitEnd - 2 /\ PC' = WaitEnd => Fetch(mem, INTIM) = 0]_loopVars

Intervals == Fetch(mem, WaitCount)
Asked == Intervals * TimerNumber(Word(Fetch(mem, WaitRegister), 2))

(* The program is between its store and the end of its wait.               *)
Waits == PC \in WaitStart..WaitEnd /\ Fetch(mem, WaitLoop) = \hAD

(* The most it may spend there: what it asked for, the longest instruction *)
(* for each interval, and four instructions more.                          *)
MostSpent == Asked + ((Intervals + 4) * MostCycles)

(* The cycles of an instruction are spent when its turn is over.  They are *)
(* counted in the wait only, and no further than past MostSpent.           *)
Spends ==
    spent' = CASE phase = "cpu" /\ Strobes -> 0
               [] phase = "pia" /\ phase' = "cpu" ->
                    IF ~Waits THEN 0 ELSE IF spent > MostSpent THEN spent ELSE spent + cycles
               [] OTHER -> spent

WaitSpec == LoopInit /\ spent = 0 /\ [][LoopNext /\ Spends]_waitVars

(* When the program goes on behind its loop it has spent at least the      *)
(* cycles that it asked for, and at most the longest instruction more for  *)
(* each of its intervals, though cnt_timer() counts whole instructions and *)
(* the loop does not divide the interval (pia.c, lines 21-28), and for the *)
(* instructions that are left when the timer has expired: with no interval *)
(* at all these are the store, the comparison, the load and the branch.    *)
WaitTakesItsTime ==
    phase = "cpu" /\ PC = WaitEnd /\ Waits => Asked <= spent /\ spent <= MostSpent

(* The wait is left every time, until the user quits.                      *)
WaitEnds == (Fetch(mem, WaitLoop) = \hAD /\ [](phase # "exited")) => []<>(PC = WaitEnd)

=============================================================================
