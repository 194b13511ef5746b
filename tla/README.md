# A verification project for atari2600e

This directory holds TLA+ models of the emulator in `src/src/`, configurations
that check them with TLC, and theorems about them that TLAPS proves. Line
numbers refer to the files of `src/src/` unless another path is given.
`PROJECT.json` maps every definition that stands for code to the lines it
stands for.

## 1. The system

The emulator is one sequential C program. `main()` loads a cartridge file,
fills the tables, and then runs one loop (`main.c:80-90`): execute one
instruction, give the picture chip three color clocks for every cycle of it,
give the timer and the keyboard a turn. Nothing runs in parallel; but the
three parts are interleaved at the granularity of an instruction and talk
through shared memory (`mspace[]`, the status register `P`), and the
*program in the cartridge* is free to do anything in any order. That program is
the environment of the models.

| Component | Source | State | Operations | Talks to |
|---|---|---|---|---|
| address space and registers | `mspace.c`, `mspace.h` | `mspace[]`, `A X Y S P PC` | `set_byte`, `fetch_*`, `stack_push/pop`, `set_X...`, `load_cartridge` | called by all others; `set_byte` calls the strobes |
| processor | `cpu.c`, `main.c:run_cpu` | none of its own | one function per opcode and addressing mode | memory, registers |
| instruction table | `cpu.c:inst_tbl_init` | `inst_tbl[256]` | filled once | read by the processor |
| strobe registers | `tia.c:63-137` | none | `is_strobe`, `strobe_dispatch` | called by `set_byte`; calls `set_timer` |
| interval timer | `pia.c` | `timer_cycles`, `timer_number`, the cell INTIM | `set_timer`, `cnt_timer` | changes `P` of the processor |
| raster and picture | `tia.c` | `hi vi ti`, `chi cvi cti`, `frame_buffer[]` | `tia_exec`, `place_pixel`, `display` | reads VSYNC, VBLANK; writes the window |
| joystick input | `pia.c`, `tia.c:handle_input` | the cell SWCHA | `pia_process_input` | SDL events |
| color table | `tia.c:init_color_map` | `color_map[]` | filled once | read by `select_pixel` |
| main loop | `main.c` | | `run_cpu`, `run_tia`, `run_pia` | everything |
| start and exit | `main.c`, `tia.c`, `mspace.c` | SDL handles | `emu_init`, `emu_free`, failure paths | the shell |
| disassembler, log, exceptions, build files | | | output or no behaviour | |

What is hard about it, and what therefore makes each part correct:

* **Processor.** There are about 150 functions. They set flags they do not
  clear, write through a memory whose last address is past the end of an array,
  and jump by setting PC *below* the target because `run_cpu()` adds the size of
  the instruction afterwards. Correct means: registers keep their widths;
  a return address survives everything that is not a store over it; `RTS`
  continues after the right `JSR`; a flag that comes up belongs to the result in front of it.
* **Stores that do more than store.** A store to 0x294-0x297 reloads the timer
  inside `set_byte()`. Correct means: nothing else touches the timer (a push
  onto these cells does not), and its three variables agree afterwards.
* **Timer.** It is counted once per instruction, so the end of an interval
  almost never coincides with the end of an instruction. Correct means: never
  early, late by a bounded amount, and it ends.
* **Raster and cursor.** The raster (`hi`, `vi`) wraps on its own; the cursor
  (`chi`, `cvi`) moves only when a pixel is placed, and the program turns that
  off and on at any clock. The cursor runs past the frame buffer and its stray
  writes can hit the counters themselves. Correct means: the damage is bounded, a picture that is displayed has been drawn
  completely, and pictures keep coming.
* **The turns of the loop.** Time is kept in three places, and the timer sets
  the processor's Z flag between two instructions. Correct means: no cycle is lost or
  counted twice, so that the beam moves with the program's cycles; the parts
  do not disturb each other except where the code means them to; a program that
  waits for the timer goes on when it has expired, not before, and always, and after a time
  it can reckon with.
* **Input, start and exit.** Every SDL event except `SDL_QUIT` is read as a
  key press; `emu_free()` calls `exit()` from inside `exit()`. Correct means: the register
  shows the newest key; a request to quit is honoured; a process that exits releases its
  resources once; a start that fails is reported (it is not, section 4).

`PROJECT.json` lists the hazards one by one, with the line where each bites and the
properties that cover it.

## 2. The modules

| Module | Lines of code it models | Role |
|---|---|---|
| `Mspace` | `mspace.c`, `mspace.h`, `tia.c:strobe_dispatch` | operators: cells, widths, flags of `P`, the memory map, the strobes, loading a cartridge |
| `InstTable` | `cpu.c:inst_tbl_init` | the table, assignment by assignment |
| `Cpu` | `cpu.c`, `mspace.c`, `main.c:run_cpu` | the processor: one action per operation |
| `CpuCalls` | the same | `Cpu` with a history of open subroutine calls |
| `CpuDoc` | | what documents and comments say of the processor |
| `PiaTimer` | `pia.c:set_timer`, `cnt_timer` | the interval timer with a history of time asked for and time counted |
| `PiaInput` | `pia.c:pia_process_input`, `mspace.c:p2`, `mspace.h:clear_bit` | operators: what a key does to SWCHA |
| `Tia` | `tia.c`, `tia.h` | raster, cursor, frame buffer, `display()` |
| `Picture` | `tia.c:305-348`, seen from outside | abstract: pictures drawn cell after cell; `Tia` implements it |
| `InputTurns` | `tia.c:419-428`, seen from the program | abstract: a turn of the input is one key or none; `Lifecycle` implements it |
| `MainLoop` | `main.c:34-92`, with all of the above | the turns of the loop: `Cpu`, `Tia`, input and timer on one address space |
| `TimerWait` | the same as `MainLoop` | the loop with programs that wait for the timer, and a history of the cycles they spend |
| `LoopCalls` | `MainLoop` and `CpuCalls` | the loop with the history of open subroutine calls |
| `Lifecycle` | `main.c`, `tia.c:355-428`, `mspace.c:load_cartridge` | the process: start, events, exit |
| `MCCpu`, `MCCpuDoc`, `MCPiaTimer`, `MCTia`, `MCMainLoop`, `MCLifecycle` | | instances for TLC |
| `MspaceProofs`, `CpuProofs`, `CpuCallsProofs`, `PiaTimerProofs`, `TiaProofs`, `MainLoopProofs`, `LoopProgramsProofs`, `LifecycleProofs` | | theorems and proofs |

How they are put together: `Cpu` and `PiaInput` extend `Mspace`; `MainLoop` extends
`Cpu` and `PiaInput`, takes the steps of `Tia` from an instance of it in which
`vsync` and `vblank` are bits of two cells of `mspace[]`, and states with an instance of
`PiaTimer`, in which `INTIM` is a cell and `Z` a bit of `P`, that it implements the
timer. `TimerWait` and `LoopCalls` extend `MainLoop`, the second also `CpuCalls`. `Tia` states
with an instance of `Picture`, in which `cti` is the cell, that it implements the abstract picture.
`Lifecycle` stands beside them: it keeps the cell SWCHA and leaves the rest of the
address space out; an instance of `InputTurns` says what it looks like from the program.

### Cpu

A step is one `run_cpu()`: fetch the opcode at PC, call its function, add the
instruction's size to PC. The guard `Executes` has the condition of the loop in
`main()`. The functions of one operation share an action; where they find
their operand (`mode` in the table) is decided by `base`, `addr` and `value`.
This follows the **bodies** of the functions, not their names: where a body
indexes with the other register or stores into the other register than its
name says, the table entry in `InstTable` says what the body does.

* `mem` is `mspace[]` as a function on the cells that were written; other cells
  hold 0. `P` is the set of bits that are 1. `timer_cycles` and `timer_number`
  are the variables of `pia.c`, which `set_byte()` reaches.
* `mspace` has 0xffff cells, so address 0xffff is past its end. What lies
  there is the compiler's choice; `past` keeps the two outcomes apart: the byte
  is the accumulator (declared next) or padding.
* An entry of the table that was never assigned has a null function; calling it
  is the action `crash`, after which nothing happens.
* Byte and address arithmetic wraps as the C types do (`Plus8`, `Plus16`, `% 256`,
  `% 65536`).

`CpuCalls` adds `calls`, the set of open calls, each with the address of its
frame and its return address. A call is forgotten when the stack pointer comes
back above its frame or a store changes one of its two bytes. This is history
only: it restricts no step of `Cpu`.

### PiaTimer

`set_timer` and `cnt_timer` are the two functions; `OtherInstruction` is the
processor between two turns of the timer: it may change Z, and it may overwrite
INTIM, which `set_byte()` and `stack_push()` allow although `mspace.h:102` calls it read
only. `loaded` and `elapsed` record the last load and the cycles counted since;
`intact` says that INTIM still comes from that load, and `vacant` counts the
intervals that vacant opcodes have taken off since: `cnt_timer()` tests for a whole number of
intervals also when no cycle has passed (`TakesNoTime`).

### PiaInput

`KeyByte` is what a key leaves in SWCHA: all bits set, then the bit of `p2(n)` taken
out. `p2` doubles once more than `n` times, as the code does.

### Tia

`tia_exec` is one color clock, with `place_pixel` and `display` inside it
in the order of the code. `SetBlanking` is the program's store to VSYNC or VBLANK,
possible between any two color clocks (a superset of what the loop
allows: stores come at the end of an instruction). `drawn` is the set of cells
written since the last `display()`. `behind` is again the compiler's choice:
after `frame_buffer[]` come the counters, as they are declared, or the color
table. With the counters there, `frame_buffer[Size]` *is* `hi`, and so on;
a write over `ti` or `cti` is lost because both are computed afterwards.

`Picture` is what all this promises: the next cell, or the last cell of a line again, or, from
the end of the picture only, its first cell; and the picture is displayed exactly on the arrival at
the last cell. It knows neither raster nor blanking nor stray writes.

### MainLoop

`phase` says whose turn it is. `run_cpu` is one instruction and the first counter;
`scan_clock` one color clock in the loop of `run_tia()`, three for each cycle;
`run_tia` the rest of that function; `run_pia` the input and `cnt_timer()`. `quit` is the call
of `exit()` in `handle_input()`. `cnt_timer` is written here a second time, on the cells and
`P`, in the order of the code after the input; that it does what `PiaTimer` says is
checked and proved. Of the events of one turn only the last joystick key matters, since
every key sets the whole register, so a turn has one key or none; the queue is in
`Lifecycle`. The three cycle counters are kept modulo `Frame`, the clocks of one
picture; the code only adds to them. `elapsed` and `vacant` are the histories of `PiaTimer`.

### TimerWait and LoopCalls

`TimerWait` names the programs that load `n` intervals, store them to one of the four timer registers
and read INTIM until Z is set (`Waiting`, `RunsWait`), and the entries of the instruction table
they use. `Asked` is the time they ask for, read from their own listing. The history `spent` counts
the cycles of every instruction from the store to the end of the wait, whatever the timer does
(`elapsed`, the history of `PiaTimer`, stops when it expires); past `MostSpent` it counts no further.

`LoopCalls` adds the `calls` of `CpuCalls` to the loop. The turn of the PIA stores to SWCHA and
INTIM, and a stack can lie there: a program that pulls more than it pushes gets it there
(`S` is 16 bits wide and nothing checks it). A call is then also forgotten when the PIA changes
one of its two bytes, and that byte has to be in one of these two cells: a PIA that wrote anywhere else
would break a call that is still open.

### Lifecycle

`stage` is where `main()` is. A turn of the emulation is one step, `turn`, in which
the program may store to SWCHA; `poll` is one round of the loop in `handle_input()`, and events can
come between any two rounds. An event has a type and the word that lies where a key event
has its scancode: `handle_input()` reads it of every event that is not `SDL_QUIT`. The two
tests in `tia_init()` and the one in `load_cartridge()` are failures that may or may not
happen. `exit()` is that of the C library: handlers are taken off a list and run; a handler
that calls `exit()` again replaces the status and lets the rest of the list run. The standard
leaves a second call of `exit()` undefined; this is what glibc does with it.
`last`, `newest`, `failed`, `quits` and `before` are history; `before` is SWCHA as it was when
`handle_input()` was called, until it returns: what the program has seen of the register.

`InputTurns` has the turn of the input as one step, the way `MainLoop` takes it.

## 3. The runs

| Run | Checks | Bounds |
|---|---|---|
| `MCCpu` | `TypeOK`, `FramesIntact`, `FlagsHaveCause`, `TimerSetByStrobe`, `OnlyTheVectorWraps`, `ReturnsToCaller` | every pair of instructions from a list (every operation, every addressing mode, operands on page boundaries, the timer registers, the stack, both ends of the array), after two prologues, with both layouts; every program of 4 slots out of 8 instructions: calls to each slot but the last, RTS, PHA, PLA, a move of the stack pointer to page zero, a decrement of a byte of the first frame; programs that jump to an instruction of 1, 2 or 3 bytes at 0xfffc, 0xfffd, 0xfffe |
| `MCTia` | `TypeOK`, `StrayWritesBounded`, `PictureComplete`, `PictureImplemented`, `KeepsDisplaying` | a visible region of 4 x 3 with a border on every side, both layouts, blanking switched at any clock |
| `MCPiaTimer` | `TypeOK`, `NeverEarly`, `LatenessBounded`, `Expires` | loads, reloads and stores over INTIM at any moment and without limit, of 0, 1 or 3 intervals of 1, 8 or 64 cycles, instructions of 2 to 8 cycles and vacant opcodes of 0 |
| `MCMainLoop` | `LoopTypeOK`, `WaitTakesItsTime`, `BeamFollowsClock`, `TimerImplemented`, `LoopReturnsToCaller`, `PicturesKeepComing`, `WaitIsHonest`, `WaitEnds` | a screen of 2 x 2 in a raster of 4 clocks by 3 lines, both layouts behind the buffer, six programs: three wait for the timer over and over (5 intervals of 1 cycle, 2 of 8, and none at all), one blanks the screen by the joystick, one calls a subroutine with its stack in page one and again with its stack in INTIM, one stores over INTIM and comes to its end; two keys and a request to quit in any turn |
| `MCLifecycle` | `TypeOK`, `LastKeyWins`, `FreedOnce`, `InputImplemented`, `QuitEnds`, `TurnsGoOn` | two events in the queue, of three types and five words (keys of both players, a key that quits, no key) |

What they show:

* `FlagsHaveCause`: some functions compute their flags before they store the result and some after, and
  a store may go through a strobe or to the byte behind the array. Where Z or N comes up, the result
  that is left in the register or the cell is zero or negative. That the flags are not taken away by the
  next result is another matter: `DocZeroFlagFollowsResult`, section 4.
* `TimerSetByStrobe`: whatever the program stores, pushes or shifts, at whatever
  address, the timer changes only through its four registers, and `timer_cycles`,
  INTIM and the number that belongs to this register agree right after. The cell of the register
  itself keeps the byte.
* `OnlyTheVectorWraps`: the loop tests for 0xfffe and 0xffff only, so an instruction can step
  over both; it does so in one case only, three bytes at 0xfffd.
* `FramesIntact`, `ReturnsToCaller`: the pushes of `jsr()`, the pops of `rts()` and the
  size `run_cpu()` adds fit together, in every interleaving of calls, returns, pushes
  and moves of the stack pointer, below address 0 and round to the other end too, until the
  program itself stores over a frame.
* `NeverEarly`, `LatenessBounded`, `Expires`: while the program leaves INTIM alone, the timer runs
  for at least the cycles it loaded, less the intervals that vacant opcodes take off, and is late
  by at most one instruction for each interval that has gone down, at expiry as before it; and it
  expires unless it is loaded, or INTIM raised, for ever. The
  lateness is real: `cnt_timer()` keeps `timer_cycles` when an instruction is longer
  than the rest, and then counts *instructions*, one interval each.
* `StrayWritesBounded`: the cursor leaves the buffer by up to `VISIBLE_WIDTH` cells. Where
  the counters follow the buffer, only `hi`, `vi`, `chi` are hit: overwriting `chi`
  restarts the cursor before it gets to the SDL pointers behind the counters.
* `PictureComplete`, `KeepsDisplaying`: however VSYNC and VBLANK cut the drawing into
  pieces, a displayed picture has every cell but the last drawn (`display()` is called on
  the arrival at the last cell, one clock before it is written), and pictures keep coming
  after the program stops blanking.
* `PictureImplemented`: the same seen from outside. Cells come in their order, the only cell drawn twice is
  the one at the end of a line, and no picture is given up before it is displayed, although the
  counters that decide this may be overwritten by the drawing itself.
* `BeamFollowsClock`: programs for this machine place what they draw by counting cycles. The
  distance between the beam and three clocks for every cycle (`Drift`) starts at 0 and changes only when a
  pixel is written over `hi` or `vi`, so never with the color table behind the frame buffer, and
  between two instructions the three cycle counters agree. The lines and pictures it counts in
  are those of the code, each one longer than `tia.h` and the documents say: a program that counts
  76 cycles for a line is wrong by one clock every line (`LineIsTotalWidth`, section 4).
* `TimerImplemented`: `cnt_timer()` runs on a cell and a flag that every instruction may write between
  two of its turns; what is checked of `PiaTimer` alone holds of the loop.
* `WaitIsHonest`, `WaitEnds`: a program that polls INTIM and branches on Z passes the branch
  only when INTIM is 0, although the timer sets Z between its LDA and its BNE, and it passes
  it every time. The programs have a comparison with 0xff before
  the loop for a reason: it clears Z; without it the Z that the first wait left makes the
  second one fall through at once.
* `WaitTakesItsTime`: when such a wait is left the program has spent, from its store on, at least the
  cycles it asked for, and at most a longest instruction more for each interval and four
  instructions besides (with no interval: the store, the comparison, the load and the branch). The
  bound is loose for long intervals and tells most for TIM1T, whose intervals are shorter than any
  instruction.
* `LoopReturnsToCaller`: RTS goes behind its call although keys and timer write to the memory
  between the two, unless they hit the frame itself. The program with its stack in INTIM shows that they can:
  its second return goes to the call, because the timer has counted the return address down.
* `PicturesKeepComing`: the loop displays pictures as long as the program runs and either leaves the screen
  on in the end, or blanks and unblanks it for ever and leaves it on for some clock of the
  visible region again and again. The last condition is needed: blanking can keep in step with the
  raster and cover every such clock.
* `LastKeyWins`: several events in one turn, key-up events and other events among them, and
  stores of the program between turns: once the queue is empty, SWCHA shows the newest key if a
  key wrote it last. There is no release: the register keeps the key until the program
  or another key writes it.
* `InputImplemented`: keys of one turn do not add up. A turn that starts with the register of the program and
  takes any number of events leaves what one key would have left, or nothing new; so a turn of `MainLoop`
  with at most one key stands for every queue.
* `FreedOnce`: a process that exits, or whose `main()` returns, has called `SDL_Quit()` once, although
  `exit()` is entered twice. A process without a file has not registered the handler, and one that
  is killed at a null function runs no handler: both leave it out.
* `QuitEnds`, `TurnsGoOn`: a request to quit ends the process although more events keep coming
  behind it; and the emulation stands still only as long as events come as fast as they are handled.

### Bounds, and why they are enough

* `Window` in `MCCpu`: PC within 8 bytes before and 20 after the start of the
  cartridge or at the ends of the address space, S within ten bytes of the end of a page or four of its start. Programs
  are at most 16 bytes and end on an opcode without a function; a program that jumps
  elsewhere runs through zeroed cells (opcode 00, which the table gives to `bvs()` with one byte: it
  moves on to the next cell). Two instructions are enough for the properties of a step; the
  prologues set up registers that reach wraps, carries and both signs, and a stack
  that wraps below address 0. The theorems in section 5 do away with the bounds.
* `Slots = 4` and the ten bytes of `Window` in `MCCpu`: five nested calls, so recursion, a call
  out of a subroutine, a stack that wraps below 0 with calls open, and a return address popped or
  overwritten by another subroutine all occur. To keep the run small these programs are run with
  one layout of what lies behind the array; the pairs reach that cell with both.
* `MCTia`, `MCMainLoop`: the raster is one clock longer and one line higher than the totals say,
  as in the code; the visible region is not filled by one frame, so raster and cursor drift
  apart and every phase between them occurs. `PIXEL = 1000` stands for the color as an unsigned
  number, larger than any counter.
* `MCMainLoop`: its counters are bounded by the modulus; a long instruction scans more clocks
  than the raster of 12 has, so a turn can go round a whole picture; `elapsed` is bounded
  because the programs load the timer again, and `spent` by `MostSpent`. The programs are chosen for what the parts do to
  each other; that the timer, the pictures, the beam and the calls are right for every program, and the waits for every
  number of intervals up to 254 and every timer register, is proved.
* `MaxQueue = 2`: enough for a request to quit behind a key, two keys of one turn, and a queue
  that stays full; `LastKeyWins` is proved for every length.
* No bound in `MCPiaTimer`: `elapsed` and `vacant` stop at the expiry, the lateness is bounded, and a
  vacant opcode that adds to `vacant` takes an interval off.
* `CHECK_DEADLOCK FALSE` in the `Cpu` runs and `MCMainLoop`: the program really stops, on a null
  function, when PC reaches 0xfffe, or when the user quits; in `MCLifecycle` the process ends.

### Fairness

* `Tia`: weak fairness of `tia_exec`. Every turn of the loop calls
  `run_tia()` after the instruction; a cartridge cannot prevent it. (Vacant opcodes count no
  cycles, but a run of them ends at the end of the address space.)
  Nothing is assumed of `SetBlanking`.
  Liveness is meant while the emulator runs: the loop ends with the program.
* `PiaTimer`: weak fairness of a `cnt_timer` with a non-zero number of cycles: every loop of
  the program contains a backward transfer, which costs cycles, and `run_pia()` follows
  every instruction.
* `MainLoop` (`LoopFairness`): weak fairness of the whole next step: one thread, and nothing in it waits. The order
  of the turns is in the model, so no part needs fairness of its own; `PicturesKeepComing`
  says itself that the program runs on and what it does with its screen.
* `Lifecycle`: weak fairness of the steps of the process, none of the user's events.

## 4. What documents say and the code does not

Each of these is a run that checks one statement of a document or a comment and
ends with a counterexample. The documents describe the real machine, so most of these are
differences between the emulator and what it emulates.

| Run | Statement | What the code does |
|---|---|---|
| `DocZeroFlagFollowsResult` | `docs/6502.txt:70-72`: Z is 0 if the result is not zero | Z is set and not cleared (`cpu.c:81`) |
| `DocEveryOpcodeHasFunction` | `cpu.c:20-22`: every instruction has its function, the rest `vac()` | three opcodes have a null function, 6D (ADC) among them |
| `DocJmpThroughPointer` | `docs/6502.txt:175-178` | the high byte is not taken from the pointer (`cpu.c:897`) |
| `LineIsTotalWidth` | `tia.h:16`: the total width is the visible width and the horizontal blank, 228 clocks; `docs/2600-101/03first.html:458`: 76 cycles for a line | a line has one clock more (`tia.c:339`), and a picture one line more (`tia.c:343`) |
| `TiaInBuffer` | `tia.c:280`: `cti` is an index of the visible region | it runs past the buffer, which is written there (`tia.c:308`) |
| `KeyMovesItsDirection` | `docs/2k6specs.htm:821-824`: Up of player 0 is bit 4 of SWCHA, and so on | each key clears the bit above its own (`p2()`, `mspace.c:129`); D clears none |
| `FailureReported` | `mspace.c:111`, `tia.c:380`: `exit(EXIT_FAILURE)` | the process ends with status 0: `emu_free()` calls `exit(EXIT_SUCCESS)` inside `exit()` (`main.c:13`) |

Other differences the models contain, without a run of their own:

* `iny()` stores X + 1 in Y (`docs/6502.txt:742`); opcode AC, LDY, loads X (`cpu.c:1138`); opcode
  10, BPL, is assigned again to `oraax()` (`cpu.c:1944`).
* PLP can clear bit 5 of P (`mspace.c:20-21` says it is always 1); a store changes INTIM, "read
  only" in `mspace.h:102`; TXS moves the stack out of page one (`docs/notes.txt:47`),
  because S is 16 bits wide.
* An interval of the timer is not exactly 1, 8, 64 or 1024 clocks (`mspace.h:103-106`): it ends late
  when an instruction steps over its end, and early where opcodes without an instruction are run
  while a whole number of intervals is left: they count zero cycles, and each takes an interval off
  (`vacant` in `PiaTimer` counts these). A program that reads INTIM in the middle of its time does not see
  intervals that were stepped over: `cnt_timer()` leaves the cell alone until few cycles are left, and then
  takes one interval off with each instruction. `LatenessBounded` bounds what that adds up to at the
  end and says nothing of the values on the way.
* Z and N set by one instruction stay set through the next results, so the wait of the documents
  (`docs/2600-101/03first.html:231-238`, LDA INTIM and BNE) falls through at once when Z is set
  already; the programs of `TimerWait` clear it by a comparison first.
* A key that is released, and the bytes of an event that is no key event, count as keys
  (`tia.c:424`). The models describe this, `newest` included, and refuse nothing of it.
* `display()` comes when the cursor has gone round, not "at the end of a frame" (`tia.c:325`).

## 5. The proofs

TLC checks small instances; the theorems hold for every value of the constants
that the named assumptions allow.

| Theorem | Establishes | Assumes |
|---|---|---|
| `CpuProofs!TypeCorrect` | `Spec => []TypeOK` | `CartsAssumption` (files are byte sequences), `InstTblAssumption` (entries have 0-3 bytes, 0-7 cycles) |
| `CpuProofs!TimerSetCorrectly` | `Spec => TimerSetByStrobe` | the same |
| `CpuProofs!FlagsComeFromResults` | `Spec => FlagsHaveCause` | the same |
| `CpuProofs!ProgramsRunOut` | `Spec => OnlyTheVectorWraps` | the same |
| `CpuCallsProofs!FramesStayIntact` | `CallsSpec => []FramesIntact` | the same |
| `CpuCallsProofs!RtsReturns` | `CallsSpec => ReturnsToCaller` | the same |
| `PiaTimerProofs!TypeCorrect` | `Spec => []TypeOK` | `TimerAssumption`, as a hypothesis |
| `PiaTimerProofs!TimerNeverEarly` | `Spec => []NeverEarly`, instructions of zero cycles included | the same |
| `PiaTimerProofs!TimerLateness` | `Spec => []LatenessBounded` | the same |
| `TiaProofs!TypeCorrect` | `Spec => []TypeOK` | `RasterAssumption` (the color, as an unsigned number, is larger than the counters' ends; the one in use is 0xEDEDEDFF, `tia.c:117, 269-271`, the totals are 228 and 262), as a hypothesis |
| `TiaProofs!StrayWritesStayClose` | `Spec => []StrayWritesBounded` | the same |
| `TiaProofs!PicturesAreComplete` | `Spec => PictureComplete` | the same |
| `TiaProofs!TiaImplementsPicture` | `Spec => PictureImplemented` | the same |
| `MainLoopProofs!LoopImplementsTimer` | `LoopSpec => TimerImplemented` | those of the processor, `RasterAssumption` of the loop |
| `MainLoopProofs!LoopTypeCorrect` | `LoopSpec => []LoopTypeOK` | the same |
| `MainLoopProofs!BeamIsDue` | `LoopSpec => BeamFollowsClock` | the same |
| `MainLoopProofs!LoopDrawsWholePictures` | `LoopSpec =>` the properties of `Tia`: `PictureImplemented`, `PictureComplete`, `StrayWritesBounded` | the same |
| `MainLoopProofs!LoopKeepsTime` | `LoopSpec =>` the properties of `PiaTimer`: `NeverEarly`, `LatenessBounded` | those of the processor |
| `LoopProgramsProofs!WaitsAreHonest` | `LoopSpec /\ RunsWait => WaitIsHonest` | those of the loop, `WaitTableAssumption` (the six instructions of the program are in the table) |
| `LoopProgramsProofs!WaitsTakeTheirTime` | `WaitSpec /\ RunsWait => []WaitTakesItsTime` | the same |
| `LoopProgramsProofs!CallsReturnInLoop` | `LoopCallsSpec => []FramesIntact /\ LoopReturnsToCaller` | those of the loop |
| `LifecycleProofs!TypeCorrect` | `Spec => []TypeOK` | `LifecycleAssumption` |
| `LifecycleProofs!QuitsOnce` | `Spec => []FreedOnce` | the same |
| `LifecycleProofs!NewestKeyShows` | `Spec => []LastKeyWins` | the same |
| `LifecycleProofs!ProcessImplementsTurns` | `Spec => InputImplemented` | the same |

`PiaTimer` and `Tia` are instantiated by `MainLoop`, so their assumptions are definitions that
their theorems take as hypotheses. `MCPiaTimer` and `MCTia` assume them of their constants, which TLC
evaluates; for the instances in the loop, the one of the timer is proved (instructions take 0 to
`MostCycles` cycles, and the registers stand for 1, 8, 64 and 1024), and the one of the raster is
the assumption of `MainLoop`. That way a property proved of a part is carried over to the whole
loop by the refinement and never proved again.

So the theorems about the processor hold for every cartridge, not only for pairs of
instructions, and for every instruction table of the assumed shape, the one with
the typing errors and a corrected one alike; those about the loop for every cartridge,
screen and sequence of keys. The lemmas about cells, widths and
keys are in `MspaceProofs`. The argument in each module:

* **Processor.** `TypeOK` is inductive by itself. `CpuProofs` first proves what each
  operator returns (`FetchType`, `ValueType`, `AddrType`, `NZType`) and what each group of actions
  leaves (`AccumulateType`, `ModifyType`, `StoreType`, `PushType`, `GoToType`, `BranchType`);
  `NextType` then has one case per action. `NextTimer` and `NextFlags` have the same
  shape for the two action properties. `SetByteTimer` is the heart of the first: after
  a store to a timer register the cell INTIM holds the stored byte because none of the four
  registers is INTIM, and the second `Put` does not disturb it. The second rests on `NZRaises` (a flag comes
  up only on the value it is computed from) and `ModifyResult` (this value is what is found
  afterwards where the instruction has written, strobes and the cell past the end included).
* **Calls.** The invariant is `CallsInv == TypeOK /\ calls \subseteq Frame /\ FramesIntact`.
  `FramesIntact` alone is not inductive: that a push does not reach a frame needs the
  types of S and of the frame. A push or JSR writes at S and
  below, and a frame lies above S (`BelowFrame`), unless S wraps below 0, when it stands at
  or near the end of the address space and above every frame, which is then closed
  (`FrameKept`). `FrameMade`: the two bytes JSR pushes are the return address.
  `Arrives`: what a transfer of control subtracts, `run_cpu()` adds again, wrap included.
* **Timer.** `NeverEarly` and `LatenessBounded` do not mention `timer_cycles`, on which
  the next step depends. `EarlyInv`: either the cycles left are those the program asked for less
  those counted, and INTIM and the intervals vacant opcodes took off are worth at least that many; or
  the time is over. Without `vacant` it is not inductive: an instruction of zero cycles makes INTIM go
  down and the cycles left stay.
  `LateInv`: counted plus left is at most asked for plus one longest instruction for each
  interval that has gone down. The products of two variables are handled by
  a few lemmas (`ProductMonotone`, `WholeIntervals`, `OneMoreInstruction`).
* **Raster and cursor.** `CursorInv` joins types, indices and the bound on stray writes:
  none is inductive without the others (the new `chi` depends on what `frame_buffer[cti]`
  hits). `CursorStep` says where a step takes the cursor: on by one cell, to the start, or
  across the column past the end of a line to the same cell. `DrawnInv` adds that all cells
  before the cursor have been drawn as long as the cursor is not at the end. `DrawingStep` reads the
  three moves of `CursorStep` as steps of `Picture`; `CursorInv` bounds the cursor, so that a
  start from the first cell comes only past the end.
* **The parts in the loop.** `TiaStep`: `scan_clock` is a step of `Tia`, every other turn
  is `SetBlanking` or leaves the picture alone, by definition; `LoopDrawsWholePictures` needs no more to carry over what
  is proved of `Tia`. `TimerStep` is more work: an instruction that goes through
  a strobe is `set_timer` (`StrobeSets`, from the `SetByteTimer` of the processor), any other
  leaves the timer's variables (`OthersLeaveTimer`) and is `OtherInstruction`, the turn of
  the PIA is `cnt_timer` with the cycles of the instruction, the two turns between stutter.
  It needs the types of the processor, which `LoopNextType` proves of the loop.
* **The beam.** `BeamInv` relates the three cycle counters in every phase of a turn, with the cycles that
  are still to be counted. `BeamStep`: a color clock that hits no counter moves the beam by one position, or by one less a
  whole picture at its end. `DriftAdvances`: the clocks of an instruction and its cycles cancel out, also across
  the modulus; `OneRemainder`, `AddRemainder`, `MultipleDrops` say when a remainder can be taken early. It is
  inductive only with `LoopTypeOK`, which joins the types of the parts.
* **Waiting.** `WaitInv`: the listing is still in memory (`Text`), PC is at one of its six instructions,
  and in the loop Z is set only if INTIM is 0. `WaitIsHonest` alone says nothing of the step
  from LDA to BNE, between which the timer may set Z itself. That the program
  never writes over itself needs the address of its one store, `TimerRegs`. `Pace` ties the history of the timer to the listing:
  from the store on, `loaded` and `timer_number` are what the listing asks for, INTIM is
  intact, and no instruction takes zero cycles, so `vacant` stays 0. `SpentInv` relates
  `spent` to `elapsed`: they are equal until INTIM is 0, and from then on `spent` is ahead by at most four
  instructions, as far as PC has come (`Late`). With `NeverEarly` and `LatenessBounded`, which `LoopKeepsTime`
  gives and which bound `elapsed`, it yields the two halves of `WaitTakesItsTime`.
* **Calls in the loop.** `CallsInv` is kept by the instructions as in `CpuCalls`; the turn of the PIA writes only
  SWCHA and INTIM, so a frame that has none of its bytes changed there is as it was
  before.
* **The process.** `FreedInv`: the handler is registered exactly from `emu_init()` to the exit,
  and then has run, or it never was; a process that is killed still has it on its list. `KeyInv`: of the events that wait in the queue, the last
  one that is a joystick key is `newest`; if there is none, and a key wrote SWCHA last, it is
  that key; and SWCHA shows the last key. `LastKeyWins` alone says nothing of a queue that is
  not empty, and so is not inductive. `TurnInv`: before and after a turn of the input the memory
  is what the program has seen, and within it this with at most one key; it is inductive because a key leaves what it
  would have left without the key before it (`KeysDoNotAddUp`).

Only model-checked: liveness (`KeepsDisplaying`, `Expires`, `PicturesKeepComing`, `WaitEnds`,
`QuitEnds`, `TurnsGoOn`), which is out of the prover's reach; the statements of section 4, which are violated; and the contents of the
instruction table, which are data.

## 6. What is not modelled

* `init_color_map()`: a table of which one entry is used.
* SDL: `display()` is the moment it is called; what the window shows is not modelled, nor are the
  checks of SDL's return values there, which only print.
* The queue of events is not composed with the address space: a turn of `MainLoop` takes the outcome of
  a queue, one key or none. That this is all a queue can do is `ProcessImplementsTurns`.
* The `long` cycle counters running over after years of emulation.
* Disassembler, log, exceptions, build files: output only, or nothing.

## 7. What could follow

1. Other ways to wait: a loop with work of its own between two looks at INTIM.
2. An abstract countdown that `PiaTimer` implements, to replace its histories.
3. `WaitEnds` and `Expires` from a variant that decreases: the safety half of the argument (every turn that
   does not expire the timer takes cycles or an interval off) can be proved.

## 8. Running it

In this directory: `tlc -workers 2 -config MCCpu.cfg MCCpu` (any row of section 3; of section 4, the
`Doc*` configurations belong to `MCCpuDoc`, `LineIsTotalWidth` and `TiaInBuffer` to `MCTia`, `KeyMovesItsDirection` and
`FailureReported` to `MCLifecycle`), and `tlapm CpuProofs.tla` for the proofs. Operators named
`<definition>_<Change>` are mutated forms of the definition before or after them; no
specification uses them, they show that the properties notice the change.
