----------------------------- MODULE Lifecycle ------------------------------
(***************************************************************************)
(* The process (main.c, lines 10-27 and 77-92; tia.c, lines 355-428): how  *)
(* it starts, how the events of the user reach the joystick register or    *)
(* end it, and how it exits.                                               *)
(*                                                                         *)
(* An event is what SDL_PollEvent() delivers: its type, and the word that  *)
(* lies where a key event has its scancode, which handle_input() reads of  *)
(* every event that is not SDL_QUIT.  The program in the cartridge may do  *)
(* anything in its turns: store to SWCHA, crash, come to its end.          *)
(*                                                                         *)
(* exit() is that of the C library: it runs the registered handlers, last  *)
(* registered first, each once; a handler that calls exit() again sets a   *)
(* new status and has the handlers that are left run (glibc).              *)
(***************************************************************************)
EXTENDS PiaInput

CONSTANTS
    Codes,          \* the words an event may carry: scancodes and others
    EventTypes,     \* among them "SDL_QUIT", "SDL_KEYDOWN" and "SDL_KEYUP"
    Bytes,          \* what a program stores to SWCHA
    MaxQueue        \* the events SDL keeps; it drops what comes after

ASSUME LifecycleAssumption ==
    /\ "SDL_QUIT" \in EventTypes
    /\ Bytes \subseteq Byte
    /\ MaxQueue \in Nat \ {0}

VARIABLES
    stage,          \* where main() is
    handlers,       \* the functions atexit() has registered, in order
    exit_status,    \* the argument of the last exit(), or what main() returns
    mem,            \* the cell SWCHA
    queue,          \* the events SDL has collected
    failed,         \* whether a call that starts the emulator has failed
    quits,          \* how often SDL_Quit() was called
    last,           \* what wrote SWCHA last: a key, or the program
    newest,         \* the last key of the joystick that came to the queue
    before          \* SWCHA when handle_input() was called, until it returns

processVars == <<stage, handlers, exit_status, mem, queue, failed, quits, last, newest, before>>

EXIT_SUCCESS == 0
EXIT_FAILURE == 1
NoStatus == 0 - 1

Event == [type : EventTypes, code : Codes]

Init ==
    /\ stage = "main"
    /\ handlers = <<>>
    /\ exit_status = NoStatus
    /\ mem = << >>
    /\ queue = <<>>
    /\ failed = FALSE /\ quits = 0
    /\ last = "none" /\ newest = "none" /\ before = mem

-----------------------------------------------------------------------------
(* The start. *)

exit(status) == stage' = "exit" /\ exit_status' = status

(* argc < 2: main() returns 1 before anything is registered.               *)
too_few_arguments ==
    /\ stage = "main"
    /\ exit(1)
    /\ failed' = TRUE
    /\ UNCHANGED <<handlers, mem, queue, quits, last, newest>>

(* Mutant of the start of emu_init(): the handler is registered twice.     *)
emu_init_Twice ==
    /\ stage = "main"
    /\ stage' = "load_cartridge"
    /\ handlers' = <<"emu_free", "emu_free">>
    /\ UNCHANGED <<exit_status, mem, queue, failed, quits, last, newest>>

(* The tables of emu_init() follow, which cannot fail.                     *)
emu_init ==
    /\ stage = "main"
    /\ stage' = "load_cartridge"
    /\ handlers' = Append(handlers, "emu_free")
    /\ UNCHANGED <<exit_status, mem, queue, failed, quits, last, newest>>

load_cartridge ==
    /\ stage = "load_cartridge"
    /\ \/ stage' = "tia_init" /\ UNCHANGED <<exit_status, failed>>
       \/ exit(EXIT_FAILURE) /\ failed' = TRUE          \* no such file
    /\ UNCHANGED <<handlers, mem, queue, quits, last, newest>>

(* The window, the renderer or the texture may be refused. *)
tia_init ==
    /\ stage = "tia_init"
    /\ \/ stage' = "loop" /\ UNCHANGED <<exit_status, failed>>
       \/ exit(EXIT_FAILURE) /\ failed' = TRUE
    /\ UNCHANGED <<handlers, mem, queue, quits, last, newest>>

-----------------------------------------------------------------------------
(* The loop. *)

(* run_cpu() and run_tia(): the instruction may store to SWCHA. *)
turn ==
    /\ stage = "loop"
    /\ stage' = "handle_input"
    /\ \/ UNCHANGED <<mem, last>>
       \/ \E b \in Bytes : mem' = Put(mem, SWCHA, b) /\ last' = "program"
    /\ UNCHANGED <<handlers, exit_status, queue, failed, quits, newest>>

(* PC has come to the end of the address space: main() returns, and so 0.  *)
main_returns ==
    /\ stage = "loop"
    /\ exit(0)
    /\ UNCHANGED <<handlers, mem, queue, failed, quits, last, newest>>

(* The call of a null function: a signal ends the process, no handler runs. *)
crash ==
    /\ stage = "loop"
    /\ stage' = "killed"
    /\ UNCHANGED <<handlers, exit_status, mem, queue, failed, quits, last, newest>>

(* The user, at any time while there is a window. *)
UserEvent ==
    /\ stage \in {"loop", "handle_input"}
    /\ Len(queue) < MaxQueue
    /\ \E e \in Event :
          /\ queue' = Append(queue, e)
          /\ newest' = IF e.type # "SDL_QUIT" /\ e.code \in JoystickKeys THEN e.code ELSE newest
    /\ UNCHANGED <<stage, handlers, exit_status, mem, failed, quits, last, before>>

(* process_input(), and pia_process_input() for the keys of the joystick.  *)
process_input(code) ==
    IF code \in QuitKeys
    THEN exit(EXIT_SUCCESS) /\ UNCHANGED <<mem, last>>
    ELSE /\ mem' = pia_process_input(mem, code)
         /\ last' = IF code \in JoystickKeys THEN code ELSE last
         /\ UNCHANGED <<stage, exit_status>>

(* Mutant of one round of handle_input(): the newest event first.          *)
poll_Newest ==
    LET e == queue[Len(queue)]
    IN  /\ stage = "handle_input" /\ queue # <<>>
        /\ queue' = SubSeq(queue, 1, Len(queue) - 1)
        /\ IF e.type = "SDL_QUIT" THEN exit(EXIT_SUCCESS) /\ UNCHANGED <<mem, last>>
                                  ELSE process_input(e.code)
        /\ UNCHANGED <<handlers, failed, quits, newest>>

(* Mutant of one round of handle_input(): the event stays in the queue.    *)
poll_Keeps ==
    /\ stage = "handle_input" /\ queue # <<>>
    /\ UNCHANGED queue
    /\ IF Head(queue).type = "SDL_QUIT"
       THEN exit(EXIT_SUCCESS) /\ UNCHANGED <<mem, last>>
       ELSE process_input(Head(queue).code)
    /\ UNCHANGED <<handlers, failed, quits, newest>>

(* One round of the loop of handle_input(). *)
poll ==
    /\ stage = "handle_input" /\ queue # <<>>
    /\ queue' = Tail(queue)
    /\ IF Head(queue).type = "SDL_QUIT"
       THEN exit(EXIT_SUCCESS) /\ UNCHANGED <<mem, last>>
       ELSE process_input(Head(queue).code)
    /\ UNCHANGED <<handlers, failed, quits, newest>>

(* SDL_PollEvent() returns 0; the turn of the timer follows. *)
poll_empty ==
    /\ stage = "handle_input" /\ queue = <<>>
    /\ stage' = "loop"
    /\ UNCHANGED <<handlers, exit_status, mem, queue, failed, quits, last, newest>>

-----------------------------------------------------------------------------
(* The exit. *)

(* The last registered handler is taken off the list and run: emu_free()   *)
(* calls SDL_Quit(), and exit() again.                                     *)
emu_free ==
    /\ stage = "exit" /\ handlers # <<>>
    /\ handlers' = SubSeq(handlers, 1, Len(handlers) - 1)
    /\ quits' = quits + 1
    /\ exit(EXIT_SUCCESS)
    /\ UNCHANGED <<mem, queue, failed, last, newest>>

(* No handler is left. *)
process_ends ==
    /\ stage = "exit" /\ handlers = <<>>
    /\ stage' = "ended"
    /\ UNCHANGED <<handlers, exit_status, mem, queue, failed, quits, last, newest>>

Step ==
    /\ \/ too_few_arguments \/ emu_init \/ load_cartridge \/ tia_init
       \/ turn \/ main_returns \/ crash
       \/ poll \/ poll_empty
       \/ emu_free \/ process_ends
    /\ before' = IF "loop" \in {stage, stage'} THEN mem' ELSE before

Next == Step \/ UserEvent

Spec == Init /\ [][Next]_processVars

(* The process takes its steps one after the other and waits for nothing;  *)
(* only the user may stay away.                                            *)
FairSpec == Spec /\ WF_processVars(Step)

-----------------------------------------------------------------------------
(* Type correctness.                                                       *)
TypeOK ==
    /\ stage \in {"main", "load_cartridge", "tia_init", "loop", "handle_input",
                  "exit", "ended", "killed"}
    /\ handlers \in Seq({"emu_free"})
    /\ exit_status \in {NoStatus, EXIT_SUCCESS, EXIT_FAILURE}
    /\ IsMemory(mem) /\ IsMemory(before)
    /\ queue \in Seq(Event) /\ Len(queue) <= MaxQueue
    /\ failed \in BOOLEAN /\ quits \in Nat
    /\ last \in {"none", "program"} \cup JoystickKeys
    /\ newest \in {"none"} \cup JoystickKeys

(* When every event has been handled and a key wrote SWCHA last, it is the *)
(* newest key of the joystick, and the register shows this key and no key  *)
(* before it (pia.c, lines 43-98).  A key that is let go is as new as one  *)
(* that is pressed.                                                        *)
LastKeyWins ==
    stage = "loop" /\ queue = <<>> /\ last \in JoystickKeys =>
        last = newest /\ Fetch(mem, SWCHA) = KeyByte(newest)

(* What the program sees of where main() is. *)
At ==
    CASE stage = "loop" -> "program"
      [] stage = "handle_input" -> "input"
      [] stage \in {"main", "load_cartridge", "tia_init"} -> "start"
      [] OTHER -> "over"

Turns == INSTANCE InputTurns WITH at <- At, mem <- before

(* To the program a turn of the input is one step with one key at most,    *)
(* however many events handle_input() takes from the queue and however     *)
(* many of them write SWCHA: the keys do not add up (tia.c, lines 419-428, *)
(* pia.c, lines 43-98).                                                    *)
InputImplemented == Turns!Spec

(* A process that exits, or whose main() returns, has called SDL_Quit()    *)
(* once when it ends, although emu_free() exits again (main.c, lines       *)
(* 10-14).  Two never call it: the process that was called without a file, *)
(* which has not registered emu_free(), and the one that a signal kills at *)
(* a null function of the instruction table (cpu.c, line 2075), which runs *)
(* no handler and leaves the window to the system.                         *)
FreedOnce ==
    /\ quits <= 1
    /\ stage = "ended" /\ quits = 0 => exit_status = EXIT_FAILURE /\ last = "none"
    /\ stage = "killed" => quits = 0

(* The user who asks to quit gets the process to end, whatever else is in  *)
(* the queue and keeps coming (tia.c, lines 418-428).                      *)
AskedToQuit ==
    \E i \in DOMAIN queue : queue[i].type = "SDL_QUIT" \/ queue[i].code \in QuitKeys

QuitEnds == AskedToQuit ~> stage \in {"ended", "killed"}

(* handle_input() goes on until the queue is empty, so the emulation       *)
(* stands still as long as events come as fast as they are handled; when   *)
(* they stop coming it goes on, until the process ends.                    *)
TurnsGoOn ==
    <>[][~UserEvent]_processVars => []<>(stage = "loop") \/ <>(stage \in {"ended", "killed"})

-----------------------------------------------------------------------------
(* What the code and the documents say.                                    *)

(* mspace.c, line 111, and tia.c, line 380: a start that fails ends in     *)
(* exit(EXIT_FAILURE).                                                     *)
FailureReported == stage = "ended" /\ failed => exit_status = EXIT_FAILURE

(* 2k6specs.htm, lines 821-824: "0=Moved, 1=Not moved", Up of player 0 in  *)
(* SWCHA.4 and so on; the keys of pia.c, lines 48-94, with the arrow keys  *)
(* for player 1.                                                           *)
DirectionBit ==
    [W |-> 4, S |-> 5, A |-> 6, D |-> 7, UP |-> 0, DOWN |-> 1, LEFT |-> 2, RIGHT |-> 3]

KeyMovesItsDirection ==
    last \in JoystickKeys => BitsOf(Fetch(mem, SWCHA)) = Bit \ {DirectionBit[last]}

=============================================================================
