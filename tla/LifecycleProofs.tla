-------------------------- MODULE LifecycleProofs ---------------------------
(***************************************************************************)
(* Proofs about Lifecycle, for every set of event types and codes and      *)
(* every length of the queue: its type invariant, the one call of          *)
(* SDL_Quit() of a process that exits, the key that SWCHA shows, and that  *)
(* a turn of the input is one step to the program (InputTurns).            *)
(***************************************************************************)
EXTENDS Lifecycle, MspaceProofs, SequenceTheorems

(* ---------------------------- Type correctness ------------------------- *)

LEMMA SwchaAddr == SWCHA \in Addr
BY InAddr, SMT DEF SWCHA

LEMMA EmptyMemory == IsMemory(<< >>)
BY SMT DEF IsMemory

LEMMA InitType == Init => TypeOK
<1>. SUFFICES ASSUME Init PROVE TypeOK
  OBVIOUS
<1>1. handlers \in Seq({"emu_free"}) /\ queue \in Seq(Event) /\ Len(queue) <= MaxQueue
  BY LifecycleAssumption, SMT DEF Init
<1>2. IsMemory(mem)
  BY EmptyMemory DEF Init
<1>. QED
  BY <1>1, <1>2 DEF Init, TypeOK

LEMMA TailOf ==
    ASSUME NEW D, NEW s \in Seq(D), s # <<>>
    PROVE  /\ Tail(s) \in Seq(D) /\ Len(Tail(s)) = Len(s) - 1 /\ Head(s) \in D /\ Head(s) = s[1]
           /\ \A i \in 1..(Len(s) - 1) : Tail(s)[i] = s[i + 1]
BY SMT

LEMMA LastOff ==
    ASSUME NEW D, NEW s \in Seq(D), s # <<>>
    PROVE  /\ SubSeq(s, 1, Len(s) - 1) \in Seq(D)
           /\ Len(SubSeq(s, 1, Len(s) - 1)) = Len(s) - 1
<1>1. PICK n \in Int : n = Len(s) - 1 /\ n >= 0
  BY SMT
<1>2. \A i \in 1..n : s[i] \in D
  BY <1>1, SMT
<1>3. SubSeq(s, 1, n) \in Seq(D) /\ Len(SubSeq(s, 1, n)) = IF 1 <= n THEN (n - 1) + 1 ELSE 0
  BY <1>2, SubSeqProperties, SMT
<1>4. (IF 1 <= n THEN (n - 1) + 1 ELSE 0) = n
  BY <1>1, SMT
<1>. QED
  BY <1>1, <1>3, <1>4

LEMMA NextType == TypeOK /\ [Next]_processVars => TypeOK'
<1>. SUFFICES ASSUME TypeOK, [Next]_processVars PROVE TypeOK'
  OBVIOUS
<1>e. EXIT_SUCCESS = 0 /\ EXIT_FAILURE = 1
  BY DEF EXIT_SUCCESS, EXIT_FAILURE
<1>b. IsMemory(mem') => IsMemory(before')
  BY DEF Next, Step, UserEvent, processVars, TypeOK
<1>1. CASE too_few_arguments \/ load_cartridge \/ tia_init \/ main_returns \/ crash
           \/ poll_empty \/ process_ends
  BY <1>1, <1>b, <1>e DEF too_few_arguments, load_cartridge, tia_init, main_returns, crash, poll_empty,
                    process_ends, exit, TypeOK
<1>2. CASE emu_init
  <2>1. handlers' \in Seq({"emu_free"})
    BY <1>2 DEF emu_init, TypeOK
  <2>. QED
    BY <1>2, <1>b, <2>1 DEF emu_init, TypeOK
<1>3. CASE turn
  <2>1. IsMemory(mem') /\ last' \in {"none", "program"} \cup JoystickKeys
    BY <1>3, SwchaAddr, PutMemory, LifecycleAssumption DEF turn, TypeOK
  <2>. QED
    BY <1>3, <1>b, <2>1 DEF turn, TypeOK
<1>4. CASE poll
  <2>1. queue' \in Seq(Event) /\ Len(queue') <= MaxQueue
    <3>1. queue' = Tail(queue) /\ queue # <<>> /\ queue \in Seq(Event) /\ Len(queue) <= MaxQueue
      BY <1>4 DEF poll, TypeOK
    <3>. QED
      BY <3>1, TailOf, LifecycleAssumption, SMT
  <2>2. /\ IsMemory(mem') /\ last' \in {"none", "program"} \cup JoystickKeys
        /\ stage' \in {"handle_input", "exit"}
        /\ exit_status' \in {NoStatus, EXIT_SUCCESS, EXIT_FAILURE}
    <3>1. CASE stage' = "exit" /\ exit_status' = EXIT_SUCCESS /\ UNCHANGED <<mem, last>>
      BY <3>1 DEF TypeOK
    <3>2. ASSUME NEW code, process_input(code), code \notin QuitKeys
          PROVE  /\ IsMemory(mem') /\ last' \in {"none", "program"} \cup JoystickKeys
                 /\ UNCHANGED <<stage, exit_status>>
      BY <3>2, InputKeeps DEF process_input, TypeOK
    <3>. QED
      BY <1>4, <3>1, <3>2 DEF poll, process_input, exit, TypeOK
  <2>. QED
    BY <1>4, <1>b, <2>1, <2>2 DEF poll, TypeOK
<1>5. CASE emu_free
  <2>1. handlers' \in Seq({"emu_free"})
    BY <1>5, LastOff DEF emu_free, TypeOK
  <2>2. quits' \in Nat
    BY <1>5 DEF emu_free, TypeOK
  <2>. QED
    BY <1>5, <1>b, <2>1, <2>2 DEF emu_free, exit, TypeOK
<1>6. CASE UserEvent
  <2>1. PICK e \in Event : /\ queue' = Append(queue, e)
                           /\ newest' = IF e.type # "SDL_QUIT" /\ e.code \in JoystickKeys
                                        THEN e.code ELSE newest
    BY <1>6 DEF UserEvent
  <2>2. queue' \in Seq(Event) /\ Len(queue') <= MaxQueue
    BY <1>6, <2>1, LifecycleAssumption, SMT DEF UserEvent, TypeOK
  <2>3. newest' \in {"none"} \cup JoystickKeys
    BY <2>1 DEF TypeOK
  <2>. QED
    BY <1>6, <1>b, <2>2, <2>3 DEF UserEvent, TypeOK
<1>7. CASE UNCHANGED processVars
  BY <1>7 DEF processVars, TypeOK
<1>. QED
  BY <1>1, <1>2, <1>3, <1>4, <1>5, <1>6, <1>7 DEF Next, Step

(***************************************************************************)
(* The state of the process keeps its types; the queue keeps its length.   *)
(***************************************************************************)
THEOREM TypeCorrect == Spec => []TypeOK
<1>. QED
  BY InitType, NextType, PTL DEF Spec

(* ------------------------------ The exit ------------------------------- *)

(* The handler is registered or has run, or the process never got so far.  *)
FreedInv ==
    /\ stage = "main" => handlers = <<>> /\ quits = 0 /\ last = "none"
    /\ stage \in {"load_cartridge", "tia_init", "loop", "handle_input", "killed"} =>
            Len(handlers) = 1 /\ quits = 0
    /\ stage \in {"exit", "ended"} =>
            \/ Len(handlers) = 1 /\ quits = 0
            \/ handlers = <<>> /\ quits = 1
            \/ handlers = <<>> /\ quits = 0 /\ exit_status = EXIT_FAILURE /\ last = "none"
    /\ stage = "ended" => handlers = <<>>

LEMMA FreedNext == TypeOK /\ FreedInv /\ [Next]_processVars => FreedInv'
<1>. SUFFICES ASSUME TypeOK, FreedInv, [Next]_processVars PROVE FreedInv'
  OBVIOUS
<1>1. CASE too_few_arguments
  BY <1>1 DEF too_few_arguments, exit, FreedInv, EXIT_FAILURE
<1>2. CASE emu_init
  <2>1. Len(handlers') = 1 /\ quits' = 0 /\ stage' = "load_cartridge"
    BY <1>2, SMT DEF emu_init, FreedInv
  <2>. QED
    BY <2>1 DEF FreedInv
<1>3. CASE load_cartridge \/ tia_init \/ main_returns
  BY <1>3 DEF load_cartridge, tia_init, main_returns, exit, FreedInv
<1>4. CASE turn \/ crash \/ poll_empty
  BY <1>4 DEF turn, crash, poll_empty, FreedInv
<1>5. CASE poll
  <2>1. stage = "handle_input" /\ stage' \in {"handle_input", "exit"} /\ UNCHANGED <<handlers, quits>>
    BY <1>5 DEF poll, process_input, exit
  <2>. QED
    BY <2>1 DEF FreedInv
<1>6. CASE emu_free
  <2>1. /\ stage = "exit" /\ handlers # <<>> /\ stage' = "exit"
        /\ handlers' = SubSeq(handlers, 1, Len(handlers) - 1) /\ quits' = quits + 1
    BY <1>6 DEF emu_free, exit
  <2>2. Len(handlers) = 1 /\ quits = 0
    BY <2>1 DEF FreedInv
  <2>3. Len(handlers') = 0 /\ handlers' \in Seq({"emu_free"})
    BY <2>1, <2>2, LastOff, SMT DEF TypeOK
  <2>4. handlers' = <<>> /\ quits' = 1
    BY <2>1, <2>2, <2>3, SMT
  <2>. QED
    BY <2>1, <2>4 DEF FreedInv
<1>7. CASE process_ends
  BY <1>7 DEF process_ends, FreedInv
<1>8. CASE UserEvent \/ UNCHANGED processVars
  BY <1>8 DEF UserEvent, processVars, FreedInv
<1>. QED
  BY <1>1, <1>2, <1>3, <1>4, <1>5, <1>6, <1>7, <1>8 DEF Next, Step

(***************************************************************************)
(* A process that exits, or whose main() returns, has called SDL_Quit()    *)
(* once when it ends, although emu_free() calls exit() while it is run by  *)
(* exit(); a process without a cartridge to load and one that is killed by *)
(* a signal leave it out.                                                  *)
(***************************************************************************)
THEOREM QuitsOnce == Spec => []FreedOnce
<1>1. Init => TypeOK /\ FreedInv
  BY InitType DEF Init, FreedInv
<1>2. TypeOK /\ FreedInv /\ [Next]_processVars => TypeOK' /\ FreedInv'
  BY NextType, FreedNext
<1>3. TypeOK /\ FreedInv => FreedOnce
  <2>. SUFFICES ASSUME TypeOK, FreedInv PROVE FreedOnce
    OBVIOUS
  <2>1. quits \in {0, 1}
    BY DEF TypeOK, FreedInv
  <2>2. stage = "ended" /\ quits = 0 => exit_status = EXIT_FAILURE /\ last = "none"
    <3>1. Len(<<>>) # 1
      BY SMT
    <3>. QED
      BY <3>1 DEF FreedInv
  <2>3. stage = "killed" => quits = 0
    BY DEF FreedInv
  <2>. QED
    BY <2>1, <2>2, <2>3, SMT DEF FreedOnce
<1>. QED
  BY <1>1, <1>2, <1>3, PTL DEF Spec

(* ------------------------------- The keys ------------------------------ *)

(* The i-th event of the queue will change SWCHA. *)
Waiting(i) == queue[i].type # "SDL_QUIT" /\ queue[i].code \in JoystickKeys

(* The last of the events that wait to change SWCHA carries the newest     *)
(* key; when none waits, a key that wrote SWCHA last is the newest.        *)
KeyInv ==
    /\ \A i \in 1..Len(queue) :
            Waiting(i) /\ (\A j \in 1..Len(queue) : j > i => ~Waiting(j)) => queue[i].code = newest
    /\ (\A i \in 1..Len(queue) : ~Waiting(i)) /\ last \in JoystickKeys => last = newest
    /\ last \in JoystickKeys => Fetch(mem, SWCHA) = KeyByte(last)

LEMMA KeyPolled ==
    ASSUME TypeOK, KeyInv, poll
    PROVE  KeyInv'
<1>. DEFINE n == Len(queue)
<1>1. /\ queue \in Seq(Event) /\ queue # <<>> /\ queue' = Tail(queue) /\ n \in Int /\ n >= 1
      /\ newest' = newest
  BY SMT DEF TypeOK, poll
<1>2. /\ Len(queue') = n - 1 /\ Head(queue) = queue[1]
      /\ \A i \in 1..(n - 1) : queue'[i] = queue[i + 1]
  BY <1>1, TailOf
<1>3. \A i \in 1..(n - 1) : i + 1 \in 1..n /\ Waiting(i)' = Waiting(i + 1)
  BY <1>1, <1>2, SMT DEF Waiting
<1>4. IF Waiting(1) THEN last' = queue[1].code /\ Fetch(mem', SWCHA) = KeyByte(last')
                    ELSE UNCHANGED <<mem, last>>
  <2>1. CASE queue[1].type = "SDL_QUIT" \/ queue[1].code \in QuitKeys
    <3>1. UNCHANGED <<mem, last>>
      BY <1>2, <2>1 DEF poll, process_input
    <3>2. ~Waiting(1)
      BY <2>1 DEF Waiting, QuitKeys, JoystickKeys, JoystickBit
    <3>. QED
      BY <3>1, <3>2
  <2>2. CASE queue[1].type # "SDL_QUIT" /\ queue[1].code \notin QuitKeys
    <3>1. /\ mem' = pia_process_input(mem, queue[1].code)
          /\ last' = IF queue[1].code \in JoystickKeys THEN queue[1].code ELSE last
      BY <1>2, <2>2 DEF poll, process_input
    <3>. QED
      BY <2>2, <3>1, PutReads DEF Waiting, pia_process_input
  <2>. QED
    BY <2>1, <2>2
<1>5. \A i \in 1..(n - 1) :
          Waiting(i)' /\ (\A j \in 1..(n - 1) : j > i => ~Waiting(j)') => queue'[i].code = newest
  <2>. SUFFICES ASSUME NEW i \in 1..(n - 1), Waiting(i)',
                       \A j \in 1..(n - 1) : j > i => ~Waiting(j)'
                PROVE  queue'[i].code = newest
    OBVIOUS
  <2>1. i + 1 \in 1..n /\ Waiting(i + 1) /\ queue'[i] = queue[i + 1]
    BY <1>2, <1>3
  <2>2. ASSUME NEW j \in 1..n, j > i + 1 PROVE ~Waiting(j)
    <3>1. j - 1 \in 1..(n - 1) /\ j - 1 > i /\ (j - 1) + 1 = j
      BY <1>1, <2>2, SMT
    <3>. QED
      BY <1>3, <3>1
  <2>. QED
    BY <2>1, <2>2 DEF KeyInv
<1>6. (\A i \in 1..(n - 1) : ~Waiting(i)') /\ last' \in JoystickKeys => last' = newest
  <2>. SUFFICES ASSUME \A i \in 1..(n - 1) : ~Waiting(i)', last' \in JoystickKeys
                PROVE  last' = newest
    OBVIOUS
  <2>1. ASSUME NEW j \in 1..n, j > 1 PROVE ~Waiting(j)
    <3>1. j - 1 \in 1..(n - 1) /\ (j - 1) + 1 = j
      BY <1>1, <2>1, SMT
    <3>. QED
      BY <1>3, <3>1
  <2>2. 1 \in 1..n /\ \A j \in 1..n : j = 1 \/ j > 1
    BY <1>1, SMT
  <2>3. CASE Waiting(1)
    BY <1>4, <2>1, <2>2, <2>3 DEF KeyInv
  <2>4. CASE ~Waiting(1)
    BY <1>4, <2>1, <2>2, <2>4 DEF KeyInv
  <2>. QED
    BY <2>3, <2>4
<1>7. last' \in JoystickKeys => Fetch(mem', SWCHA) = KeyByte(last')
  BY <1>4 DEF KeyInv
<1>. QED
  BY <1>1, <1>2, <1>5, <1>6, <1>7 DEF KeyInv

LEMMA KeyArrives ==
    ASSUME TypeOK, KeyInv, UserEvent
    PROVE  KeyInv'
<1>n. PICK n \in Int : n = Len(queue) /\ n >= 0
  BY SMT DEF TypeOK
<1>1. PICK e \in Event : /\ queue' = Append(queue, e)
                         /\ newest' = IF e.type # "SDL_QUIT" /\ e.code \in JoystickKeys
                                      THEN e.code ELSE newest
  BY DEF UserEvent
<1>2. /\ queue \in Seq(Event) /\ Len(queue') = n + 1
      /\ queue'[n + 1] = e /\ \A i \in 1..n : queue'[i] = queue[i]
  BY <1>n, <1>1, SMT DEF TypeOK
<1>3. /\ n + 1 \in 1..(n + 1) /\ \A i \in 1..n : i \in 1..(n + 1) /\ n + 1 > i
      /\ \A i \in 1..(n + 1) : i = n + 1 \/ i \in 1..n
  BY <1>n, SMT
<1>4. \A i \in 1..n : Waiting(i)' = Waiting(i)
  BY <1>2 DEF Waiting
<1>5. last' = last /\ mem' = mem
  BY DEF UserEvent
<1>6. CASE e.type # "SDL_QUIT" /\ e.code \in JoystickKeys
  <2>1. newest' = e.code /\ Waiting(n + 1)'
    BY <1>1, <1>2, <1>6 DEF Waiting
  <2>2. ASSUME NEW i \in 1..(n + 1), \A j \in 1..(n + 1) : j > i => ~Waiting(j)'
        PROVE  queue'[i].code = newest'
    BY <1>2, <1>3, <2>1, <2>2
  <2>. QED
    BY <1>n, <1>2, <1>3, <1>5, <2>1, <2>2 DEF KeyInv
<1>7. CASE ~(e.type # "SDL_QUIT" /\ e.code \in JoystickKeys)
  <2>1. newest' = newest /\ ~Waiting(n + 1)'
    BY <1>1, <1>2, <1>7 DEF Waiting
  <2>2. ASSUME NEW i \in 1..(n + 1), Waiting(i)', \A j \in 1..(n + 1) : j > i => ~Waiting(j)'
        PROVE  queue'[i].code = newest
    <3>1. i \in 1..n /\ Waiting(i)
      BY <1>3, <1>4, <2>1, <2>2
    <3>2. \A j \in 1..n : j > i => ~Waiting(j)
      BY <1>3, <1>4, <2>2
    <3>. QED
      BY <1>n, <1>2, <3>1, <3>2 DEF KeyInv
  <2>3. (\A i \in 1..(n + 1) : ~Waiting(i)') => \A i \in 1..n : ~Waiting(i)
    BY <1>3, <1>4
  <2>. QED
    BY <1>n, <1>2, <1>5, <2>1, <2>2, <2>3 DEF KeyInv
<1>. QED
  BY <1>6, <1>7

LEMMA KeyNext == TypeOK /\ KeyInv /\ [Next]_processVars => KeyInv'
<1>. SUFFICES ASSUME TypeOK, KeyInv, [Next]_processVars PROVE KeyInv'
  OBVIOUS
<1>1. CASE UNCHANGED <<queue, mem, last, newest>>
  BY <1>1 DEF KeyInv, Waiting
<1>2. CASE turn
  <2>1. /\ UNCHANGED <<queue, newest>>
        /\ UNCHANGED <<mem, last>> \/ last' = "program"
    BY <1>2 DEF turn
  <2>2. "program" \notin JoystickKeys
    BY DEF JoystickKeys, JoystickBit
  <2>. QED
    BY <2>1, <2>2 DEF KeyInv, Waiting
<1>3. CASE too_few_arguments \/ emu_init \/ load_cartridge \/ tia_init \/ main_returns \/ crash
           \/ poll_empty \/ emu_free \/ process_ends \/ UNCHANGED processVars
  BY <1>1, <1>3 DEF too_few_arguments, emu_init, load_cartridge, tia_init, main_returns, crash,
                    poll_empty, emu_free, process_ends, processVars
<1>. QED
  BY <1>2, <1>3, KeyPolled, KeyArrives DEF Next, Step

(***************************************************************************)
(* The register shows the newest key as soon as the queue is empty, in     *)
(* whatever order keys, other events and stores of the program come.       *)
(***************************************************************************)
THEOREM NewestKeyShows == Spec => []LastKeyWins
<1>1. Init => TypeOK /\ KeyInv
  <2>1. "none" \notin JoystickKeys
    BY DEF JoystickKeys, JoystickBit
  <2>2. Init => \A i \in 1..Len(queue) : FALSE
    BY SMT DEF Init
  <2>. QED
    BY <2>1, <2>2, InitType DEF Init, KeyInv
<1>2. TypeOK /\ KeyInv /\ [Next]_processVars => TypeOK' /\ KeyInv'
  BY NextType, KeyNext
<1>3. KeyInv => LastKeyWins
  <2>1. queue = <<>> => \A i \in 1..Len(queue) : FALSE
    BY SMT
  <2>. QED
    BY <2>1 DEF KeyInv, LastKeyWins
<1>. QED
  BY <1>1, <1>2, <1>3, PTL DEF Spec

(* ------------------------- The turns of the input ---------------------- *)

LEMMA PutAgain ==
    ASSUME NEW m, NEW a, NEW x, NEW y
    PROVE  Put(Put(m, a, x), a, y) = Put(m, a, y)
BY SMT DEF Put

(* In a turn of the input the memory is the one before it with one key. *)
OneKey == \E code \in JoystickKeys : mem = pia_process_input(before, code)

TurnInv ==
    /\ stage \in {"main", "load_cartridge", "tia_init", "loop"} => mem = before
    /\ stage = "handle_input" => mem = before \/ OneKey

(* A key that comes after another one leaves what it would have left       *)
(* without it.                                                             *)
LEMMA KeysDoNotAddUp ==
    ASSUME mem = before \/ OneKey, NEW code \in JoystickKeys
    PROVE  pia_process_input(mem, code) = pia_process_input(before, code)
<1>1. CASE mem = before
  BY <1>1
<1>2. CASE OneKey
  <2>1. PICK other \in JoystickKeys : mem = Put(before, SWCHA, KeyByte(other))
    BY <1>2 DEF OneKey, pia_process_input
  <2>. QED
    BY <2>1, PutAgain DEF pia_process_input
<1>. QED
  BY <1>1, <1>2

LEMMA TurnNext == TurnInv /\ [Next]_processVars => TurnInv'
<1>. SUFFICES ASSUME TurnInv, [Next]_processVars PROVE TurnInv'
  OBVIOUS
<1>1. CASE Step /\ (too_few_arguments \/ emu_init \/ load_cartridge \/ tia_init)
  BY <1>1 DEF Step, too_few_arguments, emu_init, load_cartridge, tia_init, exit, TurnInv
<1>2. CASE Step /\ (turn \/ poll_empty)
  BY <1>2 DEF Step, turn, poll_empty, TurnInv
<1>3. CASE Step /\ poll
  <2>1. stage = "handle_input" /\ stage' \in {"handle_input", "exit"} /\ before' = before
    BY <1>3 DEF Step, poll, process_input, exit
  <2>2. CASE mem' = mem
    BY <2>1, <2>2 DEF TurnInv, OneKey
  <2>3. CASE mem' # mem
    <3>1. PICK code : mem' = pia_process_input(mem, code)
      BY <1>3, <2>3 DEF poll, process_input
    <3>2. code \in JoystickKeys
      BY <2>3, <3>1 DEF pia_process_input
    <3>3. mem' = pia_process_input(before, code)
      BY <2>1, <3>1, <3>2, KeysDoNotAddUp DEF TurnInv
    <3>. QED
      BY <2>1, <3>2, <3>3 DEF TurnInv, OneKey
  <2>. QED
    BY <2>2, <2>3
<1>4. CASE Step /\ (main_returns \/ crash \/ emu_free \/ process_ends)
  BY <1>4 DEF main_returns, crash, emu_free, process_ends, exit, TurnInv
<1>5. CASE UserEvent \/ UNCHANGED processVars
  BY <1>5 DEF UserEvent, processVars, TurnInv, OneKey
<1>. QED
  BY <1>1, <1>2, <1>3, <1>4, <1>5 DEF Next, Step

(* InputTurns reads and writes the memory as Lifecycle does. *)
LEMMA SameMemory ==
    /\ Turns!Byte = Byte /\ Turns!SWCHA = SWCHA /\ Turns!JoystickKeys = JoystickKeys
    /\ \A m, a, b : Turns!Put(m, a, b) = Put(m, a, b)
    /\ \A m, code : Turns!pia_process_input(m, code) = pia_process_input(m, code)
<1>1. Turns!Byte = Byte /\ Turns!SWCHA = SWCHA
  BY DEF Turns!Byte, Byte, Turns!SWCHA, SWCHA
<1>2. Turns!JoystickBit = JoystickBit /\ Turns!JoystickKeys = JoystickKeys
  BY DEF Turns!JoystickKeys, JoystickKeys, Turns!JoystickBit, JoystickBit
<1>3. ASSUME NEW m, NEW a, NEW b PROVE Turns!Put(m, a, b) = Put(m, a, b)
  BY DEF Turns!Put, Put
<1>4. ASSUME NEW code PROVE Turns!KeyByte(code) = KeyByte(code)
  BY <1>2 DEF Turns!KeyByte, KeyByte, Turns!clear_bit, clear_bit, Turns!p2, p2
<1>. QED
  BY <1>1, <1>2, <1>3, <1>4 DEF Turns!pia_process_input, pia_process_input

(* Every step of the process is a turn of the program or of the input, or  *)
(* nothing to the program.                                                 *)
LEMMA TurnStep ==
    ASSUME TurnInv, [Next]_processVars
    PROVE  [Turns!Next]_<<At, before>>
<1>a. /\ stage = "loop" => At = "program"
      /\ stage = "handle_input" => At = "input"
      /\ stage \in {"main", "load_cartridge", "tia_init"} => At = "start"
      /\ stage \in {"exit", "ended", "killed"} => At = "over"
  BY DEF At
<1>b. /\ stage' = "loop" => At' = "program"
      /\ stage' = "handle_input" => At' = "input"
      /\ stage' \in {"main", "load_cartridge", "tia_init"} => At' = "start"
      /\ stage' \in {"exit", "ended", "killed"} => At' = "over"
  BY DEF At
<1>1. CASE Step /\ (too_few_arguments \/ emu_init \/ load_cartridge \/ tia_init)
  <2>1. /\ stage \in {"main", "load_cartridge", "tia_init"}
        /\ stage' \in {"load_cartridge", "tia_init", "loop", "exit"}
        /\ before' = before
    BY <1>1 DEF Step, too_few_arguments, emu_init, load_cartridge, tia_init, exit, TurnInv
  <2>. QED
    BY <1>a, <1>b, <2>1 DEF Turns!Next, Turns!Start
<1>2. CASE Step /\ turn
  <2>1. stage = "loop" /\ stage' = "handle_input" /\ before' = mem' /\ mem = before
    BY <1>2 DEF Step, turn, TurnInv
  <2>2. mem' = mem \/ \E b \in Byte : mem' = Put(mem, SWCHA, b)
    BY <1>2, LifecycleAssumption DEF turn
  <2>. QED
    BY <1>a, <1>b, <2>1, <2>2, SameMemory DEF Turns!Next, Turns!Program
<1>3. CASE Step /\ (main_returns \/ crash)
  <2>1. stage = "loop" /\ stage' \in {"exit", "killed"} /\ before' = before
    BY <1>3 DEF Step, main_returns, crash, exit, TurnInv
  <2>. QED
    BY <1>a, <1>b, <2>1 DEF Turns!Next, Turns!Ends
<1>4. CASE Step /\ poll
  <2>1. stage = "handle_input" /\ stage' \in {"handle_input", "exit"} /\ before' = before
    BY <1>4 DEF Step, poll, process_input, exit
  <2>. QED
    BY <1>a, <1>b, <2>1 DEF Turns!Next, Turns!Quit
<1>5. CASE Step /\ poll_empty
  <2>1. /\ stage = "handle_input" /\ stage' = "loop" /\ before' = mem
        /\ mem = before \/ OneKey
    BY <1>5 DEF Step, poll_empty, TurnInv
  <2>. QED
    BY <1>a, <1>b, <2>1, SameMemory DEF Turns!Next, Turns!Input, OneKey
<1>6. CASE Step /\ (emu_free \/ process_ends)
  <2>1. stage = "exit" /\ stage' \in {"exit", "ended"} /\ before' = before
    BY <1>6 DEF Step, emu_free, process_ends, exit
  <2>. QED
    BY <1>a, <1>b, <2>1
<1>7. CASE UserEvent \/ UNCHANGED processVars
  BY <1>7 DEF UserEvent, processVars, At
<1>. QED
  BY <1>1, <1>2, <1>3, <1>4, <1>5, <1>6, <1>7 DEF Next, Step

(***************************************************************************)
(* The process is an implementation of the turns of InputTurns, so what    *)
(* the program finds in SWCHA after a turn of the input is what it left    *)
(* there with one key, or none, in its place.                              *)
(***************************************************************************)
THEOREM ProcessImplementsTurns == Spec => InputImplemented
<1>1. Init => Turns!Init /\ TurnInv
  BY DEF Init, Turns!Init, At, TurnInv
<1>2. TurnInv /\ [Next]_processVars => TurnInv' /\ [Turns!Next]_<<At, before>>
  BY TurnNext, TurnStep
<1>. QED
  BY <1>1, <1>2, PTL DEF Spec, InputImplemented, Turns!Spec

=============================================================================
