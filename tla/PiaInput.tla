------------------------------ MODULE PiaInput ------------------------------
(***************************************************************************)
(* What a key does to the joystick register (pia.c, pia_process_input();   *)
(* tia.c, process_input(); mspace.c, p2()), as operators on a memory.      *)
(*                                                                         *)
(* A key is the scancode that handle_input() reads from an event.          *)
(***************************************************************************)
EXTENDS Mspace

(* The argument of clear_bit() for every key of the switch. *)
JoystickBit ==
    [W |-> 4, A |-> 6, S |-> 5, D |-> 7, UP |-> 0, LEFT |-> 2, DOWN |-> 1, RIGHT |-> 3]

JoystickKeys == DOMAIN JoystickBit
QuitKeys == {"Q", "ESCAPE"}

(* The loop doubles once more than n times.                                *)
p2(n) == 2^(n + 1)

(* Mutant of clear_bit(): p2(n) is taken off without a test.               *)
clear_bit_Minus(reg, n) == reg - p2(n)

(* reg &= ~p2(n): the bit is that of p2(n), and a byte has no bit 8.       *)
clear_bit(reg, n) == IF (reg \div p2(n)) % 2 = 1 THEN reg - p2(n) ELSE reg

(* Every key of the joystick sets all bits of SWCHA before it clears one.  *)
KeyByte(code) == clear_bit(\hFF, JoystickBit[code])

(* Mutant of pia_process_input(): without the set_byte(SWCHA, 0xff).       *)
pia_process_input_Adding(m, code) ==
    IF code \in JoystickKeys
    THEN Put(m, SWCHA, clear_bit(Fetch(m, SWCHA), JoystickBit[code]))
    ELSE m

pia_process_input(m, code) ==
    IF code \in JoystickKeys THEN Put(m, SWCHA, KeyByte(code)) ELSE m

=============================================================================
