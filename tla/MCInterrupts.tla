---------------------------- MODULE MCInterrupts ----------------------------
(***************************************************************************)
(* Instances of Interrupts.  Scancode 1 is a letter, 2 is Enter, 3 a key   *)
(* that keymap does not know (Shift), 129 a key release.                   *)
(***************************************************************************)
EXTENDS Interrupts

Keymap == [s \in Scancodes |->
    CASE s = 1 -> 1 [] s = 2 -> 2 [] OTHER -> 0]

NoSleeps == <<>>
TwoSleeps == <<1, 3>>
=============================================================================
