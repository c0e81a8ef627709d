------------------------------ MODULE Keyboard ------------------------------
(***************************************************************************)
(* What the keyboard's interrupt does with a code (dev/kbd.c): a function  *)
(* from kbd_state and the code to the state after it and to what the code  *)
(* causes, a character for tty_in or a call of tty_select.                 *)
(*                                                                         *)
(* A code is the number of a key and whether it is pressed or released.    *)
(* Letters and the keys with two symbols are told apart by their key; the  *)
(* characters are <<"small", key>> and <<"capital", key>> of a letter, and *)
(* <<"normal", key>> and <<"func", key>> of any other key.                 *)
(***************************************************************************)
EXTENDS Integers

RSHIFT == 54   \* KEY_RSHIFT and so on
LSHIFT == 42
CAPS   == 58
ALT    == 56
CTRL   == 29
FKeys  == 59..66
KeyS == 31
KeyB == 48
Letters == (16..25) \cup (30..38) \cup (44..50)

Make(key)  == [key |-> key, is_make |-> TRUE]
Break(key) == [key |-> key, is_make |-> FALSE]
E0 == Break(96)
E1 == Break(97)

kbd_state == [ lshift |-> FALSE, rshift |-> FALSE, caps_lock |-> FALSE, lalt |-> FALSE,
               ralt |-> FALSE, lctrl |-> FALSE, rctrl |-> FALSE, recv_state |-> "normal" ]

(* map_table.  The capital of the key "s" is a B.                          *)
map_normal(key) == IF key \in Letters THEN << "small", key >> ELSE << "normal", key >>
map_func(key) ==
  IF key = KeyS THEN << "capital", KeyB >>
  ELSE IF key \in Letters THEN << "capital", key >>
  ELSE << "func", key >>

SwapCase(char) ==
  CASE char[1] = "small"   -> << "capital", char[2] >>
    [] char[1] = "capital" -> << "small", char[2] >>
    [] OTHER -> char

Nothing == << >>
After(kbd, effect) == [state |-> kbd, effect |-> effect]

(* With a control key it selects a terminal, when the key goes down and    *)
(* when it comes up.                                                       *)
do_fx_key(kbd, key) ==
  After(kbd, IF kbd.lctrl \/ kbd.rctrl THEN << "tty_select", key - 59 >> ELSE Nothing)

CharOf(kbd, key) ==
  LET char == IF kbd.rshift \/ kbd.lshift THEN map_func(key) ELSE map_normal(key)
  IN  IF kbd.caps_lock THEN SwapCase(char) ELSE char

do_normal_key(kbd, code) ==
  CASE code.key = RSHIFT -> After([kbd EXCEPT !.rshift = code.is_make], Nothing)
    [] code.key = LSHIFT -> After([kbd EXCEPT !.lshift = code.is_make], Nothing)
    [] code.key = CAPS   -> After([kbd EXCEPT !.caps_lock = IF code.is_make THEN ~@ ELSE @], Nothing)
    [] code.key = ALT    -> After([kbd EXCEPT !.lalt = code.is_make], Nothing)
    [] code.key = CTRL   -> After([kbd EXCEPT !.lctrl = code.is_make], Nothing)
    [] code.key \in FKeys -> do_fx_key(kbd, code.key)
    [] OTHER -> After(kbd, IF code.is_make THEN << "tty_in", CharOf(kbd, code.key) >> ELSE Nothing)

do_e0_key(kbd, code) ==
  CASE code.key = CTRL -> [kbd EXCEPT !.rctrl = code.is_make]
    [] code.key = ALT  -> [kbd EXCEPT !.ralt = code.is_make]
    [] OTHER -> kbd

(* A prefix is for the one code that follows.                              *)
do_handler_kbd(kbd, code) ==
  LET received == [kbd EXCEPT !.recv_state = "normal"]
  IN  CASE code = E0 -> After([kbd EXCEPT !.recv_state = "E0"], Nothing)
        [] code = E1 -> After([kbd EXCEPT !.recv_state = "E1"], Nothing)
        [] code \notin {E0, E1} /\ kbd.recv_state = "normal" -> do_normal_key(kbd, code)
        [] code \notin {E0, E1} /\ kbd.recv_state = "E0" -> After(do_e0_key(received, code), Nothing)
        [] code \notin {E0, E1} /\ kbd.recv_state = "E1" -> After(received, Nothing)
=============================================================================
