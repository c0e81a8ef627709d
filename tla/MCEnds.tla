-------------------------------- MODULE MCEnds -------------------------------
(***************************************************************************)
(* The two ends of a terminal, the screen and the keyboard, as functions,  *)
(* compared with definitions of what they are for.                         *)
(***************************************************************************)
EXTENDS Integers, Sequences, FiniteSets

Con == INSTANCE Console
Kbd == INSTANCE Keyboard

SeqsUpTo(S, n) == UNION { [1..k -> S] : k \in 0..n }

Rows == 2
Cols == 2
Written(chars) == Con!console_write(Con!console_init(Rows, Cols), chars)
Plain == SeqsUpTo({ "a", "b", "NL", "CR" }, 6)

(* Where each character of a text, and what follows it, comes on a sheet   *)
(* of paper that has no end.                                               *)
OnPaper(chars) ==
  LET at[i \in 1..(Len(chars) + 1)] ==
        IF i = 1 THEN << 0, 0 >>
        ELSE LET row == at[i - 1][1]
                 col == at[i - 1][2]
             IN  CASE chars[i - 1] = "NL" -> << row + 1, col >>
                   [] chars[i - 1] = "CR" -> << row, 0 >>
                   [] OTHER -> IF col + 1 = Cols THEN << row + 1, 0 >> ELSE << row, col + 1 >>
  IN  at

Shows(chars, i) == chars[i] \notin { "NL", "CR" }

(* A character in the last column of what is the lowest row of the screen. *)
FillsLastCell(chars) ==
  \E i \in DOMAIN chars :
    Shows(chars, i) /\ OnPaper(chars)[i][1] >= Rows - 1 /\ OnPaper(chars)[i][2] = Cols - 1

(* The screen shows the lower end of the sheet, as long as no text fills   *)
(* the last cell of the screen.                                            *)
ASSUME ScreenIsPaper ==
  \A chars \in Plain : ~FillsLastCell(chars) =>
    LET c    == Written(chars)
        at   == OnPaper(chars)
        last == at[Len(chars) + 1]
        gone == IF last[1] < Rows THEN 0 ELSE last[1] - (Rows - 1)
        On(i, row, col) == Shows(chars, i) /\ at[i] = << row + gone, col >>
    IN  /\ << c.row + gone, c.col >> = last
        /\ ~c.spilled
        /\ \A row \in 0..(Rows - 1), col \in 0..(Cols - 1) :
             LET here == { i \in DOMAIN chars : On(i, row, col) }
             IN  c.disp[row * Cols + col][1] =
                   IF here = {} THEN " " ELSE chars[CHOOSE i \in here : \A j \in here : j <= i]

(* After that the cursor stays below the screen, whatever lines follow:    *)
(* all that is written goes to the memory of the next console.             *)
ASSUME BelowForever ==
  \A chars \in SeqsUpTo({ "a", "NL", "CR" }, 4) :
    LET c == Written(<< "a", "a", "a", "a" >> \o chars)
    IN  c.row >= Rows /\ Con!show_char(c, "a").spilled

(* DEL takes back what was written last.                                   *)
ASSUME DelTakesBack ==
  \A chars \in SeqsUpTo({ "a", "NL", "CR", "BS" }, 4) :
    LET c == Written(chars)
        i == c.row * Cols + c.col
        d == Written(chars \o << "b", "DEL" >>)
    IN  i \in Con!Cells(c) =>
          /\ << d.row, d.col >> = << c.row, c.col >>
          /\ d.disp = [c.disp EXCEPT ![i] = Con!Blank(c)]

(* ESC 8 goes back to where ESC 7 was.                                     *)
ASSUME RestoreGoesBack ==
  \A before, chars \in SeqsUpTo({ "a", "NL", "DEL" }, 3) :
    LET c == Written(before)
        d == Written(before \o << "ESC", "7" >> \o chars \o << "ESC", "8" >>)
    IN  << d.row, d.col >> = << c.row, c.col >>

Digits == { "0", "1", "9" }

(* ESC [ n ; m H goes to row n and column m, on the screen or not.         *)
ASSUME CursorGoesThere ==
  \A m, n \in Digits, k \in Digits :
    LET c == Written(<< "ESC", "[", m, n, ";", k, "H" >>)
    IN  /\ c.row = Con!DigitValue[m] * 10 + Con!DigitValue[n]
        /\ c.col = Con!DigitValue[k]
        /\ c.write_state = "normal"

(* Any number of parameters up to ESC_PARAM_MAX is safe; with one more its *)
(* digits change the index, and then anything.                             *)
ASSUME TooManyParams ==
  \A n \in 0..12, k \in Digits \ {"0"} :
    LET c == Written(<< "ESC", "[" >> \o [i \in 1..n |-> ";"] \o << k, k >>)
    IN  c.spilled <=> n = Con!ESC_PARAM_MAX

------------------------------------------------------------------------------
KeyA == 30
Codes == { Kbd!Make(k) : k \in { Kbd!LSHIFT, Kbd!CAPS, KeyA, 2 } }
         \cup { Kbd!Break(k) : k \in { Kbd!LSHIFT, Kbd!CAPS, KeyA } }

After(codes) ==
  LET to[n \in 0..Len(codes)] ==
        IF n = 0 THEN Kbd!kbd_state ELSE Kbd!do_handler_kbd(to[n - 1], codes[n]).state
  IN  to[Len(codes)]

(* Shift is held when it was pressed last; every press of caps lock counts.*)
ShiftHeld(codes) ==
  \E i \in DOMAIN codes :
    codes[i] = Kbd!Make(Kbd!LSHIFT) /\ \A j \in (i + 1)..Len(codes) : codes[j] # Kbd!Break(Kbd!LSHIFT)
CapsOn(codes) == Cardinality({ i \in DOMAIN codes : codes[i] = Kbd!Make(Kbd!CAPS) }) % 2 = 1

(* A letter is a capital when exactly one of them is on, and only its key  *)
(* going down types it; the key S has the letter B for its capital, which  *)
(* shift gives, and caps lock turns small again.                           *)
ASSUME ShiftXorCaps ==
  \A codes \in SeqsUpTo(Codes, 4) :
    LET kbd  == After(codes)
        letter == IF ShiftHeld(codes) # CapsOn(codes) THEN "capital" ELSE "small"
    IN  /\ Kbd!do_handler_kbd(kbd, Kbd!Make(KeyA)).effect = << "tty_in", << letter, KeyA >> >>
        /\ Kbd!do_handler_kbd(kbd, Kbd!Break(KeyA)).effect = << >>
        /\ Kbd!do_handler_kbd(kbd, Kbd!Make(Kbd!KeyS)).effect =
             << "tty_in", << letter, IF ShiftHeld(codes) THEN Kbd!KeyB ELSE Kbd!KeyS >> >>

(* The six codes of the pause key leave the state as it was, but type the  *)
(* character 0, which map_table has for key 69.                            *)
ASSUME PauseTypes ==
  LET codes == << Kbd!E1, Kbd!Make(Kbd!CTRL), Kbd!Make(69), Kbd!E1, Kbd!Break(Kbd!CTRL), Kbd!Break(69) >>
  IN  /\ After(codes) = Kbd!kbd_state
      /\ { i \in 1..6 : Kbd!do_handler_kbd(After(SubSeq(codes, 1, i - 1)), codes[i]).effect # << >> } = {3}
==============================================================================
