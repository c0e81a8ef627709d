------------------------------- MODULE Console -------------------------------
(***************************************************************************)
(* What a console does with the characters it is given (dev/console.c): a  *)
(* function from the console before to the console after each character.   *)
(* A console is a record with the fields of console_t; the screen is a     *)
(* function from cells, row by row, to characters with their colours.  The *)
(* parameters of an escape sequence lie in memory just before their index, *)
(* and are modelled so: params[ESC_PARAM_MAX] is curr_param_index.  A      *)
(* write beyond that, or beyond the screen, is only noted ("spilled").     *)
(***************************************************************************)
EXTENDS Integers, Sequences, SequencesExt

ESC_PARAM_MAX == 10

Cells(c)  == 0..(c.rows * c.cols - 1)
Blank(c)  == << " ", c.fg, c.bg >>
NoParams  == [i \in 0..ESC_PARAM_MAX |-> 0]
curr_param_index(c) == c.params[ESC_PARAM_MAX]

(* console_init of any console but the first, which keeps what the loader  *)
(* has written.                                                            *)
console_init(rows, cols) ==
  [ rows |-> rows, cols |-> cols, row |-> 0, col |-> 0, old_row |-> 0, old_col |-> 0,
    fg |-> "White", bg |-> "Black", disp |-> [i \in 0..(rows * cols - 1) |-> << " ", "White", "Black" >>],
    write_state |-> "normal", params |-> NoParams, spilled |-> FALSE ]

erase_rows(c, start, end) ==
  [c EXCEPT !.disp = [i \in Cells(c) |-> IF i \div c.cols \in start..end THEN Blank(c) ELSE @[i]]]

scroll_up(c, lines) ==
  LET up == [c EXCEPT !.disp = [i \in Cells(c) |-> IF i + lines * c.cols \in Cells(c)
                                                   THEN @[i + lines * c.cols] ELSE @[i]]]
  IN  [erase_rows(up, c.rows - lines, c.rows - 1) EXCEPT !.row = @ - lines]

move_next_line(c) ==
  IF c.row + 1 >= c.rows THEN scroll_up([c EXCEPT !.row = @ + 1], 1) ELSE [c EXCEPT !.row = @ + 1]

(* By one place: the last place of the last row is followed by the row     *)
(* below the screen, which is not scrolled.                                *)
move_forword(c) ==
  IF c.col + 1 >= c.cols THEN [c EXCEPT !.col = 0, !.row = @ + 1] ELSE [c EXCEPT !.col = @ + 1]

show_char(c, ch) ==
  LET i == c.col + c.row * c.cols
  IN  move_forword(IF i \in Cells(c) THEN [c EXCEPT !.disp[i] = << ch, c.fg, c.bg >>]
                                     ELSE [c EXCEPT !.spilled = TRUE])

move_backword(c) ==
  IF c.col > 0 THEN [c EXCEPT !.col = @ - 1]
  ELSE IF c.row > 0 THEN [c EXCEPT !.row = @ - 1, !.col = c.cols - 1]
  ELSE c

erase_backword(c) ==
  IF c.col > 0 \/ c.row > 0 THEN move_backword(show_char(move_backword(c), " ")) ELSE c

(* Characters are themselves; control characters have names.               *)
Control == { "ESC", "DEL", "BS", "CR", "NL", "NUL" }

write_normal(c, ch) ==
  CASE ch = "ESC" -> [c EXCEPT !.write_state = "esc"]
    [] ch = "DEL" -> erase_backword(c)
    [] ch = "BS"  -> move_backword(c)
    [] ch = "CR"  -> [c EXCEPT !.col = 0]
    [] ch = "NL"  -> move_next_line(c)
    [] ch \notin Control -> show_char(c, ch)
    [] OTHER -> c

write_esc(c, ch) ==
  CASE ch = "7" -> [c EXCEPT !.write_state = "normal", !.old_row = c.row, !.old_col = c.col]
    [] ch = "8" -> [c EXCEPT !.write_state = "normal", !.row = c.old_row, !.col = c.old_col]
    [] ch = "[" -> [c EXCEPT !.write_state = "square", !.params = NoParams]
    [] OTHER    -> [c EXCEPT !.write_state = "normal"]

(***************************************************************************)
(* The escape sequences ESC [ n ; n x.                                     *)
(***************************************************************************)
ColorTable == << "Black", "Red", "Green", "Yellow", "Blue", "Magenta", "Cyan", "White" >>

StyledBy(c, n) ==
  CASE n \in 30..37 -> [c EXCEPT !.fg = ColorTable[n - 29]]
    [] n \in 40..47 -> [c EXCEPT !.bg = ColorTable[n - 39]]
    [] n = 39 -> [c EXCEPT !.fg = "White"]
    [] n = 49 -> [c EXCEPT !.bg = "Black"]
    [] OTHER  -> c

(* What an index that has run away takes for parameters is left out.       *)
set_font_style(c) ==
  LET Min2(m, n) == IF m < n THEN m ELSE n
      given == [i \in 1..Min2(curr_param_index(c), ESC_PARAM_MAX + 1) |-> c.params[i - 1]]
  IN  FoldLeft(StyledBy, c, given)

(* By one place at least, and not beyond the ends of the row.              *)
AtLeastOne(n) == IF n = 0 THEN 1 ELSE n
move_left(c, n)  == [c EXCEPT !.col = IF @ >= AtLeastOne(n) THEN @ - AtLeastOne(n) ELSE 0]
move_right(c, n) ==
  [c EXCEPT !.col = IF @ + AtLeastOne(n) >= c.cols THEN c.cols - 1 ELSE @ + AtLeastOne(n)]

(* Without a look at the size of the screen.                               *)
move_cursor(c) == [c EXCEPT !.row = c.params[0], !.col = c.params[1]]

erase_in_display(c) ==
  IF c.params[0] = 2 THEN [erase_rows(c, 0, c.rows - 1) EXCEPT !.row = 0, !.col = 0] ELSE c

DigitValue == [ch \in {"0", "1", "2", "3", "4", "5", "6", "7", "8", "9"} |->
                 CASE ch = "0" -> 0 [] ch = "1" -> 1 [] ch = "2" -> 2 [] ch = "3" -> 3 [] ch = "4" -> 4
                   [] ch = "5" -> 5 [] ch = "6" -> 6 [] ch = "7" -> 7 [] ch = "8" -> 8 [] ch = "9" -> 9]

(* A digit belongs to the parameter at the index, which is the index       *)
(* itself after ten separators.  The command ends the sequence.            *)
write_esc_square(c, ch) ==
  LET at    == curr_param_index(c)
      ended == [c EXCEPT !.params[ESC_PARAM_MAX] = @ + 1, !.write_state = "normal"]
  IN  CASE ch \in DOMAIN DigitValue ->
             IF at \in DOMAIN c.params THEN [c EXCEPT !.params[at] = @ * 10 + DigitValue[ch]]
             ELSE [c EXCEPT !.spilled = TRUE]
        [] ch = ";" /\ at < ESC_PARAM_MAX -> [c EXCEPT !.params[ESC_PARAM_MAX] = @ + 1]
        [] ch = "m" -> set_font_style(ended)
        [] ch = "D" -> move_left(ended, c.params[0])
        [] ch = "C" -> move_right(ended, c.params[0])
        [] ch \in {"H", "f"} -> move_cursor(ended)
        [] ch = "J" -> erase_in_display(ended)
        [] OTHER -> ended

(***************************************************************************)
(* console_write gives a console the characters of a ring one after the    *)
(* other (how it gets them is in Tty).                                     *)
(***************************************************************************)
console_char(c, ch) ==
  CASE c.write_state = "normal" -> write_normal(c, ch)
    [] c.write_state = "esc"    -> write_esc(c, ch)
    [] c.write_state = "square" -> write_esc_square(c, ch)

console_write(c, text) == FoldLeft(console_char, c, text)

(* The cell of the display's memory where the n-th console begins, which   *)
(* console_select shows; and where its cursor is.                          *)
console_select(n, c)    == n * c.cols * c.rows
update_cursor_pos(n, c) == console_select(n, c) + c.row * c.cols + c.col
=============================================================================
