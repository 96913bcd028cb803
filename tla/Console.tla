------------------------------ MODULE Console ------------------------------
(***************************************************************************)
(* The VGA text console of kernel.c: a screen of Rows times Columns cells  *)
(* and a cursor, which print_char writes at, wraps and scrolls.            *)
(***************************************************************************)
EXTENDS Integers

CONSTANTS
    Columns, Rows   \* 80 and 25

ASSUME ConsoleAssumption == Columns \in Nat \ {0} /\ Rows \in Nat \ {0}

VARIABLES vga_buffer, vga_x, vga_y

console == <<vga_buffer, vga_x, vga_y>>

Cells == 0..(Rows * Columns - 1)
Cell(x, y) == y * Columns + x

\* The characters 8, 10 and 32.
Backspace == "backspace"
Newline == "newline"
Blank == "blank"

\* The screen and the cursor while print_char works on them.
Screen(buf, x, y) == [buf |-> buf, x |-> x, y |-> y]

clear_screen ==
    /\ vga_buffer = [cell \in Cells |-> Blank]
    /\ vga_x = 0 /\ vga_y = 0

Wrap(s) ==
    IF s.x >= Columns THEN Screen(s.buf, 0, s.y + 1) ELSE s

Scroll(s) ==
    IF s.y < Rows THEN s
    ELSE Screen([cell \in Cells |-> IF cell < (Rows - 1) * Columns
                                      THEN s.buf[cell + Columns] ELSE Blank],
                0, Rows - 1)

Erase(x, y) == Screen([vga_buffer EXCEPT ![Cell(x, y)] = Blank], x, y)

\* Mutant: a backspace at the left margin stays there.
Written_NoLineUp(c, x, y) ==
    CASE c = Newline -> Screen(vga_buffer, 0, vga_y + 1)
      [] c = Backspace -> IF vga_x > 0 THEN Erase(vga_x - 1, vga_y)
                     ELSE Screen(vga_buffer, vga_x, vga_y)
      [] OTHER -> Screen([vga_buffer EXCEPT ![Cell(x, y)] = c], vga_x + 1, vga_y)

\* The character itself, before the margins are looked at.
Written(c, x, y) ==
    CASE c = Newline -> Screen(vga_buffer, 0, vga_y + 1)
      [] c = Backspace -> IF vga_x > 0 THEN Erase(vga_x - 1, vga_y)
                     ELSE IF vga_y > 0 THEN Erase(Columns - 1, vga_y - 1)
                     ELSE Screen(vga_buffer, vga_x, vga_y)
      [] OTHER -> Screen([vga_buffer EXCEPT ![Cell(x, y)] = c], vga_x + 1, vga_y)

print_char(c, x, y) ==
    LET s == Scroll(Wrap(Written(c, x, y))) IN
    /\ vga_buffer' = s.buf
    /\ vga_x' = s.x
    /\ vga_y' = s.y
=============================================================================
