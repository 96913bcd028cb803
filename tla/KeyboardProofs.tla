--------------------------- MODULE KeyboardProofs ---------------------------
(***************************************************************************)
(* Proofs about Keyboard: what the program gets is the line that was typed *)
(* and what the user sees is the line the driver holds, for a screen, an   *)
(* internal buffer and user buffers of every size.                         *)
(***************************************************************************)
EXTENDS Keyboard, TLAPS

(***************************************************************************)
(* The inductive invariant: the driver's globals agree on whose line it    *)
(* holds, and the line with its NUL fits both buffers.                     *)
(***************************************************************************)
Target ==
    /\ user_target_buffer = task_waiting_for_input
    /\ task_waiting_for_input = NoTask => kbd_internal_buffer_idx = 0
    /\ task_waiting_for_input # NoTask =>
         /\ task_waiting_for_input \in waiting
         /\ user_target_buffer_max_size = asked[task_waiting_for_input]
         /\ kbd_internal_buffer_idx < user_target_buffer_max_size
         /\ \A i \in 0..(kbd_internal_buffer_idx - 1) :
              kbd_internal_buffer[i] \in Letters

KeyInv == TypeOK /\ Target /\ EchoShowsLine

-----------------------------------------------------------------------------
(***************************************************************************)
(* The screen.                                                             *)
(***************************************************************************)
LEMMA Product ==
    ASSUME NEW m \in Nat, NEW n \in Nat
    PROVE  m * n \in Nat
OBVIOUS

\* The cells of a line lie on the screen, one line after the other.
LEMMA CellInside ==
    ASSUME NEW x \in 0..(Columns - 1), NEW y \in 0..(Rows - 1)
    PROVE  /\ Cell(x, y) \in Cells /\ Cell(x, y) \in Nat
           /\ Cell(x, y + 1) = Cell(x, y) + Columns
           /\ Cell(Columns, y) = Cell(0, y + 1)
           /\ x > 0 => Cell(x - 1, y) = Cell(x, y) - 1
           /\ y > 0 => Cell(Columns - 1, y - 1) = Cell(0, y) - 1
           /\ Cell(x + 1, y) = Cell(x, y) + 1
<1>1. Columns \in Nat /\ Rows \in Nat /\ Columns > 0 /\ Rows > 0
  BY ConsoleAssumption
<1>2. x \in Nat /\ y \in Nat /\ Rows - 1 - y \in Nat
  BY <1>1
<1>3. y * Columns \in Nat
  BY <1>1, <1>2, Product
<1>4. (Rows - 1 - y) * Columns \in Nat
  BY <1>1, <1>2, Product
<1>5. (Rows - 1 - y) * Columns = Rows * Columns - Columns - y * Columns
  BY <1>1, <1>2
<1>6. Rows * Columns \in Nat
  BY <1>1, Product
<1>7. (y + 1) * Columns = y * Columns + Columns
  BY <1>1, <1>2
<1>8. (y - 1) * Columns = y * Columns - Columns
  BY <1>1, <1>2
<1>9. Cell(x, y) \in Cells /\ Cell(x, y) \in Nat
  BY <1>1, <1>2, <1>3, <1>4, <1>5, <1>6 DEF Cell, Cells
<1> QED BY <1>1, <1>2, <1>3, <1>7, <1>8, <1>9 DEF Cell

\* Every cell that a margin or a scroll leaves has a place.
LEMMA ScrollInside ==
    ASSUME NEW cell \in Cells
    PROVE  cell < (Rows - 1) * Columns => cell + Columns \in Cells
<1>1. Columns \in Nat /\ Rows \in Nat
  BY ConsoleAssumption
<1>2. (Rows - 1) * Columns = Rows * Columns - Columns
  BY <1>1
<1>3. Rows * Columns \in Nat
  BY <1>1, Product
<1> QED BY <1>1, <1>2, <1>3 DEF Cells

LEMMA BelowInside ==
    ASSUME NEW p \in Cells
    PROVE  0..p \subseteq Cells
<1>1. Rows * Columns \in Nat
  BY ConsoleAssumption, Product
<1> QED BY <1>1 DEF Cells

\* What the screen and the cursor are after print_char.
ConsoleOK ==
    /\ vga_buffer \in [Cells -> Letters \cup {Blank}]
    /\ vga_x \in 0..(Columns - 1) /\ vga_y \in 0..(Rows - 1)

LEMMA ScreenFields ==
    ASSUME NEW b, NEW x, NEW y
    PROVE  /\ Screen(b, x, y).buf = b /\ Screen(b, x, y).x = x
           /\ Screen(b, x, y).y = y
BY DEF Screen

LEMMA Wrapped ==
    ASSUME NEW b, NEW x, NEW y
    PROVE  Wrap(Screen(b, x, y)) = IF x >= Columns THEN Screen(b, 0, y + 1)
                                                   ELSE Screen(b, x, y)
BY ScreenFields DEF Wrap

Scrolled(b) == [cell \in Cells |-> IF cell < (Rows - 1) * Columns
                                     THEN b[cell + Columns] ELSE Blank]

LEMMA Scrolling ==
    ASSUME NEW b, NEW x, NEW y
    PROVE  Scroll(Screen(b, x, y)) = IF y < Rows THEN Screen(b, x, y)
                                     ELSE Screen(Scrolled(b), 0, Rows - 1)
BY ScreenFields DEF Scroll, Scrolled

LEMMA ScrolledType ==
    ASSUME NEW b \in [Cells -> Letters \cup {Blank}]
    PROVE  Scrolled(b) \in [Cells -> Letters \cup {Blank}]
BY ScrollInside DEF Scrolled

\* A screen with the cursor below the last line is scrolled by one line; any
\* other one is left as it is.
LEMMA Lands ==
    ASSUME NEW c, NEW b \in [Cells -> Letters \cup {Blank}],
           NEW x \in 0..Columns, NEW y \in 0..Rows,
           x = Columns => y < Rows, y = Rows => x = 0,
           Written(c, vga_x, vga_y) = Screen(b, x, y),
           print_char(c, vga_x, vga_y)
    PROVE  /\ ConsoleOK'
           /\ \E k \in {0, Columns} :
                /\ Cell(vga_x', vga_y') = Cell(x, y) - k
                /\ \A cell \in Cells : cell - k >= 0 /\ cell < Cell(x, y) =>
                                         vga_buffer'[cell - k] = b[cell]
<1>1. Columns \in Nat /\ Columns > 0 /\ Rows \in Nat /\ Rows > 0
  BY ConsoleAssumption
<1>2. PICK x1 \in 0..(Columns - 1), y1 \in 0..Rows :
        /\ Wrap(Written(c, vga_x, vga_y)) = Screen(b, x1, y1)
        /\ Cell(x1, y1) = Cell(x, y)
        /\ y1 = Rows => x1 = 0
  <2>1. CASE x = Columns
    <3>1. Wrap(Screen(b, x, y)) = Screen(b, 0, y + 1)
      BY <1>1, <2>1, Wrapped
    <3>2. Cell(0, y + 1) = Cell(x, y)
      <4>1. y \in 0..(Rows - 1) /\ 0 \in 0..(Columns - 1)
        BY <1>1, <2>1
      <4> QED BY <2>1, <4>1, CellInside
    <3>3. 0 \in 0..(Columns - 1) /\ y + 1 \in 0..Rows
      BY <1>1, <2>1
    <3> QED BY <3>1, <3>2, <3>3
  <2>2. CASE x # Columns
    <3>1. x \in 0..(Columns - 1) /\ ~(x >= Columns)
      BY <1>1, <2>2
    <3> QED BY <3>1, Wrapped
  <2> QED BY <2>1, <2>2
<1>3. CASE y1 < Rows
  <2>1. vga_buffer' = b /\ vga_x' = x1 /\ vga_y' = y1
    BY <1>2, <1>3, Scrolling, ScreenFields DEF print_char
  <2>2. ConsoleOK'
    BY <1>1, <1>2, <1>3, <2>1 DEF ConsoleOK
  <2>3. y1 \in 0..(Rows - 1)
    BY <1>1, <1>3
  <2>4. Cell(x1, y1) \in Nat
    BY <2>3, CellInside
  <2>5. Cell(vga_x', vga_y') = Cell(x, y) - 0
    BY <1>2, <2>1, <2>4
  <2>6. \A cell \in Cells : vga_buffer'[cell - 0] = b[cell]
    BY <2>1 DEF Cells
  <2> QED BY <2>2, <2>5, <2>6
<1>4. CASE ~(y1 < Rows)
  <2>1. y1 = Rows /\ x1 = 0
    BY <1>1, <1>2, <1>4
  <2>2. vga_buffer' = Scrolled(b) /\ vga_x' = 0 /\ vga_y' = Rows - 1
    BY <1>2, <1>4, Scrolling, ScreenFields DEF print_char
  <2>3. ConsoleOK'
    BY <1>1, <2>2, ScrolledType DEF ConsoleOK
  <2>4. 0 \in 0..(Columns - 1) /\ Rows - 1 \in 0..(Rows - 1)
    BY <1>1
  <2>5. Cell(0, Rows - 1) \in Nat /\ Cell(0, (Rows - 1) + 1) = Cell(0, Rows - 1) + Columns
    BY <2>4, CellInside
  <2>6. (Rows - 1) + 1 = Rows
    BY <1>1
  <2>7. Cell(x, y) = Cell(0, Rows - 1) + Columns
    BY <1>2, <2>1, <2>5, <2>6
  <2>8. Cell(vga_x', vga_y') = Cell(x, y) - Columns
    BY <1>1, <2>2, <2>5, <2>7
  <2>9. ASSUME NEW cell \in Cells, cell - Columns >= 0, cell < Cell(x, y)
        PROVE  vga_buffer'[cell - Columns] = b[cell]
    <3>1. Cell(x, y) = Rows * Columns
      BY <1>1, <1>2, <2>1, Product DEF Cell
    <3>2. (Rows - 1) * Columns = Rows * Columns - Columns /\ Rows * Columns \in Nat
      BY <1>1, Product
    <3>3. /\ cell - Columns \in Cells /\ cell - Columns < (Rows - 1) * Columns
          /\ (cell - Columns) + Columns = cell
      BY <1>1, <2>9, <3>2 DEF Cells
    <3> QED BY <2>2, <3>3 DEF Scrolled
  <2> QED BY <2>3, <2>8, <2>9
<1> QED BY <1>3, <1>4

LEMMA Stays ==
    ASSUME NEW c, NEW b, NEW x \in 0..(Columns - 1), NEW y \in 0..(Rows - 1),
           Written(c, vga_x, vga_y) = Screen(b, x, y),
           print_char(c, vga_x, vga_y)
    PROVE  vga_buffer' = b /\ vga_x' = x /\ vga_y' = y
<1>1. ~(x >= Columns) /\ y < Rows
  BY ConsoleAssumption
<1>2. Scroll(Wrap(Screen(b, x, y))) = Screen(b, x, y)
  BY <1>1, Wrapped, Scrolling
<1> QED BY <1>2, ScreenFields DEF print_char

LEMMA Characters ==
    /\ Newline # Backspace
    /\ \A c \in Letters : c # Newline /\ c # Backspace /\ c # Blank /\ c # NUL
BY KeyboardAssumption DEF Newline, Backspace, Blank, NUL

\* The cursor stands behind the character it has written, perhaps one line
\* up, with all before it.
LEMMA PrintLetter ==
    ASSUME ConsoleOK, NEW c \in Letters, print_char(c, vga_x, vga_y),
           NEW p, p = Cell(vga_x, vga_y)
    PROVE  /\ ConsoleOK'
           /\ \E k \in {0, Columns} :
                /\ Cell(vga_x, vga_y)' = p + 1 - k
                /\ \A cell \in Cells : cell - k >= 0 /\ cell <= p =>
                     vga_buffer'[cell - k] = IF cell = p THEN c ELSE vga_buffer[cell]
<1>1. /\ vga_buffer \in [Cells -> Letters \cup {Blank}]
      /\ vga_x \in 0..(Columns - 1) /\ vga_y \in 0..(Rows - 1)
      /\ Columns \in Nat /\ Rows \in Nat
  BY ConsoleAssumption DEF ConsoleOK
<1>2. PICK b : b = [vga_buffer EXCEPT ![p] = c]
  OBVIOUS
<1>3. Written(c, vga_x, vga_y) = Screen(b, vga_x + 1, vga_y)
  BY <1>2, Characters DEF Written
<1>4. /\ b \in [Cells -> Letters \cup {Blank}]
      /\ \A cell \in Cells : b[cell] = IF cell = p THEN c ELSE vga_buffer[cell]
  BY <1>1, <1>2
<1>5. /\ vga_x + 1 \in 0..Columns /\ vga_y \in 0..Rows
      /\ vga_x + 1 = Columns => vga_y < Rows
      /\ vga_y = Rows => vga_x + 1 = 0
  BY <1>1
<1>6. Cell(vga_x + 1, vga_y) = p + 1 /\ p \in Nat
  BY <1>1, CellInside
<1>7. PICK k \in {0, Columns} :
        /\ Cell(vga_x', vga_y') = p + 1 - k
        /\ \A cell \in Cells : cell - k >= 0 /\ cell < p + 1 =>
                                 vga_buffer'[cell - k] = b[cell]
  <2>1. PICK x, y : x = vga_x + 1 /\ y = vga_y
    OBVIOUS
  <2>2. /\ x \in 0..Columns /\ y \in 0..Rows
        /\ x = Columns => y < Rows
        /\ y = Rows => x = 0
        /\ Cell(x, y) = p + 1
    BY <1>5, <1>6, <2>1
  <2>3. Written(c, vga_x, vga_y) = Screen(b, x, y)
    BY <1>3, <2>1
  <2>4. \E k \in {0, Columns} :
          /\ Cell(vga_x', vga_y') = Cell(x, y) - k
          /\ \A cell \in Cells : cell - k >= 0 /\ cell < Cell(x, y) =>
                                   vga_buffer'[cell - k] = b[cell]
    BY <1>4, <2>2, <2>3, Lands
  <2> QED BY <1>1, <1>6, <2>2, <2>4
<1>8. \A cell \in Cells : cell <= p => cell < p + 1
  BY <1>1, <1>6, Product DEF Cells
<1>9. ConsoleOK'
  BY <1>3, <1>4, <1>5, Lands
<1>10. Cell(vga_x, vga_y)' = Cell(vga_x', vga_y')
  BY DEF Cell
<1> QED BY <1>4, <1>7, <1>8, <1>9, <1>10

LEMMA PrintNewline ==
    ASSUME ConsoleOK, print_char(Newline, vga_x, vga_y)
    PROVE  ConsoleOK'
<1>1. /\ vga_buffer \in [Cells -> Letters \cup {Blank}]
      /\ 0 \in 0..Columns /\ vga_y + 1 \in 0..Rows
      /\ 0 # Columns
  BY ConsoleAssumption DEF ConsoleOK
<1>2. Written(Newline, vga_x, vga_y) = Screen(vga_buffer, 0, vga_y + 1)
  BY Characters DEF Written
<1> QED BY <1>1, <1>2, Lands

\* A backspace blanks the cell before the cursor and goes there, over the
\* left margin too; in the first cell it does nothing.
LEMMA PrintBackspace ==
    ASSUME ConsoleOK, print_char(Backspace, vga_x, vga_y),
           NEW p, p = Cell(vga_x, vga_y)
    PROVE  /\ ConsoleOK'
           /\ \/ p = 0 /\ Cell(vga_x, vga_y)' = 0
              \/ /\ p > 0 /\ Cell(vga_x, vga_y)' = p - 1
                 /\ \A cell \in Cells : cell # p - 1 =>
                                          vga_buffer'[cell] = vga_buffer[cell]
<1>1. /\ vga_buffer \in [Cells -> Letters \cup {Blank}]
      /\ vga_x \in 0..(Columns - 1) /\ vga_y \in 0..(Rows - 1)
      /\ Columns \in Nat /\ Rows \in Nat /\ Columns > 0
  BY ConsoleAssumption DEF ConsoleOK
<1>2. p \in Nat /\ Cell(vga_x, vga_y)' = Cell(vga_x', vga_y')
  BY <1>1, CellInside DEF Cell
<1>3. ASSUME NEW x \in 0..(Columns - 1), NEW y \in 0..(Rows - 1),
             Written(Backspace, vga_x, vga_y) = Erase(x, y), Cell(x, y) = p - 1
      PROVE  /\ ConsoleOK' /\ p > 0 /\ Cell(vga_x, vga_y)' = p - 1
             /\ \A cell \in Cells : cell # p - 1 =>
                                      vga_buffer'[cell] = vga_buffer[cell]
  <2>1. PICK b : b = [vga_buffer EXCEPT ![p - 1] = Blank]
    OBVIOUS
  <2>2. vga_buffer' = b /\ vga_x' = x /\ vga_y' = y
    BY <1>3, <2>1, Stays DEF Erase
  <2>3. b \in [Cells -> Letters \cup {Blank}]
        /\ \A cell \in Cells : cell # p - 1 => b[cell] = vga_buffer[cell]
    BY <1>1, <2>1
  <2>4. p - 1 \in Nat
    BY <1>3, CellInside
  <2> QED BY <1>2, <1>3, <2>2, <2>3, <2>4 DEF ConsoleOK
<1>4. CASE vga_x > 0
  <2>1. Written(Backspace, vga_x, vga_y) = Erase(vga_x - 1, vga_y)
    BY <1>4, Characters DEF Written
  <2>2. vga_x - 1 \in 0..(Columns - 1) /\ Cell(vga_x - 1, vga_y) = p - 1
    BY <1>1, <1>4, CellInside
  <2> QED BY <1>1, <1>3, <2>1, <2>2
<1>5. CASE vga_x = 0 /\ vga_y > 0
  <2>1. Written(Backspace, vga_x, vga_y) = Erase(Columns - 1, vga_y - 1)
    BY <1>5, Characters DEF Written
  <2>2. Columns - 1 \in 0..(Columns - 1) /\ vga_y - 1 \in 0..(Rows - 1)
    BY <1>1, <1>5
  <2>3. Cell(Columns - 1, vga_y - 1) = p - 1
    BY <1>1, <1>5, CellInside
  <2> QED BY <1>3, <2>1, <2>2, <2>3
<1>6. CASE vga_x = 0 /\ vga_y = 0
  <2>1. Written(Backspace, vga_x, vga_y) = Screen(vga_buffer, vga_x, vga_y)
    BY <1>6, Characters DEF Written
  <2>2. vga_buffer' = vga_buffer /\ vga_x' = 0 /\ vga_y' = 0
    BY <1>1, <1>6, <2>1, Stays
  <2>3. Cell(0, 0) = 0
    BY <1>1 DEF Cell
  <2> QED BY <1>1, <1>2, <1>6, <2>2, <2>3 DEF ConsoleOK
<1> QED BY <1>1, <1>4, <1>5, <1>6

-----------------------------------------------------------------------------
(***************************************************************************)
(* The line editor keeps the invariant, one lemma per action.              *)
(***************************************************************************)
\* The line fits the driver's buffer, and the program's with its NUL.
LEMMA LineFits ==
    ASSUME KeyInv, Reading
    PROVE  /\ kbd_internal_buffer_idx \in Nat
           /\ kbd_internal_buffer_idx < BufferSize
           /\ kbd_internal_buffer_idx < user_target_buffer_max_size
           /\ task_waiting_for_input \in Readers
           /\ task_waiting_for_input \in waiting
           /\ user_target_buffer = task_waiting_for_input
           /\ user_target_buffer_max_size = asked[task_waiting_for_input]
           /\ user_target_buffer_max_size \in 1..MaxWord
BY KeyboardAssumption DEF KeyInv, TypeOK, Target, Reading

LEMMA KeyInit == Init => KeyInv
<1> SUFFICES ASSUME Init PROVE KeyInv
  OBVIOUS
<1>1. 0 \in 0..(BufferSize - 1) /\ 0 \in 0..MaxWord
  BY KeyboardAssumption
<1>2. 0 \in 0..(Columns - 1) /\ 0 \in 0..(Rows - 1)
  BY ConsoleAssumption
<1>3. TypeOK
  BY <1>1, <1>2 DEF Init, clear_screen, TypeOK, Bytes
<1>4. Target /\ EchoShowsLine
  BY DEF Init, Target, EchoShowsLine, Reading
<1> QED BY <1>3, <1>4 DEF KeyInv

LEMMA PutcKeeps ==
    ASSUME KeyInv, NEW t \in Readers, NEW c \in Letters \cup {Newline},
           sys_putc(t, c)
    PROVE  KeyInv'
<1>1. ConsoleOK /\ print_char(c, vga_x, vga_y)
  BY DEF KeyInv, TypeOK, ConsoleOK, sys_putc
<1>2. ConsoleOK'
  <2>1. CASE c \in Letters
    <3>1. PICK p : p = Cell(vga_x, vga_y)
      OBVIOUS
    <3> QED BY <1>1, <2>1, <3>1, PrintLetter
  <2>2. CASE c = Newline
    BY <1>1, <2>2, PrintNewline
  <2> QED BY <2>1, <2>2
<1>3. TypeOK'
  BY <1>2 DEF KeyInv, TypeOK, ConsoleOK, sys_putc, editor, target, Reading
<1>4. Target'
  BY DEF KeyInv, Target, sys_putc, editor, target
<1>5. EchoShowsLine'
  BY DEF sys_putc, editor, target, EchoShowsLine, Reading
<1> QED BY <1>3, <1>4, <1>5 DEF KeyInv

LEMMA GetsKeeps ==
    ASSUME KeyInv, NEW t \in Readers, NEW size \in Sizes, sys_gets(t, size)
    PROVE  KeyInv'
<1>1. /\ size \in 1..MaxWord /\ t # NoTask
      /\ 0 \in 0..(BufferSize - 1) /\ 0 \in 0..MaxWord
  BY KeyboardAssumption DEF sys_gets
<1>2. /\ UNCHANGED console
      /\ waiting' = waiting \cup {t} /\ t \notin waiting
      /\ asked' = [asked EXCEPT ![t] = size]
      /\ keyboard_prepare_for_gets(t, size)
      /\ UNCHANGED <<syscall_retval, memory, disturbed>>
  BY DEF sys_gets
<1>3. TypeOK /\ Target /\ EchoShowsLine
  BY DEF KeyInv
<1>4. CASE task_waiting_for_input # NoTask
  <2>1. UNCHANGED <<editor, target, num_chars_read_for_gets,
                    task_waiting_for_input>>
    BY <1>2, <1>4 DEF keyboard_prepare_for_gets
  <2>2. TypeOK'
    BY <1>1, <1>2, <1>3, <2>1 DEF TypeOK, console, editor, target
  <2>3. asked'[task_waiting_for_input] = asked[task_waiting_for_input]
    BY <1>2, <1>3, <1>4 DEF Target, TypeOK
  <2>4. Target'
    BY <1>2, <1>3, <2>1, <2>3 DEF Target, editor, target
  <2>5. EchoShowsLine'
    BY <1>2, <1>3, <2>1 DEF EchoShowsLine, Reading, editor, target, console, Cell
  <2> QED BY <2>2, <2>4, <2>5 DEF KeyInv
<1>5. CASE task_waiting_for_input = NoTask
  <2>1. /\ user_target_buffer' = t /\ user_target_buffer_max_size' = size
        /\ kbd_internal_buffer_idx' = 0
        /\ kbd_internal_buffer' = [kbd_internal_buffer EXCEPT ![0] = NUL]
        /\ num_chars_read_for_gets' = 0 /\ task_waiting_for_input' = t
    BY <1>2, <1>5 DEF keyboard_prepare_for_gets
  <2>2. TypeOK'
    BY <1>1, <1>2, <1>3, <2>1 DEF TypeOK, console
  <2>3. asked'[t] = size
    BY <1>2, <1>3 DEF TypeOK
  <2>4. Target'
    BY <1>1, <1>2, <2>1, <2>3 DEF Target
  <2>5. EchoShowsLine'
    BY <2>1 DEF EchoShowsLine
  <2> QED BY <2>2, <2>4, <2>5 DEF KeyInv
<1> QED BY <1>4, <1>5

LEMMA LetterKeeps ==
    ASSUME KeyInv, Reading, NEW c \in Letters, LetterKey(c)
    PROVE  KeyInv'
<1>1. TypeOK /\ Target /\ EchoShowsLine /\ ConsoleOK
  BY DEF KeyInv, TypeOK, ConsoleOK
<1>2. PICK n : n = kbd_internal_buffer_idx
  OBVIOUS
<1>3. /\ n \in Nat /\ n + 1 \in 0..(BufferSize - 1) /\ n \in 0..(BufferSize - 1)
      /\ n + 1 < user_target_buffer_max_size
  <2>1. n < Minus1(user_target_buffer_max_size) /\ n < BufferSize - 1
    BY <1>2 DEF LetterKey
  <2> QED BY <1>2, <2>1, LineFits, KeyboardAssumption DEF Minus1
<1>4. /\ kbd_internal_buffer' = [kbd_internal_buffer EXCEPT ![n] = c]
      /\ kbd_internal_buffer_idx' = n + 1
      /\ print_char(c, vga_x, vga_y)
      /\ UNCHANGED <<user_target_buffer, user_target_buffer_max_size,
                     task_waiting_for_input, num_chars_read_for_gets,
                     waiting, syscall_retval, memory, asked, disturbed>>
  BY <1>2 DEF LetterKey, target
<1>5. PICK p : p = Cell(vga_x, vga_y)
  OBVIOUS
<1>6. PICK k \in {0, Columns} :
        /\ Cell(vga_x, vga_y)' = p + 1 - k
        /\ \A cell \in Cells : cell - k >= 0 /\ cell <= p =>
             vga_buffer'[cell - k] = IF cell = p THEN c ELSE vga_buffer[cell]
  BY <1>1, <1>4, <1>5, PrintLetter
<1>7. ConsoleOK'
  BY <1>1, <1>4, <1>5, PrintLetter
<1>8. TypeOK'
  BY <1>1, <1>3, <1>4, <1>7 DEF TypeOK, ConsoleOK
<1>9. /\ \A i \in 0..(n - 1) : kbd_internal_buffer'[i] = kbd_internal_buffer[i]
      /\ kbd_internal_buffer'[n] = c
  BY <1>1, <1>3, <1>4 DEF TypeOK
<1>10. Target'
  <2>1. \A i \in 0..((n + 1) - 1) : kbd_internal_buffer'[i] \in Letters
    BY <1>1, <1>2, <1>3, <1>9 DEF Target, Reading
  <2> QED BY <1>1, <1>2, <1>3, <1>4, <2>1 DEF Target, Reading
<1>11. EchoShowsLine'
  <2> SUFFICES ASSUME Reading', ~disturbed', NEW i \in 0..((n + 1) - 1),
                      Cell(vga_x, vga_y)' - (n + 1) + i >= 0
               PROVE  vga_buffer'[Cell(vga_x, vga_y)' - (n + 1) + i]
                        = kbd_internal_buffer'[i]
    BY <1>4 DEF EchoShowsLine
  <2>1. p \in Cells /\ p \in Nat /\ k \in Nat /\ i \in 0..n
    BY <1>1, <1>3, <1>5, CellInside, ConsoleAssumption DEF ConsoleOK
  <2>2. PICK q : q = Cell(vga_x, vga_y)'
    OBVIOUS
  <2>3. q = p + 1 - k /\ q - (n + 1) + i >= 0
    BY <1>6, <2>2
  <2>4. p + 1 - k - (n + 1) + i >= 0
    BY <1>3, <2>1, <2>3
  <2> SUFFICES vga_buffer'[p + 1 - k - (n + 1) + i] = kbd_internal_buffer'[i]
    BY <1>3, <2>1, <2>2, <2>3
  <2>5. CASE i = n
    <3>1. p + 1 - k - (n + 1) + i = p - k
      BY <1>3, <2>1, <2>5
    <3> QED BY <1>6, <1>9, <2>1, <2>5, <3>1
  <2>6. CASE i # n
    <3>1. i \in 0..(n - 1) /\ i \in Nat
      BY <1>3, <2>6
    <3>2. PICK cell : cell = p - n + i
      OBVIOUS
    <3>3. cell \in Cells /\ cell < p /\ cell >= 0 /\ cell \in Nat
      BY <1>3, <2>1, <2>4, <3>1, <3>2, BelowInside
    <3>4. p + 1 - k - (n + 1) + i = cell - k
      BY <1>3, <2>1, <3>1, <3>2
    <3>5. vga_buffer'[cell - k] = vga_buffer[cell]
      BY <1>6, <2>1, <2>4, <3>3, <3>4
    <3>6. vga_buffer[cell] = kbd_internal_buffer[i]
      BY <1>1, <1>2, <1>4, <1>5, <3>1, <3>2, <3>3 DEF EchoShowsLine, Reading
    <3> QED BY <1>9, <3>1, <3>4, <3>5, <3>6
  <2> QED BY <2>5, <2>6
<1> QED BY <1>8, <1>10, <1>11 DEF KeyInv

LEMMA BackspaceKeeps ==
    ASSUME KeyInv, Reading, BackspaceKey
    PROVE  KeyInv'
<1>1. TypeOK /\ Target /\ EchoShowsLine /\ ConsoleOK
  BY DEF KeyInv, TypeOK, ConsoleOK
<1>2. PICK n : n = kbd_internal_buffer_idx
  OBVIOUS
<1>3. /\ n \in Nat \ {0} /\ n - 1 \in 0..(BufferSize - 1)
      /\ n < user_target_buffer_max_size
      /\ user_target_buffer_max_size \in Nat
  BY <1>2, LineFits, KeyboardAssumption DEF BackspaceKey
<1>4. /\ kbd_internal_buffer_idx' = n - 1
      /\ print_char(Backspace, vga_x, vga_y)
      /\ UNCHANGED <<kbd_internal_buffer, user_target_buffer,
                     user_target_buffer_max_size,
                     task_waiting_for_input, num_chars_read_for_gets,
                     waiting, syscall_retval, memory, asked, disturbed>>
  BY <1>2 DEF BackspaceKey, target
<1>5. PICK p : p = Cell(vga_x, vga_y)
  OBVIOUS
<1>6. /\ ConsoleOK'
      /\ \/ p = 0 /\ Cell(vga_x, vga_y)' = 0
         \/ /\ p > 0 /\ Cell(vga_x, vga_y)' = p - 1
            /\ \A cell \in Cells : cell # p - 1 =>
                                     vga_buffer'[cell] = vga_buffer[cell]
  BY <1>1, <1>4, <1>5, PrintBackspace
<1>7. TypeOK'
  BY <1>1, <1>3, <1>4, <1>6 DEF TypeOK, ConsoleOK
<1>8. Target'
  <2>1. \A i \in 0..((n - 1) - 1) : kbd_internal_buffer'[i] \in Letters
    BY <1>1, <1>2, <1>3, <1>4 DEF Target, Reading
  <2> QED BY <1>1, <1>2, <1>3, <1>4, <2>1 DEF Target, Reading
<1>9. EchoShowsLine'
  <2> SUFFICES ASSUME Reading', ~disturbed', NEW i \in 0..((n - 1) - 1),
                      Cell(vga_x, vga_y)' - (n - 1) + i >= 0
               PROVE  vga_buffer'[Cell(vga_x, vga_y)' - (n - 1) + i]
                        = kbd_internal_buffer'[i]
    BY <1>4 DEF EchoShowsLine
  <2>1. p \in Cells /\ p \in Nat
    BY <1>1, <1>5, CellInside DEF ConsoleOK
  <2>2. i \in Nat /\ i <= n - 2
    BY <1>3
  <2>3. Cell(vga_x, vga_y)' # 0 - 0 \/ ~(0 - (n - 1) + i >= 0)
    BY <1>3, <2>2
  <2>4. /\ p > 0 /\ Cell(vga_x, vga_y)' = p - 1
        /\ \A cell \in Cells : cell # p - 1 =>
                                 vga_buffer'[cell] = vga_buffer[cell]
    BY <1>6, <2>3
  <2>5. PICK cell : cell = p - n + i
    OBVIOUS
  <2>6. Cell(vga_x, vga_y)' - (n - 1) + i = cell
    BY <1>3, <2>1, <2>2, <2>4, <2>5
  <2>7. cell \in Cells /\ cell < p - 1 /\ cell >= 0
    BY <1>3, <2>1, <2>2, <2>5, <2>6, BelowInside
  <2>8. vga_buffer'[cell] = vga_buffer[cell]
    BY <2>1, <2>4, <2>7
  <2>9. i \in 0..(n - 1)
    BY <1>3, <2>2
  <2>10. vga_buffer[cell] = kbd_internal_buffer[i]
    BY <1>1, <1>2, <1>4, <1>5, <2>5, <2>7, <2>9 DEF EchoShowsLine, Reading
  <2> QED BY <1>4, <2>6, <2>8, <2>10
<1> QED BY <1>7, <1>8, <1>9 DEF KeyInv

\* Enter copies the whole line, then the NUL, and leaves what lies behind.
LEMMA EnterCopies ==
    ASSUME KeyInv, Reading, EnterKey
    PROVE  \E n \in 0..(BufferSize - 1), string \in [0..MaxWord -> Bytes] :
             /\ n = kbd_internal_buffer_idx /\ n \in 0..MaxWord
             /\ n < asked[task_waiting_for_input]
             /\ kbd_internal_buffer' = [kbd_internal_buffer EXCEPT ![n] = NUL]
             /\ memory' = [memory EXCEPT ![task_waiting_for_input] = string]
             /\ syscall_retval' =
                  [syscall_retval EXCEPT ![task_waiting_for_input] = n]
             /\ num_chars_read_for_gets' = n
             /\ \A i \in 0..(n - 1) : /\ string[i] = kbd_internal_buffer[i]
                                      /\ string[i] \in Letters
             /\ string[n] = NUL
             /\ \A i \in 0..MaxWord :
                  i > n => string[i] = memory[task_waiting_for_input][i]
<1>1. TypeOK /\ Target
  BY DEF KeyInv
<1>2. PICK n, r : n = kbd_internal_buffer_idx /\ r = task_waiting_for_input
  OBVIOUS
<1>3. /\ n \in Nat /\ n \in 0..(BufferSize - 1) /\ n \in 0..MaxWord
      /\ n < user_target_buffer_max_size /\ n < asked[r] /\ r \in Readers
      /\ user_target_buffer = r /\ user_target_buffer_max_size \in Nat
  BY <1>1, <1>2, LineFits, KeyboardAssumption DEF TypeOK
<1>4. ~(n >= user_target_buffer_max_size)
  BY <1>3
<1>5. /\ kbd_internal_buffer' = [kbd_internal_buffer EXCEPT ![n] = NUL]
      /\ memory' = [memory EXCEPT ![r] = Filled(memory[r], n)]
      /\ num_chars_read_for_gets' = n
      /\ syscall_retval' = [syscall_retval EXCEPT ![r] = n]
  BY <1>1, <1>2, <1>3, <1>4 DEF EnterKey, TypeOK
<1>6. PICK string : string = Filled(memory[r], n)
  OBVIOUS
<1>7. \A i \in 0..(n - 1) : /\ kbd_internal_buffer'[i] = kbd_internal_buffer[i]
                            /\ kbd_internal_buffer[i] \in Letters
  BY <1>1, <1>2, <1>3, <1>5 DEF TypeOK, Target, Reading
<1>8. /\ \A i \in 0..(n - 1) : string[i] = kbd_internal_buffer[i]
      /\ string[n] = NUL
      /\ \A i \in 0..MaxWord : i > n => string[i] = memory[r][i]
  <2>1. ASSUME NEW i \in 0..(n - 1) PROVE string[i] = kbd_internal_buffer[i]
    <3>1. /\ i \in 0..MaxWord /\ i # n /\ ~(i > n) /\ i < BufferSize
      BY <1>3, KeyboardAssumption
    <3> QED BY <1>6, <1>7, <3>1 DEF Filled
  <2>2. string[n] = NUL
    BY <1>3, <1>6 DEF Filled
  <2>3. ASSUME NEW i \in 0..MaxWord, i > n PROVE string[i] = memory[r][i]
    BY <1>3, <1>6, <2>3 DEF Filled
  <2> QED BY <2>1, <2>2, <2>3
<1>9. string \in [0..MaxWord -> Bytes]
  <2>1. DOMAIN string = 0..MaxWord /\ string = [i \in 0..MaxWord |-> string[i]]
    BY <1>6 DEF Filled
  <2>2. ASSUME NEW i \in 0..MaxWord PROVE string[i] \in Bytes
    <3>1. memory[r][i] \in Bytes
      BY <1>1, <1>3 DEF TypeOK
    <3>2. i < n => i \in 0..(n - 1)
      BY <1>3
    <3>3. i < n \/ i = n \/ i > n
      BY <1>3
    <3> QED BY <1>7, <1>8, <3>1, <3>2, <3>3 DEF Bytes
  <2> QED BY <2>1, <2>2
<1> QED BY <1>2, <1>3, <1>5, <1>6, <1>7, <1>8, <1>9

LEMMA EnterKeeps ==
    ASSUME KeyInv, Reading, EnterKey
    PROVE  KeyInv'
<1>1. TypeOK /\ ConsoleOK
  BY DEF KeyInv, TypeOK, ConsoleOK
<1>2. ConsoleOK'
  BY <1>1, PrintNewline DEF EnterKey
<1>3. PICK n \in 0..(BufferSize - 1), string \in [0..MaxWord -> Bytes] :
        /\ n \in 0..MaxWord
        /\ kbd_internal_buffer' = [kbd_internal_buffer EXCEPT ![n] = NUL]
        /\ memory' = [memory EXCEPT ![task_waiting_for_input] = string]
        /\ syscall_retval' = [syscall_retval EXCEPT ![task_waiting_for_input] = n]
        /\ num_chars_read_for_gets' = n
  BY EnterCopies
<1>4. /\ waiting' = waiting \ {task_waiting_for_input}
      /\ task_waiting_for_input' = NoTask /\ user_target_buffer' = NoTask
      /\ kbd_internal_buffer_idx' = 0 /\ disturbed' = FALSE
      /\ UNCHANGED <<user_target_buffer_max_size, asked>>
  BY DEF EnterKey
<1>5. 0 \in 0..(BufferSize - 1)
  BY KeyboardAssumption
<1>6. TypeOK'
  BY <1>1, <1>2, <1>3, <1>4, <1>5 DEF TypeOK, ConsoleOK
<1>7. Target' /\ EchoShowsLine'
  BY <1>4 DEF Target, EchoShowsLine, Reading
<1> QED BY <1>6, <1>7 DEF KeyInv

LEMMA KeyKeeps ==
    ASSUME KeyInv, NEW key \in Keys, keyboard_handler_main(key)
    PROVE  KeyInv'
BY EnterKeeps, BackspaceKeeps, LetterKeeps DEF keyboard_handler_main

LEMMA KeyStep == KeyInv /\ [Next]_vars => KeyInv'
<1> SUFFICES ASSUME KeyInv, [Next]_vars PROVE KeyInv'
  OBVIOUS
<1>1. CASE Putc
  BY <1>1, PutcKeeps DEF Putc
<1>2. CASE Gets
  BY <1>2, GetsKeeps DEF Gets
<1>3. CASE Key
  BY <1>3, KeyKeeps DEF Key
<1>4. CASE UNCHANGED vars
  <2>1. TypeOK' /\ Target'
    BY <1>4 DEF KeyInv, TypeOK, Target, vars, console, editor, target
  <2>2. EchoShowsLine'
    BY <1>4 DEF KeyInv, EchoShowsLine, Reading, Cell, vars, console, editor, target
  <2> QED BY <2>1, <2>2 DEF KeyInv
<1> QED BY <1>1, <1>2, <1>3, <1>4 DEF Next

\* The driver's globals agree on the reader and its buffer, and everything
\* keeps its type: the index never leaves the arrays, the cursor never the
\* screen.
THEOREM KeyboardInvariant == Spec => []KeyInv
BY KeyInit, KeyStep, PTL DEF Spec

\* The C types and the bounds of the arrays are respected: kbd_internal_buffer
\* has room for the NUL that Enter writes at the index.
THEOREM KeyboardTypes == Spec => []TypeOK
<1>1. KeyInv => TypeOK
  BY DEF KeyInv
<1> QED BY <1>1, KeyboardInvariant, PTL

\* The user sees the line the driver holds, over margins, scrolls and
\* backspaces, on a screen of every size.
THEOREM EchoedLine == Spec => []EchoShowsLine
<1>1. KeyInv => EchoShowsLine
  BY DEF KeyInv
<1> QED BY <1>1, KeyboardInvariant, PTL

\* Only Enter writes into a program's buffer: the reader's, the line and its
\* NUL, fewer bytes than the reader asked for.
LEMMA WritesInside ==
    ASSUME KeyInv, [Next]_vars, NEW t \in Readers, memory'[t] # memory[t]
    PROVE  /\ t \in waiting /\ t \notin waiting'
           /\ \A i \in 0..MaxWord : memory'[t][i] # memory[t][i] => i < asked[t]
<1>1. Reading /\ EnterKey
  <2>1. memory' # memory
    OBVIOUS
  <2>2. ASSUME NEW u, NEW c, sys_putc(u, c) PROVE FALSE
    BY <2>1, <2>2 DEF sys_putc
  <2>3. ASSUME NEW u, NEW size, sys_gets(u, size) PROVE FALSE
    BY <2>1, <2>3 DEF sys_gets
  <2>4. ASSUME BackspaceKey \/ \E c \in Letters : LetterKey(c) PROVE FALSE
    BY <2>1, <2>4 DEF BackspaceKey, LetterKey
  <2>5. ~UNCHANGED vars
    BY <2>1 DEF vars
  <2> QED
    BY <2>2, <2>3, <2>4, <2>5
    DEF Next, Putc, Gets, Key, keyboard_handler_main
<1>2. PICK n \in Nat, string \in [0..MaxWord -> Bytes] :
        /\ n < asked[task_waiting_for_input]
        /\ memory' = [memory EXCEPT ![task_waiting_for_input] = string]
        /\ \A i \in 0..MaxWord :
             i > n => string[i] = memory[task_waiting_for_input][i]
  BY <1>1, EnterCopies, KeyboardAssumption
<1>3. /\ memory \in [Readers -> [0..MaxWord -> Bytes]]
      /\ asked \in [Readers -> 0..MaxWord]
  BY DEF KeyInv, TypeOK
<1>4. t = task_waiting_for_input
  BY <1>2, <1>3
<1>5. t \in waiting /\ t \notin waiting'
  BY <1>1, <1>4, LineFits DEF EnterKey
<1>6. ASSUME NEW i \in 0..MaxWord, memory'[t][i] # memory[t][i]
      PROVE  i < asked[t]
  <2>1. memory'[t] = string
    BY <1>2, <1>3, <1>4
  <2>2. ~(i > n)
    BY <1>2, <1>4, <1>6, <2>1
  <2>3. asked[t] \in Nat /\ i \in Nat
    BY <1>3, KeyboardAssumption
  <2> QED BY <1>2, <1>4, <2>2, <2>3
<1> QED BY <1>5, <1>6

\* keyboard_process_char_for_gets never writes outside the buffer the waiting
\* program gave, nor for another program.
THEOREM BufferSafety == Spec => WritesStayInUserBuffer
<1>1. ASSUME KeyInv, [Next]_vars
      PROVE  [\A t \in Readers : memory'[t] # memory[t] =>
                /\ t \in waiting /\ t \notin waiting'
                /\ \A i \in 0..MaxWord :
                     memory'[t][i] # memory[t][i] => i < asked[t]]_vars
  BY <1>1, WritesInside
<1> QED BY <1>1, KeyboardInvariant, PTL DEF Spec, WritesStayInUserBuffer

-----------------------------------------------------------------------------
(***************************************************************************)
(* The line, as a sequence.                                                *)
(***************************************************************************)
LineOf(buffer, n) == [i \in 1..n |-> buffer[i - 1]]

LEMMA LineIsSeq ==
    ASSUME NEW n \in Nat, NEW buffer, NEW S,
           \A i \in 0..(n - 1) : buffer[i] \in S
    PROVE  LineOf(buffer, n) \in Seq(S) /\ Len(LineOf(buffer, n)) = n
<1>1. LineOf(buffer, n) \in [1..n -> S]
  BY DEF LineOf
<1> QED BY <1>1

LEMMA LineEqual ==
    ASSUME NEW n \in Nat, NEW b1, NEW b2,
           \A i \in 0..(n - 1) : b1[i] = b2[i]
    PROVE  LineOf(b1, n) = LineOf(b2, n)
BY DEF LineOf

LEMMA LineAppend ==
    ASSUME NEW n \in Nat, NEW b1, NEW b2, NEW S, NEW c \in S,
           \A i \in 0..(n - 1) : b1[i] \in S /\ b2[i] = b1[i],
           b2[n] = c
    PROVE  LineOf(b2, n + 1) = Append(LineOf(b1, n), c)
<1>1. LineOf(b1, n) \in Seq(S) /\ Len(LineOf(b1, n)) = n
  BY LineIsSeq
<1>2. \A i \in 0..((n + 1) - 1) : b2[i] \in S
  OBVIOUS
<1>3. LineOf(b2, n + 1) \in Seq(S) /\ Len(LineOf(b2, n + 1)) = n + 1
  BY <1>2, LineIsSeq
<1>4. PICK s : s = Append(LineOf(b1, n), c)
  OBVIOUS
<1>5. s \in Seq(S) /\ Len(s) = n + 1 /\ s[n + 1] = c
      /\ \A i \in 1..n : s[i] = LineOf(b1, n)[i]
  BY <1>1, <1>4
<1>6. \A i \in 1..(n + 1) : LineOf(b2, n + 1)[i] = s[i]
  BY <1>5 DEF LineOf
<1> QED BY <1>3, <1>4, <1>5, <1>6

LEMMA LineFront ==
    ASSUME NEW n \in Nat \ {0}, NEW b, NEW S,
           \A i \in 0..(n - 1) : b[i] \in S
    PROVE  LineOf(b, n - 1) = L!Front(LineOf(b, n)) /\ LineOf(b, n) # <<>>
<1>1. LineOf(b, n) \in Seq(S) /\ Len(LineOf(b, n)) = n
  BY LineIsSeq
<1>2. LineOf(b, n - 1) \in Seq(S) /\ Len(LineOf(b, n - 1)) = n - 1
  BY LineIsSeq
<1>3. PICK s : s = SubSeq(LineOf(b, n), 1, n - 1)
  OBVIOUS
<1>4. s \in Seq(S) /\ Len(s) = n - 1
      /\ \A i \in 1..(n - 1) : s[i] = LineOf(b, n)[i]
  BY <1>1, <1>3
<1>5. ASSUME NEW i \in 1..(n - 1) PROVE LineOf(b, n - 1)[i] = s[i]
  <2>1. i \in 1..n
    OBVIOUS
  <2>2. LineOf(b, n)[i] = b[i - 1]
    BY <2>1 DEF LineOf
  <2>3. LineOf(b, n - 1)[i] = b[i - 1]
    BY DEF LineOf
  <2> QED BY <1>4, <2>2, <2>3
<1>6. LineOf(b, n - 1) = s
  BY <1>2, <1>4, <1>5
<1> QED BY <1>1, <1>3, <1>6 DEF L!Front

LEMMA NoLine == ASSUME NEW b PROVE LineOf(b, 0) = <<>>
<1>1. LineOf(b, 0) \in Seq({}) /\ Len(LineOf(b, 0)) = 0
  BY LineIsSeq
<1> QED BY <1>1

\* The C string in a buffer is the line up to the first NUL.
LEMMA StringIsLine ==
    ASSUME NEW bytes, NEW n \in 0..MaxWord, bytes[n] = NUL,
           \A i \in 0..(n - 1) : bytes[i] # NUL
    PROVE  CString(bytes) = LineOf(bytes, n)
<1> DEFINE ends == {i \in 0..MaxWord : bytes[i] = NUL}
<1>1. n \in ends /\ MaxWord \in Nat
  BY KeyboardAssumption
<1>2. \A i \in ends : n <= i
  BY <1>1
<1>3. \A j \in ends : (\A i \in ends : j <= i) => j = n
  BY <1>1, <1>2
<1>4. (CHOOSE i \in ends : \A j \in ends : i <= j) = n
  BY <1>1, <1>2, <1>3
<1>5. ends # {}
  BY <1>1
<1> HIDE DEF ends
<1>6. CString(bytes) = [i \in 1..n |-> bytes[i - 1]]
  BY <1>4, <1>5 DEF CString, ends
<1> QED BY <1>6 DEF LineOf

-----------------------------------------------------------------------------
(***************************************************************************)
(* Keyboard implements LineReader: what the refinement mapping gives for   *)
(* the line, its room and what the programs have received.                 *)
(***************************************************************************)
LineNow == LineOf(kbd_internal_buffer, kbd_internal_buffer_idx)
RoomNow == IF Reading THEN Least(BufferSize, asked[task_waiting_for_input]) - 1
                      ELSE 0
ReceivedNow == [t \in Readers |-> CString(memory[t])]

LEMMA MappedInit ==
    ASSUME task_waiting_for_input = NoTask, RoomNow = 0, LineNow = <<>>,
           ReceivedNow = [t \in Readers |-> <<>>],
           syscall_retval = [t \in Readers |-> 0]
    PROVE  L!Init
BY DEF L!Init, LineNow, RoomNow, ReceivedNow, LineOf

LEMMA MappedStutter ==
    ASSUME UNCHANGED <<task_waiting_for_input, RoomNow, LineNow, ReceivedNow,
                       syscall_retval>>
    PROVE  UNCHANGED L!vars
BY DEF L!vars, LineNow, RoomNow, ReceivedNow, LineOf

LEMMA MappedAsk ==
    ASSUME NEW r, NEW n, task_waiting_for_input = NoTask,
           task_waiting_for_input' = r, RoomNow' = n, LineNow' = <<>>,
           UNCHANGED <<ReceivedNow, syscall_retval>>
    PROVE  L!Ask(r, n)
BY DEF L!Ask, LineNow, RoomNow, ReceivedNow, LineOf

LEMMA MappedType ==
    ASSUME NEW c, task_waiting_for_input # NoTask, Len(LineNow) < RoomNow,
           LineNow' = Append(LineNow, c),
           UNCHANGED <<task_waiting_for_input, RoomNow, ReceivedNow,
                       syscall_retval>>
    PROVE  L!Type(c)
BY DEF L!Type, LineNow, RoomNow, ReceivedNow, LineOf

LEMMA MappedRubout ==
    ASSUME task_waiting_for_input # NoTask, LineNow # <<>>,
           LineNow' = L!Front(LineNow),
           UNCHANGED <<task_waiting_for_input, RoomNow, ReceivedNow,
                       syscall_retval>>
    PROVE  L!Rubout
BY DEF L!Rubout, LineNow, RoomNow, ReceivedNow, LineOf

LEMMA MappedEnter ==
    ASSUME task_waiting_for_input # NoTask,
           ReceivedNow' = [ReceivedNow EXCEPT ![task_waiting_for_input] = LineNow],
           syscall_retval' = [syscall_retval EXCEPT
                                ![task_waiting_for_input] = Len(LineNow)],
           task_waiting_for_input' = NoTask, RoomNow' = 0, LineNow' = <<>>
    PROVE  L!Enter
BY DEF L!Enter, LineNow, RoomNow, ReceivedNow, LineOf

-----------------------------------------------------------------------------
(***************************************************************************)
(* Every step of the driver is one of LineReader or changes nothing there. *)
(***************************************************************************)
LEMMA InitMaps == Init => L!Init
<1> SUFFICES ASSUME Init PROVE L!Init
  OBVIOUS
<1>1. /\ task_waiting_for_input = NoTask /\ kbd_internal_buffer_idx = 0
      /\ syscall_retval = [t \in Readers |-> 0]
      /\ memory = [t \in Readers |-> [i \in 0..MaxWord |-> Junk]]
  BY DEF Init
<1>2. RoomNow = 0
  BY <1>1 DEF RoomNow, Reading
<1>3. LineNow = <<>>
  BY <1>1, NoLine DEF LineNow
<1>4. CString([i \in 0..MaxWord |-> Junk]) = <<>>
  BY DEF CString, Junk, NUL
<1>5. ReceivedNow = [t \in Readers |-> <<>>]
  BY <1>1, <1>4 DEF ReceivedNow
<1> QED BY <1>1, <1>2, <1>3, <1>5, MappedInit

LEMMA PutcMaps ==
    ASSUME NEW t, NEW c, sys_putc(t, c)
    PROVE  UNCHANGED L!vars
<1>1. UNCHANGED <<task_waiting_for_input, user_target_buffer, asked,
                  kbd_internal_buffer, kbd_internal_buffer_idx, memory,
                  syscall_retval>>
  BY DEF sys_putc, editor, target
<1>2. UNCHANGED <<RoomNow, LineNow, ReceivedNow>>
  BY <1>1 DEF RoomNow, LineNow, ReceivedNow, Reading, LineOf, CString
<1> QED BY <1>1, <1>2, MappedStutter

LEMMA GetsMaps ==
    ASSUME KeyInv, NEW t \in Readers, NEW size \in Sizes, sys_gets(t, size)
    PROVE  [L!Next]_(L!vars)
<1>1. TypeOK /\ Target
  BY DEF KeyInv
<1>2. /\ t \notin waiting /\ size # 0 /\ size \in 1..MaxWord /\ t # NoTask
      /\ UNCHANGED <<memory, syscall_retval>>
      /\ asked' = [asked EXCEPT ![t] = size]
      /\ keyboard_prepare_for_gets(t, size)
  BY KeyboardAssumption DEF sys_gets
<1>3. UNCHANGED ReceivedNow
  BY <1>2 DEF ReceivedNow, CString
<1>4. CASE task_waiting_for_input # NoTask
  <2>1. UNCHANGED <<task_waiting_for_input, user_target_buffer,
                    kbd_internal_buffer, kbd_internal_buffer_idx>>
    BY <1>2, <1>4 DEF keyboard_prepare_for_gets, editor, target
  <2>2. asked'[task_waiting_for_input] = asked[task_waiting_for_input]
    BY <1>1, <1>2, <1>4 DEF Target, TypeOK
  <2>3. UNCHANGED <<RoomNow, LineNow>>
    BY <2>1, <2>2 DEF RoomNow, LineNow, Reading, LineOf
  <2> QED BY <1>2, <1>3, <2>1, <2>3, MappedStutter
<1>5. CASE task_waiting_for_input = NoTask
  <2>1. /\ user_target_buffer' = t /\ task_waiting_for_input' = t
        /\ kbd_internal_buffer_idx' = 0
    BY <1>2, <1>5 DEF keyboard_prepare_for_gets
  <2>2. asked'[t] = size
    BY <1>1, <1>2 DEF TypeOK
  <2>3. PICK n : n = Least(BufferSize, size) - 1
    OBVIOUS
  <2>4. n \in 0..(BufferSize - 1)
    BY <1>2, <2>3, KeyboardAssumption DEF Least
  <2>5. RoomNow' = n
    BY <1>2, <2>1, <2>2, <2>3 DEF RoomNow, Reading
  <2>6. LineNow' = <<>>
    BY <2>1, NoLine DEF LineNow
  <2>7. L!Ask(t, n)
    BY <1>2, <1>3, <1>5, <2>1, <2>5, <2>6, MappedAsk
  <2> QED BY <2>4, <2>7 DEF L!Next
<1> QED BY <1>4, <1>5

LEMMA LetterMaps ==
    ASSUME KeyInv, Reading, NEW c \in Letters, LetterKey(c)
    PROVE  L!Type(c)
<1>1. PICK n : n = kbd_internal_buffer_idx
  OBVIOUS
<1>2. /\ n \in Nat /\ n < BufferSize - 1
      /\ n < Minus1(asked[task_waiting_for_input])
      /\ asked[task_waiting_for_input] \in Nat \ {0}
      /\ task_waiting_for_input # NoTask
  BY <1>1, LineFits DEF LetterKey, Reading
<1>3. n < RoomNow
  BY <1>2, KeyboardAssumption DEF RoomNow, Least, Minus1
<1>4. /\ kbd_internal_buffer' = [kbd_internal_buffer EXCEPT ![n] = c]
      /\ kbd_internal_buffer_idx' = n + 1
      /\ UNCHANGED <<user_target_buffer, task_waiting_for_input,
                     syscall_retval, memory, asked>>
  BY <1>1 DEF LetterKey, target
<1>5. /\ \A i \in 0..(n - 1) :
           /\ kbd_internal_buffer[i] \in Letters
           /\ kbd_internal_buffer'[i] = kbd_internal_buffer[i]
      /\ kbd_internal_buffer'[n] = c
  BY <1>1, <1>2, <1>4, KeyboardAssumption DEF KeyInv, TypeOK, Target
<1>6. Len(LineNow) = n
  BY <1>1, <1>2, <1>5, LineIsSeq DEF LineNow
<1>7. LineNow' = Append(LineNow, c)
  <2>1. PICK b1, b2 : b1 = kbd_internal_buffer /\ b2 = kbd_internal_buffer'
    OBVIOUS
  <2>2. /\ \A i \in 0..(n - 1) : b1[i] \in Letters /\ b2[i] = b1[i]
        /\ b2[n] = c
    BY <1>5, <2>1
  <2>3. LineOf(b2, n + 1) = Append(LineOf(b1, n), c)
    BY ONLY <1>2, <2>2, LineAppend, c \in Letters
  <2> QED BY <1>1, <1>4, <2>1, <2>3 DEF LineNow
<1>8. UNCHANGED <<RoomNow, ReceivedNow>>
  BY <1>4 DEF RoomNow, ReceivedNow, Reading, CString
<1> QED BY <1>2, <1>3, <1>4, <1>6, <1>7, <1>8, MappedType

LEMMA BackspaceMaps ==
    ASSUME KeyInv, Reading, BackspaceKey
    PROVE  L!Rubout
<1>1. PICK n : n = kbd_internal_buffer_idx
  OBVIOUS
<1>2. n \in Nat \ {0} /\ task_waiting_for_input # NoTask
  BY <1>1, LineFits DEF BackspaceKey, Reading
<1>3. /\ kbd_internal_buffer_idx' = n - 1
      /\ UNCHANGED <<kbd_internal_buffer, user_target_buffer,
                     task_waiting_for_input, syscall_retval, memory, asked>>
  BY <1>1 DEF BackspaceKey, target
<1>4. \A i \in 0..(n - 1) : kbd_internal_buffer[i] \in Letters
  BY <1>1, <1>2 DEF KeyInv, Target
<1>5. /\ LineOf(kbd_internal_buffer, n - 1)
           = L!Front(LineOf(kbd_internal_buffer, n))
      /\ LineOf(kbd_internal_buffer, n) # <<>>
  BY <1>2, <1>4, LineFront
<1>6. LineNow' = L!Front(LineNow) /\ LineNow # <<>>
  BY <1>1, <1>3, <1>5 DEF LineNow
<1>7. UNCHANGED <<RoomNow, ReceivedNow>>
  BY <1>3 DEF RoomNow, ReceivedNow, Reading, CString
<1> QED BY <1>2, <1>3, <1>6, <1>7, MappedRubout

LEMMA EnterMaps ==
    ASSUME KeyInv, Reading, EnterKey
    PROVE  L!Enter
<1>1. PICK n \in 0..(BufferSize - 1), string \in [0..MaxWord -> Bytes] :
        /\ n = kbd_internal_buffer_idx /\ n \in 0..MaxWord
        /\ memory' = [memory EXCEPT ![task_waiting_for_input] = string]
        /\ syscall_retval' =
             [syscall_retval EXCEPT ![task_waiting_for_input] = n]
        /\ \A i \in 0..(n - 1) : /\ string[i] = kbd_internal_buffer[i]
                                 /\ string[i] \in Letters
        /\ string[n] = NUL
  BY EnterCopies
<1>2. n \in Nat /\ task_waiting_for_input # NoTask
      /\ task_waiting_for_input \in Readers
  BY <1>1, LineFits DEF Reading
<1>3. \A i \in 0..(n - 1) : string[i] # NUL
  BY <1>1, Characters
<1>4. CString(string) = LineOf(string, n)
  BY <1>1, <1>3, StringIsLine
<1>5. LineOf(string, n) = LineNow
  BY <1>1, <1>2, LineEqual DEF LineNow
<1>6. Len(LineNow) = n
  BY <1>1, <1>2, LineIsSeq DEF LineNow
<1>7. ReceivedNow' = [ReceivedNow EXCEPT ![task_waiting_for_input] = LineNow]
  <2>1. memory \in [Readers -> [0..MaxWord -> Bytes]]
    BY DEF KeyInv, TypeOK
  <2>2. PICK after : after = memory'
    OBVIOUS
  <2>3. /\ after[task_waiting_for_input] = string
        /\ \A t \in Readers : t # task_waiting_for_input => after[t] = memory[t]
    BY <1>1, <1>2, <2>1, <2>2
  <2>4. ReceivedNow' = [t \in Readers |-> CString(after[t])]
    BY <2>2 DEF ReceivedNow, CString
  <2> QED BY <1>2, <1>4, <1>5, <2>3, <2>4 DEF ReceivedNow
<1>8. /\ task_waiting_for_input' = NoTask /\ kbd_internal_buffer_idx' = 0
  BY DEF EnterKey
<1>9. RoomNow' = 0 /\ LineNow' = <<>>
  BY <1>8, NoLine DEF RoomNow, LineNow, Reading
<1> QED BY <1>1, <1>2, <1>6, <1>7, <1>8, <1>9, MappedEnter

LEMMA StepMaps == KeyInv /\ [Next]_vars => [L!Next]_(L!vars)
<1> SUFFICES ASSUME KeyInv, [Next]_vars PROVE [L!Next]_(L!vars)
  OBVIOUS
<1>1. CASE Putc
  BY <1>1, PutcMaps DEF Putc
<1>2. CASE Gets
  BY <1>2, GetsMaps DEF Gets
<1>3. CASE Key
  BY <1>3, EnterMaps, BackspaceMaps, LetterMaps
  DEF Key, keyboard_handler_main, L!Next
<1>4. CASE UNCHANGED vars
  <2>1. UNCHANGED <<task_waiting_for_input, user_target_buffer, asked,
                    kbd_internal_buffer, kbd_internal_buffer_idx, memory,
                    syscall_retval>>
    BY <1>4 DEF vars, editor, target
  <2>2. UNCHANGED <<RoomNow, LineNow, ReceivedNow>>
    BY <2>1 DEF RoomNow, LineNow, ReceivedNow, Reading, LineOf, CString
  <2> QED BY <2>1, <2>2, MappedStutter
<1> QED BY <1>1, <1>2, <1>3, <1>4 DEF Next

\* SYS_GETS keeps its promise: the program gets the line that was typed and
\* edited, cut to its buffer, with its length, and no other program gets it.
THEOREM LinesDelivered == Spec => ImplementsLineReader
BY InitMaps, StepMaps, KeyboardInvariant, PTL
DEF Spec, ImplementsLineReader, L!LineSpec
=============================================================================
