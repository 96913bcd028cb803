------------------------------ MODULE Keyboard ------------------------------
(***************************************************************************)
(* The keyboard driver under SYS_GETS: the line editor in keyboard.c, the  *)
(* program's buffer it fills and the echo on the console.                  *)
(*                                                                         *)
(* IRQ1 and the system call that starts a read both run with IF = 0, so    *)
(* each is one step.  Which task runs when is Kernel's subject: here any   *)
(* task that does not wait may print or read.                              *)
(***************************************************************************)
EXTENDS Console, Sequences

CONSTANTS
    Readers,      \* the tasks that read
    Letters,      \* the printable characters
    BufferSize,   \* KBD_INTERNAL_BUFFER_SIZE, 256
    MaxWord,      \* the greatest uint32_t
    Sizes,        \* the buffer sizes given to SYS_GETS
    NoTask        \* the null task_waiting_for_input

ASSUME KeyboardAssumption ==
    /\ BufferSize \in Nat \ {0} /\ MaxWord \in Nat /\ MaxWord >= BufferSize
    /\ Sizes \subseteq 0..MaxWord
    /\ NoTask \notin Readers
    /\ Letters \cap {Newline, Backspace, Blank, "nul", "junk"} = {}

NUL == "nul"
Junk == "junk"  \* whatever memory holds before the driver writes it
Bytes == Letters \cup {NUL, Junk}
Keys == Letters \cup {Newline, Backspace}

VARIABLES
    kbd_internal_buffer, kbd_internal_buffer_idx,
    user_target_buffer,          \* the reader whose buffer it is, or NoTask
    user_target_buffer_max_size, task_waiting_for_input,
    num_chars_read_for_gets,
    waiting,                     \* the tasks WAITING_FOR_KEYBOARD
    syscall_retval,
    memory,                      \* memory[t]: what lies from t's buffer on
    asked,                       \* history: the size t gave SYS_GETS
    disturbed                    \* history: a task printed since then

target == <<user_target_buffer, user_target_buffer_max_size>>
editor == <<kbd_internal_buffer, kbd_internal_buffer_idx>>
vars == <<console, editor, target, task_waiting_for_input,
          num_chars_read_for_gets, waiting, syscall_retval, memory, asked, disturbed>>

\* uint32_t arithmetic: 0 - 1 is the greatest word.
Minus1(n) == IF n = 0 THEN MaxWord ELSE n - 1

Init ==
    /\ clear_screen
    /\ kbd_internal_buffer = [i \in 0..(BufferSize - 1) |-> NUL]
    /\ kbd_internal_buffer_idx = 0
    /\ user_target_buffer = NoTask /\ user_target_buffer_max_size = 0
    /\ task_waiting_for_input = NoTask
    /\ num_chars_read_for_gets = 0
    /\ waiting = {}
    /\ syscall_retval = [t \in Readers |-> 0]
    /\ memory = [t \in Readers |-> [i \in 0..MaxWord |-> Junk]]
    /\ asked = [t \in Readers |-> 0]
    /\ disturbed = FALSE

\* A line is being read.
Reading == task_waiting_for_input # NoTask /\ user_target_buffer # NoTask

\* SYS_PUTC by a task that runs.
sys_putc(t, c) ==
    /\ t \notin waiting
    /\ print_char(c, vga_x, vga_y)
    /\ UNCHANGED <<editor, target, task_waiting_for_input,
                   num_chars_read_for_gets, waiting, syscall_retval, memory,
                   asked>>
    /\ disturbed' = Reading

\* Mutant: the target is replaced before the check for another reader.
keyboard_prepare_for_gets_TargetFirst(t, size) ==
    /\ user_target_buffer' = t
    /\ user_target_buffer_max_size' = size
    /\ IF task_waiting_for_input # NoTask
         THEN UNCHANGED <<editor, num_chars_read_for_gets,
                          task_waiting_for_input>>
         ELSE /\ kbd_internal_buffer_idx' = 0
              /\ kbd_internal_buffer' = [kbd_internal_buffer EXCEPT ![0] = NUL]
              /\ num_chars_read_for_gets' = 0
              /\ task_waiting_for_input' = t

keyboard_prepare_for_gets(t, size) ==
    IF task_waiting_for_input # NoTask
      THEN UNCHANGED <<editor, target, num_chars_read_for_gets,
                       task_waiting_for_input>>
      ELSE /\ user_target_buffer' = t
           /\ user_target_buffer_max_size' = size
           /\ kbd_internal_buffer_idx' = 0
           /\ kbd_internal_buffer' = [kbd_internal_buffer EXCEPT ![0] = NUL]
           /\ num_chars_read_for_gets' = 0
           /\ task_waiting_for_input' = t

\* Mutant: SYS_GETS does not refuse the size 0.
sys_gets_AnySize(t, size) ==
    /\ t \notin waiting
    /\ keyboard_prepare_for_gets(t, size)
    /\ waiting' = waiting \cup {t}
    /\ asked' = [asked EXCEPT ![t] = size]
    /\ UNCHANGED <<console, syscall_retval, memory, disturbed>>

\* SYS_GETS with a buffer: the size 0 is refused, without any effect here.
sys_gets(t, size) ==
    /\ t \notin waiting /\ size # 0
    /\ keyboard_prepare_for_gets(t, size)
    /\ waiting' = waiting \cup {t}
    /\ asked' = [asked EXCEPT ![t] = size]
    /\ UNCHANGED <<console, syscall_retval, memory, disturbed>>

-----------------------------------------------------------------------------
(***************************************************************************)
(* keyboard_process_char_for_gets, one action per kind of key.             *)
(***************************************************************************)
\* memcpy of len bytes of the line into the program's buffer, then a NUL.
Filled(bytes, len) ==
    [i \in 0..MaxWord |->
       IF i = len THEN NUL
       ELSE IF i > len THEN bytes[i]
       ELSE IF i < BufferSize THEN kbd_internal_buffer'[i] ELSE Junk]

EnterKey ==
    /\ kbd_internal_buffer' =
         [kbd_internal_buffer EXCEPT ![kbd_internal_buffer_idx] = NUL]
    /\ LET copy_len == IF kbd_internal_buffer_idx >= user_target_buffer_max_size
                         THEN Minus1(user_target_buffer_max_size)
                         ELSE kbd_internal_buffer_idx
       IN /\ memory' = [memory EXCEPT
                          ![user_target_buffer] = Filled(@, copy_len)]
          /\ num_chars_read_for_gets' = copy_len
          /\ syscall_retval' =
               [syscall_retval EXCEPT ![task_waiting_for_input] = copy_len]
    /\ print_char(Newline, vga_x, vga_y)
    /\ waiting' = waiting \ {task_waiting_for_input}
    /\ task_waiting_for_input' = NoTask
    /\ user_target_buffer' = NoTask
    /\ kbd_internal_buffer_idx' = 0
    /\ disturbed' = FALSE
    /\ UNCHANGED <<user_target_buffer_max_size, asked>>

\* Mutant: the index is not compared with 0.
BackspaceKey_NoCheck ==
    /\ kbd_internal_buffer_idx' = Minus1(kbd_internal_buffer_idx)
    /\ print_char(Backspace, vga_x, vga_y)
    /\ UNCHANGED <<kbd_internal_buffer, target, task_waiting_for_input,
                   num_chars_read_for_gets, waiting, syscall_retval, memory,
                   asked, disturbed>>

BackspaceKey ==
    /\ kbd_internal_buffer_idx > 0
    /\ kbd_internal_buffer_idx' = kbd_internal_buffer_idx - 1
    /\ print_char(Backspace, vga_x, vga_y)
    /\ UNCHANGED <<kbd_internal_buffer, target, task_waiting_for_input,
                   num_chars_read_for_gets, waiting, syscall_retval, memory,
                   asked, disturbed>>

\* Mutant: the program's buffer may be filled to its last byte.
LetterKey_LastByte(c) ==
    /\ kbd_internal_buffer_idx < BufferSize - 1
    /\ kbd_internal_buffer_idx < user_target_buffer_max_size
    /\ kbd_internal_buffer' =
         [kbd_internal_buffer EXCEPT ![kbd_internal_buffer_idx] = c]
    /\ kbd_internal_buffer_idx' = kbd_internal_buffer_idx + 1
    /\ print_char(c, vga_x, vga_y)
    /\ UNCHANGED <<target, task_waiting_for_input, num_chars_read_for_gets,
                   waiting, syscall_retval, memory, asked, disturbed>>

LetterKey(c) ==
    /\ kbd_internal_buffer_idx < BufferSize - 1
    /\ kbd_internal_buffer_idx < Minus1(user_target_buffer_max_size)
    /\ kbd_internal_buffer' =
         [kbd_internal_buffer EXCEPT ![kbd_internal_buffer_idx] = c]
    /\ kbd_internal_buffer_idx' = kbd_internal_buffer_idx + 1
    /\ print_char(c, vga_x, vga_y)
    /\ UNCHANGED <<target, task_waiting_for_input, num_chars_read_for_gets,
                   waiting, syscall_retval, memory, asked, disturbed>>

\* IRQ1.  Keys are those scancode_map gives a newline, a backspace or a
\* printable character.  A released key, one without a character, Escape and
\* Tab change nothing, nor does any key while no task reads.
keyboard_handler_main(key) ==
    /\ Reading
    /\ \/ key = Newline /\ EnterKey
       \/ key = Backspace /\ BackspaceKey
       \/ key \in Letters /\ LetterKey(key)

Putc == \E t \in Readers, c \in Letters \cup {Newline} : sys_putc(t, c)
Gets == \E t \in Readers, size \in Sizes : sys_gets(t, size)
Key == \E key \in Keys : keyboard_handler_main(key)

Next == Putc \/ Gets \/ Key

Spec == Init /\ [][Next]_vars

-----------------------------------------------------------------------------
(***************************************************************************)
(* Properties.                                                             *)
(***************************************************************************)
\* The variables hold what their C types and the arrays' bounds allow: the
\* index leaves room for the NUL, the cursor is on the screen.
TypeOK ==
    /\ vga_buffer \in [Cells -> Letters \cup {Blank}]
    /\ vga_x \in 0..(Columns - 1) /\ vga_y \in 0..(Rows - 1)
    /\ kbd_internal_buffer \in [0..(BufferSize - 1) -> Letters \cup {NUL}]
    /\ kbd_internal_buffer_idx \in 0..(BufferSize - 1)
    /\ user_target_buffer \in Readers \cup {NoTask}
    /\ user_target_buffer_max_size \in 0..MaxWord
    /\ task_waiting_for_input \in Readers \cup {NoTask}
    /\ num_chars_read_for_gets \in 0..MaxWord
    /\ waiting \subseteq Readers
    /\ syscall_retval \in [Readers -> 0..MaxWord]
    /\ memory \in [Readers -> [0..MaxWord -> Bytes]]
    /\ asked \in [Readers -> 0..MaxWord]
    /\ disturbed \in BOOLEAN

\* The driver writes into the buffer of the task it wakes, within the size
\* that this task gave, whoever else has called SYS_GETS meanwhile.
WritesStayInUserBuffer ==
    [][\A t \in Readers : memory'[t] # memory[t] =>
         /\ t \in waiting /\ t \notin waiting'
         /\ \A i \in 0..MaxWord : memory'[t][i] # memory[t][i] => i < asked[t]]_vars

\* What the reader sees before the cursor is the line the driver holds, over
\* every margin and scroll, however the line was edited.
EchoShowsLine ==
    Reading /\ ~disturbed =>
      \A i \in 0..(kbd_internal_buffer_idx - 1) :
        LET cell == Cell(vga_x, vga_y) - kbd_internal_buffer_idx + i IN
        cell >= 0 => vga_buffer[cell] = kbd_internal_buffer[i]

\* The C string in a program's buffer.
CString(bytes) ==
    LET ends == {i \in 0..MaxWord : bytes[i] = NUL} IN
    IF ends = {} THEN <<>>
    ELSE LET end == CHOOSE i \in ends : \A j \in ends : i <= j IN
         [i \in 1..end |-> bytes[i - 1]]

Least(m, n) == IF m <= n THEN m ELSE n

L == INSTANCE LineReader WITH
       Limit <- BufferSize - 1,
       NoReader <- NoTask,
       reader <- task_waiting_for_input,
       room <- IF Reading
                 THEN Least(BufferSize, asked[task_waiting_for_input]) - 1
                 ELSE 0,
       line <- [i \in 1..kbd_internal_buffer_idx |-> kbd_internal_buffer[i - 1]],
       received <- [t \in Readers |-> CString(memory[t])],
       count <- syscall_retval

\* The program gets the line that was typed, edited and cut to its buffer,
\* NUL-terminated, with the right length, and no other program gets it.
ImplementsLineReader == L!LineSpec
=============================================================================
