------------------------------ MODULE Library ------------------------------
(***************************************************************************)
(* The pure functions of the kernel and of the two programs: libc.c,       *)
(* shell.c, fake_ai.c, and the block of arguments that task.c builds on    *)
(* the stack of a new program.                                             *)
(*                                                                         *)
(* Characters are bytes.  A C string is the sequence of its characters     *)
(* with the NUL; a pointer into it is a position.  Memory is a function    *)
(* from addresses.                                                         *)
(***************************************************************************)
EXTENDS Integers, Sequences, SequencesExt

NUL == 0
NotFound == 0          \* the NULL that strstr returns
CString(s) == Append(s, NUL)

-----------------------------------------------------------------------------
(***************************************************************************)
(* Strings.                                                                *)
(***************************************************************************)
strcmp(s1, s2) ==
    LET scan[i \in DOMAIN s1 \cap DOMAIN s2] ==
          IF s1[i] # NUL /\ s1[i] = s2[i] THEN scan[i + 1] ELSE s1[i] - s2[i]
    IN scan[1]

\* The inner loop counts the characters that agree from p1_begin on.
strstr(haystack, needle) ==
    LET agree[p1_begin \in DOMAIN haystack, k \in 0..Len(needle)] ==
          IF /\ haystack[p1_begin + k] # NUL /\ needle[k + 1] # NUL
             /\ haystack[p1_begin + k] = needle[k + 1]
            THEN agree[p1_begin, k + 1] ELSE k
        search[p1 \in DOMAIN haystack] ==
          IF haystack[p1] = NUL THEN NotFound
          ELSE IF needle[agree[p1, 0] + 1] = NUL THEN p1
          ELSE search[p1 + 1]
    IN IF needle[1] = NUL THEN 1 ELSE search[1]

\* Byte by byte, upwards.
memcpy(mem, dest, src, n) ==
    LET copied[k \in 0..n] ==
          IF k = 0 THEN mem
          ELSE [copied[k - 1] EXCEPT ![dest + k - 1] = copied[k - 1][src + k - 1]]
    IN copied[n]

memset(mem, dest, val, count) ==
    [a \in DOMAIN mem |-> IF a \in dest..(dest + count - 1) THEN val % 256
                                                           ELSE mem[a]]

-----------------------------------------------------------------------------
(***************************************************************************)
(* Numbers.                                                                *)
(***************************************************************************)
Digit(remainder, ten) == IF remainder < 10 THEN remainder + 48
                                           ELSE remainder - 10 + ten

print_hex_char(c) == <<Digit(c \div 16, 65), Digit(c % 16, 65)>>

print_hex(n) ==
    <<48, 120>> \o print_hex_char(n \div 2^24 % 256)
                \o print_hex_char(n \div 2^16 % 256)
                \o print_hex_char(n \div 2^8 % 256)
                \o print_hex_char(n % 256)

\* The last digit first, then swapped in place from both ends.
itoa(value, base) ==
    LET digits[v \in 0..value] ==
          IF v = 0 THEN <<>>
          ELSE <<Digit(v % base, 97)>> \o digits[v \div base]
        written == digits[value]
        n == Len(written)
        swapped[low \in 0..(n \div 2)] ==
          IF low = 0 THEN written
          ELSE [swapped[low - 1] EXCEPT ![low] = swapped[low - 1][n + 1 - low],
                                        ![n + 1 - low] = swapped[low - 1][low]]
    IN CASE base < 2 \/ base > 36 -> CString(<<>>)
         [] value = 0             -> CString(<<48>>)
         [] OTHER                 -> CString(swapped[n \div 2])

-----------------------------------------------------------------------------
(***************************************************************************)
(* The programs.                                                           *)
(***************************************************************************)
Blank == {32, 9, 10, 13}     \* ' ', '\t', '\n', '\r'

is_empty(str) ==
    LET scan[i \in DOMAIN str] ==
          IF str[i] = NUL THEN TRUE
          ELSE IF str[i] \notin Blank THEN FALSE
          ELSE scan[i + 1]
    IN scan[1]

\* ASCII
fake_ai_bin == CString(<<102, 97, 107, 101, 95, 97, 105, 46, 98, 105, 110>>)
bonjour == CString(<<98, 111, 110, 106, 111, 117, 114>>)
heure == CString(<<104, 101, 117, 114, 101>>)
aide == CString(<<97, 105, 100, 101>>)

\* What the shell executes for a line: the argv of an exec, or nothing.
shell_main(input_buffer) ==
    IF input_buffer[1] = NUL \/ is_empty(input_buffer)
      THEN {} ELSE {<<fake_ai_bin, input_buffer>>}

\* Which of its answers fake_ai prints.
fake_ai_main(argc, argv) ==
    IF argc < 2 THEN "silence"
    ELSE IF strstr(argv[2], bonjour) # NotFound THEN "greeting"
    ELSE IF strstr(argv[2], heure) # NotFound THEN "time"
    ELSE IF strcmp(argv[2], aide) = 0 THEN "help"
    ELSE "sorry"

-----------------------------------------------------------------------------
(***************************************************************************)
(* The arguments on the stack of a new program, from its top down: the     *)
(* strings, the pointers to them with a NULL, and argc, where esp points.  *)
(* A word of 4 bytes is kept whole at the address of its first byte.       *)
(***************************************************************************)
WORD == 4

argv_block(argv, top) ==
    LET argc == Len(argv)
        before[i \in 0..argc] == IF i = 0 THEN 0 ELSE before[i - 1] + Len(argv[i])
        string_area == top - before[argc]
        pointers == string_area - (argc + 1) * WORD
        esp == pointers - WORD
        string(i) == string_area + before[i - 1]
        Stored(a) ==
          IF a = esp THEN argc
          ELSE IF a < string_area
            THEN LET i == (a - pointers) \div WORD + 1
                 IN IF (a - pointers) % WORD = 0 /\ i <= argc THEN string(i) ELSE 0
          ELSE LET i == CHOOSE j \in 1..argc :
                          a \in string(j)..(string(j) + Len(argv[j]) - 1)
               IN argv[i][a - string(i) + 1]
    IN [esp |-> esp, mem |-> [a \in esp..(top - 1) |-> Stored(a)]]

\* The C string at an address.
StringAt(mem, addr) ==
    LET end == CHOOSE e \in addr..(addr + Cardinality(DOMAIN mem)) :
                 mem[e] = NUL /\ \A a \in addr..(e - 1) : mem[a] # NUL
    IN [k \in 1..(end - addr + 1) |-> mem[addr + k - 1]]
=============================================================================
