----------------------------- MODULE StubProofs -----------------------------
(***************************************************************************)
(* The stubs of exceptions and interrupts leave no trace and build one     *)
(* frame: the proofs, for every set of gates.                              *)
(***************************************************************************)
EXTENDS InterruptStubs, TLAPS

Sources == General \cup Segments \cup
             {"kernel_data", "kernel_code", "eip", "eflags", "error_code",
              "byte", "stack", "C"}
Words == [of : Sources, at : Int]
Instructions ==
    {I("pusha"), I("popa"), I("call"), I("iret"), <<"push", "ds">>,
     <<"pop", "ebx">>, <<"segments", "kernel">>, <<"segments", "ebx">>,
     <<"drop", 2>>} \cup {<<"push_byte", n>> : n \in 0..47}
Registers == General \cup Segments

\* The words pushed before the registers: 3, or 5 with the error code and
\* the number; and how many of them the stub pushes.
Simple == vector \in {32, 33}
Base == IF Simple THEN 3 ELSE 5
Pushed == IF Simple THEN 0 ELSE IF vector \in IsrErrcode THEN 1 ELSE 2
ErrorCode == IF vector \in WithErrorCode THEN Value("error_code") ELSE Word("byte", 0)

Program == Stub(vector)
Here(k) == text = SubSeq(Program, k, Len(Program))

FrameThere == \A i \in 1..3 : stack[i] = Frame[i]
BaseThere ==
    /\ FrameThere
    /\ ~Simple => stack[4] = ErrorCode /\ stack[5] = Word("byte", vector)
Saved ==
    /\ BaseThere
    /\ stack[Base + 1] = before["eax"] /\ stack[Base + 2] = before["ecx"]
    /\ stack[Base + 3] = before["edx"] /\ stack[Base + 4] = before["ebx"]
    /\ stack[Base + 6] = before["ebp"] /\ stack[Base + 7] = before["esi"]
    /\ stack[Base + 8] = before["edi"]
DsSaved == stack[Base + 9] = before["ds"]
DataSegments == \A r \in Segments : regs[r] = before[r]

(***************************************************************************)
(* The inductive invariant: for each instruction, what lies on the stack   *)
(* when it is reached.                                                     *)
(***************************************************************************)
StubTypes ==
    /\ vector \in Gates /\ before = Interrupted
    /\ regs \in [Registers -> Words] /\ stack \in Seq(Words)

AtDummy ==
    Pushed = 2 /\ Here(1) /\ Len(stack) = 3 /\ FrameThere /\ regs = before
AtNumber ==
    /\ ~Simple /\ Here(Pushed) /\ Len(stack) = 4 /\ FrameThere
    /\ stack[4] = ErrorCode /\ regs = before
AtSave ==
    Here(Pushed + 1) /\ Len(stack) = Base /\ BaseThere /\ regs = before
AtSaveDs ==
    /\ vector # 32 /\ Here(Pushed + 2) /\ Len(stack) = Base + 8
    /\ Saved /\ regs = before
AtSwitch ==
    /\ vector # 32 /\ Here(Pushed + 3) /\ Len(stack) = Base + 9
    /\ Saved /\ DsSaved /\ regs = before
AtCall ==
    /\ Here(IF vector = 32 THEN 2 ELSE Pushed + 4) /\ Saved /\ regs = before
    /\ vector = 32 => Len(stack) = Base + 8
    /\ vector # 32 => Len(stack) = Base + 9 /\ DsSaved
AtTakeDs ==
    /\ vector # 32 /\ Here(Pushed + 5) /\ Len(stack) = Base + 9
    /\ Saved /\ DsSaved /\ DataSegments
AtSwitchBack ==
    /\ vector # 32 /\ Here(Pushed + 6) /\ Len(stack) = Base + 8
    /\ Saved /\ regs["ebx"] = before["ds"]
AtRestore ==
    /\ Here(IF vector = 32 THEN 3 ELSE Pushed + 7) /\ Len(stack) = Base + 8
    /\ Saved /\ DataSegments
AtDiscard ==
    ~Simple /\ Here(Pushed + 8) /\ Len(stack) = 5 /\ BaseThere /\ regs = before
AtReturn ==
    Here(Len(Program)) /\ Len(stack) = 3 /\ FrameThere /\ regs = before
Done ==
    /\ text = <<>> /\ stack = <<>> /\ regs = before
    /\ resumed = <<Value("eip"), Value("kernel_code"), Value("eflags")>>

StubInv ==
    /\ StubTypes
    /\ \/ /\ resumed = <<>>
          /\ \/ AtDummy \/ AtNumber \/ AtSave \/ AtSaveDs \/ AtSwitch \/ AtCall
             \/ AtTakeDs \/ AtSwitchBack \/ AtRestore \/ AtDiscard \/ AtReturn
       \/ Done

-----------------------------------------------------------------------------
(***************************************************************************)
(* Sequences.                                                              *)
(***************************************************************************)
LEMMA Rest ==
    ASSUME NEW S, NEW s \in Seq(S), NEW k \in 1..Len(s)
    PROVE  /\ SubSeq(s, k, Len(s)) # <<>> /\ Head(SubSeq(s, k, Len(s))) = s[k]
           /\ k < Len(s) =>
                Tail(SubSeq(s, k, Len(s))) = SubSeq(s, k + 1, Len(s))
           /\ k = Len(s) => Tail(SubSeq(s, k, Len(s))) = <<>>
<1>1. PICK t, n : t = SubSeq(s, k, Len(s)) /\ n = Len(s)
  OBVIOUS
<1>2. /\ n \in Nat /\ k \in 1..n /\ t \in Seq(S) /\ Len(t) = n - k + 1
      /\ \A i \in 1..(n - k + 1) : t[i] = s[k + i - 1]
  BY <1>1
<1>3. t # <<>> /\ Head(t) = s[k]
  BY <1>2
<1>4. Tail(t) \in Seq(S) /\ Len(Tail(t)) = n - k
      /\ \A i \in 1..(n - k) : Tail(t)[i] = s[k + i]
  BY <1>2
<1>5. ASSUME k < n PROVE Tail(t) = SubSeq(s, k + 1, n)
  <2>1. PICK u : u = SubSeq(s, k + 1, n)
    OBVIOUS
  <2>2. u \in Seq(S) /\ Len(u) = n - k /\ \A i \in 1..(n - k) : u[i] = s[k + i]
    BY <1>1, <1>2, <1>5, <2>1
  <2> QED BY <1>4, <2>1, <2>2
<1>6. k = n => Tail(t) = <<>>
  BY <1>4
<1> QED BY <1>1, <1>3, <1>5, <1>6

LEMMA Shortened ==
    ASSUME NEW S, NEW s \in Seq(S), NEW k \in 0..Len(s), NEW t,
           t = SubSeq(s, 1, Len(s) - k)
    PROVE  /\ t \in Seq(S) /\ Len(t) = Len(s) - k
           /\ \A i \in 1..Len(t) : t[i] = s[i]
OBVIOUS

LEMMA Joined ==
    ASSUME NEW S, NEW s \in Seq(S), NEW t \in Seq(S)
    PROVE  /\ s \o t \in Seq(S) /\ Len(s \o t) = Len(s) + Len(t)
           /\ \A i \in 1..Len(s) : (s \o t)[i] = s[i]
           /\ \A i \in 1..Len(t) : (s \o t)[Len(s) + i] = t[i]
OBVIOUS

LEMMA Followed ==
    ASSUME NEW S, NEW s \in Seq(S), NEW w \in S, NEW t, t = s \o <<w>>
    PROVE  /\ t \in Seq(S) /\ Len(t) = Len(s) + 1 /\ t[Len(s) + 1] = w
           /\ \A i \in 1..Len(s) : t[i] = s[i]
<1>1. PICK u : u = <<w>>
  OBVIOUS
<1>2. u \in Seq(S) /\ Len(u) = 1 /\ u[1] = w /\ t = s \o u
  BY <1>1
<1> QED BY <1>2

LEMMA Saves8 ==
    ASSUME NEW S, NEW s \in Seq(S), NEW n, n = Len(s), NEW u,
           NEW a \in S, NEW b \in S, NEW c \in S, NEW d \in S,
           NEW e \in S, NEW f \in S, NEW g \in S, NEW h \in S,
           u = s \o <<a, b, c, d, e, f, g, h>>
    PROVE  /\ u \in Seq(S) /\ Len(u) = n + 8
           /\ \A i \in 1..n : u[i] = s[i]
           /\ u[n + 1] = a /\ u[n + 2] = b /\ u[n + 3] = c /\ u[n + 4] = d
           /\ u[n + 5] = e /\ u[n + 6] = f /\ u[n + 7] = g /\ u[n + 8] = h
OBVIOUS

LEMMA Extended ==
    ASSUME NEW S, NEW s \in Seq(S), NEW w \in S, NEW t, t = Append(s, w)
    PROVE  /\ t \in Seq(S) /\ Len(t) = Len(s) + 1 /\ t[Len(s) + 1] = w
           /\ \A i \in 1..Len(s) : t[i] = s[i]
OBVIOUS

-----------------------------------------------------------------------------
(***************************************************************************)
(* The instructions of a stub, and which of them a step executes.          *)
(***************************************************************************)
LEMMA Listing ==
    ASSUME vector \in Gates
    PROVE  /\ vector \in 0..47 /\ Program \in Seq(Instructions)
           /\ Pushed \in 0..2 /\ Base \in {3, 5} /\ (~Simple => Pushed > 0)
           /\ vector = 32 =>
                /\ Len(Program) = 4 /\ Pushed = 0
                /\ Program[1] = I("pusha") /\ Program[2] = I("call")
                /\ Program[3] = I("popa") /\ Program[4] = I("iret")
           /\ vector # 32 =>
                /\ Program[Pushed + 1] = I("pusha")
                /\ Program[Pushed + 2] = <<"push", "ds">>
                /\ Program[Pushed + 3] = <<"segments", "kernel">>
                /\ Program[Pushed + 4] = I("call")
                /\ Program[Pushed + 5] = <<"pop", "ebx">>
                /\ Program[Pushed + 6] = <<"segments", "ebx">>
                /\ Program[Pushed + 7] = I("popa")
           /\ vector = 33 =>
                Len(Program) = 8 /\ Pushed = 0 /\ Program[8] = I("iret")
           /\ ~Simple =>
                /\ Len(Program) = Pushed + 9
                /\ Program[Pushed] = <<"push_byte", vector>>
                /\ Program[Pushed + 8] = <<"drop", 2>>
                /\ Program[Pushed + 9] = I("iret")
           /\ Pushed = 2 => Program[1] = <<"push_byte", 0>>
<1>1. vector \in 0..47
  BY GatesAssumption
<1>2. CASE vector = 32
  <2>1. Program = irq0
    BY <1>2 DEF Program, Stub
  <2>2. irq0 \in Seq(Instructions)
    BY DEF irq0, Instructions
  <2>3. /\ Len(irq0) = 4
        /\ irq0[1] = I("pusha") /\ irq0[2] = I("call")
        /\ irq0[3] = I("popa") /\ irq0[4] = I("iret")
    BY DEF irq0
  <2> QED BY <1>2, <2>1, <2>2, <2>3 DEF Simple, Pushed, Base
<1>3. CASE vector = 33
  <2>1. Program = irq1
    BY <1>3 DEF Program, Stub
  <2>2. irq1 \in Seq(Instructions)
    BY DEF irq1, Instructions
  <2>3. /\ Len(irq1) = 8
        /\ irq1[1] = I("pusha") /\ irq1[2] = <<"push", "ds">>
        /\ irq1[3] = <<"segments", "kernel">> /\ irq1[4] = I("call")
        /\ irq1[5] = <<"pop", "ebx">> /\ irq1[6] = <<"segments", "ebx">>
        /\ irq1[7] = I("popa") /\ irq1[8] = I("iret")
    BY DEF irq1
  <2> QED BY <1>3, <2>1, <2>2, <2>3 DEF Simple, Pushed, Base
<1>4. CASE ~Simple
  <2>1. PICK c : c = common_stub
    OBVIOUS
  <2>2. /\ c \in Seq(Instructions) /\ Len(c) = 9
        /\ c[1] = I("pusha") /\ c[2] = <<"push", "ds">>
        /\ c[3] = <<"segments", "kernel">> /\ c[4] = I("call")
        /\ c[5] = <<"pop", "ebx">> /\ c[6] = <<"segments", "ebx">>
        /\ c[7] = I("popa") /\ c[8] = <<"drop", 2>> /\ c[9] = I("iret")
    <3>1. common_stub \in Seq(Instructions)
      BY DEF common_stub, Instructions
    <3> QED BY <2>1, <3>1 DEF common_stub
  <2>3. PICK a, b : a = <<"push_byte", 0>> /\ b = <<"push_byte", vector>>
    OBVIOUS
  <2>4. a \in Instructions /\ b \in Instructions
    <3>1. \A n \in 0..47 : <<"push_byte", n>> \in Instructions
      BY Zenon DEF Instructions
    <3>2. 0 \in 0..47
      OBVIOUS
    <3> QED BY <1>1, <2>3, <3>1, <3>2, Zenon
  <2>5. PICK d : /\ Program = d \o c /\ d \in Seq(Instructions)
                 /\ Len(d) = Pushed /\ d[Pushed] = b /\ (Pushed = 2 => d[1] = a)
                 /\ Pushed \in {1, 2}
    <3>1. CASE vector \in IsrErrcode
      <4>1. vector < 32
        BY <3>1 DEF IsrErrcode
      <4>2. Program = isr(vector)
        BY <1>1, <4>1 DEF Program, Stub
      <4>3. Program = <<>> \o <<b>> \o c
        BY <2>1, <2>3, <3>1, <4>2, Zenon DEF isr
      <4>4. Program = <<b>> \o c
        BY <2>2, <2>4, <4>3
      <4>5. PICK d : d = <<b>>
        OBVIOUS
      <4>6. d \in Seq(Instructions) /\ Len(d) = 1 /\ d[1] = b
        BY <2>4, <4>5
      <4>7. Pushed = 1
        BY <1>4, <3>1 DEF Simple, Pushed
      <4>8. Program = d \o c
        BY <4>4, <4>5
      <4>9. Len(d) = Pushed /\ d[Pushed] = b /\ Pushed # 2 /\ Pushed \in {1, 2}
        BY <4>6, <4>7
      <4> QED BY <4>6, <4>8, <4>9
    <3>2. CASE vector \notin IsrErrcode
      <4>1. Program = isr(vector) \/ Program = irq(vector)
        BY <1>1, <1>4 DEF Program, Stub, Simple
      <4>2. Program = <<a, b>> \o c \/ Program = <<a>> \o <<b>> \o c
        BY <2>1, <2>3, <3>2, <4>1, Zenon DEF isr, irq
      <4>3. PICK d : Program = d \o c /\ d \in {<<a, b>>, <<a>> \o <<b>>}
        BY <4>2
      <4>4. d \in Seq(Instructions) /\ Len(d) = 2 /\ d[1] = a /\ d[2] = b
        <5>1. CASE d = <<a, b>>
          BY <2>4, <5>1
        <5>2. CASE d = <<a>> \o <<b>>
          BY <2>4, <5>2
        <5> QED BY <4>3, <5>1, <5>2
      <4>5. Pushed = 2
        BY <1>4, <3>2 DEF Simple, Pushed
      <4> QED BY <4>3, <4>4, <4>5
    <3> QED BY <3>1, <3>2
  <2>6. /\ Program \in Seq(Instructions) /\ Len(Program) = Pushed + 9
        /\ Program[Pushed] = b /\ (Pushed = 2 => Program[1] = a)
        /\ \A i \in 1..9 : Program[Pushed + i] = c[i]
    <3>0. d \in Seq(Instructions) /\ c \in Seq(Instructions)
      BY <2>2, <2>5
    <3>1. /\ d \o c \in Seq(Instructions) /\ Len(d \o c) = Len(d) + Len(c)
          /\ \A i \in 1..Len(d) : (d \o c)[i] = d[i]
          /\ \A i \in 1..Len(c) : (d \o c)[Len(d) + i] = c[i]
      BY <3>0, Joined
    <3>2. Pushed \in 1..Len(d) /\ (Pushed = 2 => 1 \in 1..Len(d))
      BY <2>5
    <3> QED BY <2>2, <2>5, <3>1, <3>2
  <2>7. /\ Program[Pushed + 1] = c[1] /\ Program[Pushed + 2] = c[2]
        /\ Program[Pushed + 3] = c[3] /\ Program[Pushed + 4] = c[4]
        /\ Program[Pushed + 5] = c[5] /\ Program[Pushed + 6] = c[6]
        /\ Program[Pushed + 7] = c[7] /\ Program[Pushed + 8] = c[8]
        /\ Program[Pushed + 9] = c[9]
    BY <2>6
  <2>8. vector # 32 /\ vector # 33 /\ Base = 5
    BY <1>4 DEF Simple, Base
  <2>9. /\ Pushed \in 0..2 /\ Pushed > 0
        /\ Program[Pushed] = <<"push_byte", vector>>
        /\ Pushed = 2 => Program[1] = <<"push_byte", 0>>
    <3>1. Pushed \in 0..2 /\ Pushed > 0
      BY <2>5
    <3> QED BY <2>3, <2>6, <3>1, Zenon
  <2>10. /\ Program[Pushed + 1] = I("pusha")
         /\ Program[Pushed + 2] = <<"push", "ds">>
         /\ Program[Pushed + 3] = <<"segments", "kernel">>
         /\ Program[Pushed + 4] = I("call")
         /\ Program[Pushed + 5] = <<"pop", "ebx">>
         /\ Program[Pushed + 6] = <<"segments", "ebx">>
         /\ Program[Pushed + 7] = I("popa")
         /\ Program[Pushed + 8] = <<"drop", 2>>
         /\ Program[Pushed + 9] = I("iret")
    BY <2>2, <2>7
  <2> QED BY <1>1, <2>6, <2>8, <2>9, <2>10
<1> QED BY <1>2, <1>3, <1>4 DEF Simple

\* The same, by how far the program has come.
LEMMA Places ==
    ASSUME vector \in Gates, vector # 32
    PROVE  /\ Pushed \in 0..2 /\ Base \in {3, 5} /\ (~Simple => Base = 5)
           /\ Len(Program) \in Nat /\ Pushed + 7 < Len(Program)
           /\ Program[Pushed + 2] = <<"push", "ds">>
           /\ Program[Pushed + 3] = <<"segments", "kernel">>
           /\ Program[Pushed + 4] = <<"call", "none">>
           /\ Program[Pushed + 5] = <<"pop", "ebx">>
           /\ Program[Pushed + 6] = <<"segments", "ebx">>
           /\ Program[Pushed + 7] = <<"popa", "none">>
<1>1. /\ Pushed \in 0..2 /\ Base \in {3, 5}
      /\ Program \in Seq(Instructions)
      /\ Program[Pushed + 2] = <<"push", "ds">>
      /\ Program[Pushed + 3] = <<"segments", "kernel">>
      /\ Program[Pushed + 4] = I("call")
      /\ Program[Pushed + 5] = <<"pop", "ebx">>
      /\ Program[Pushed + 6] = <<"segments", "ebx">>
      /\ Program[Pushed + 7] = I("popa")
      /\ vector = 33 => Len(Program) = 8 /\ Pushed = 0
      /\ ~Simple => Len(Program) = Pushed + 9
  BY Listing
<1>2. ~Simple => Base = 5
  BY DEF Base
<1>3. vector = 33 \/ ~Simple
  BY DEF Simple
<1>4. Len(Program) \in Nat /\ Pushed + 7 < Len(Program)
  <2>1. CASE vector = 33
    <3>1. Len(Program) = 8 /\ Pushed = 0
      BY <1>1, <2>1
    <3> QED BY <3>1
  <2>2. CASE ~Simple
    <3>1. Len(Program) = Pushed + 9 /\ Pushed \in 0..2
      BY <1>1, <2>2
    <3> QED BY <3>1
  <2> QED BY <1>3, <2>1, <2>2
<1> QED BY <1>1, <1>2, <1>4 DEF I

LEMMA Pair ==
    ASSUME NEW a, NEW b, NEW c, NEW d, <<a, b>> = <<c, d>>
    PROVE  a = c /\ b = d
OBVIOUS

LEMMA Opcodes ==
    /\ "push" # "push_byte" /\ "push" # "pop" /\ "push" # "segments"
    /\ "push" # "drop" /\ "push" # "pusha" /\ "push" # "popa"
    /\ "push" # "call" /\ "push" # "iret"
    /\ "push_byte" # "pop" /\ "push_byte" # "segments" /\ "push_byte" # "drop"
    /\ "push_byte" # "pusha" /\ "push_byte" # "popa" /\ "push_byte" # "call"
    /\ "push_byte" # "iret"
    /\ "pop" # "segments" /\ "pop" # "drop" /\ "pop" # "pusha"
    /\ "pop" # "popa" /\ "pop" # "call" /\ "pop" # "iret"
    /\ "segments" # "drop" /\ "segments" # "pusha" /\ "segments" # "popa"
    /\ "segments" # "call" /\ "segments" # "iret"
    /\ "drop" # "pusha" /\ "drop" # "popa" /\ "drop" # "call" /\ "drop" # "iret"
    /\ "pusha" # "popa" /\ "pusha" # "call" /\ "pusha" # "iret"
    /\ "popa" # "call" /\ "popa" # "iret" /\ "call" # "iret"
OBVIOUS

\* The step that executes an instruction is that of its kind.
LEMMA Dispatch ==
    ASSUME Next, NEW opcode, NEW operand, Head(text) = <<opcode, operand>>
    PROVE  /\ opcode = "push" => Push("ds")
           /\ opcode = "push_byte" => PushByte(operand) /\ operand \in 0..47
           /\ opcode = "pop" => Pop("ebx")
           /\ opcode = "segments" => LoadSegments(operand)
           /\ opcode = "drop" => Drop(operand) /\ operand \in 1..2
           /\ opcode = "pusha" => Pusha
           /\ opcode = "popa" => Popa
           /\ opcode = "call" => Call /\ HandlerReturns
           /\ opcode = "iret" => Iret
<1>1. CASE Push("ds")
  <2>1. <<opcode, operand>> = <<"push", "ds">>
    BY <1>1 DEF Push, Fetch
  <2>2. opcode = "push"
    BY <2>1, Pair
  <2> QED BY <1>1, <2>2, Opcodes
<1>2. CASE \E n \in 0..47 : PushByte(n)
  <2>1. PICK n \in 0..47 : PushByte(n)
    BY <1>2
  <2>2. <<opcode, operand>> = <<"push_byte", n>>
    BY <2>1, Zenon DEF PushByte, Fetch
  <2>3. opcode = "push_byte" /\ operand = n
    BY <2>2, Pair
  <2> QED BY <2>1, <2>3, Opcodes
<1>3. CASE Pop("ebx")
  <2>1. <<opcode, operand>> = <<"pop", "ebx">>
    BY <1>3 DEF Pop, Fetch
  <2>2. opcode = "pop"
    BY <2>1, Pair
  <2> QED BY <1>3, <2>2, Opcodes
<1>4. CASE \E s \in {"kernel", "ebx"} : LoadSegments(s)
  <2>1. PICK s : LoadSegments(s)
    BY <1>4
  <2>2. <<opcode, operand>> = <<"segments", s>>
    BY <2>1, Zenon DEF LoadSegments, Fetch
  <2>3. opcode = "segments" /\ operand = s
    BY <2>2, Pair
  <2> QED BY <2>1, <2>3, Opcodes
<1>5. CASE \E n \in 1..2 : Drop(n)
  <2>1. PICK n \in 1..2 : Drop(n)
    BY <1>5
  <2>2. <<opcode, operand>> = <<"drop", n>>
    BY <2>1, Zenon DEF Drop, Fetch
  <2>3. opcode = "drop" /\ operand = n
    BY <2>2, Pair
  <2> QED BY <2>1, <2>3, Opcodes
<1>6. CASE Pusha
  <2>1. <<opcode, operand>> = <<"pusha", "none">>
    BY <1>6 DEF Pusha, Fetch, I
  <2>2. opcode = "pusha"
    BY <2>1, Pair
  <2> QED BY <1>6, <2>2, Opcodes
<1>7. CASE Popa
  <2>1. <<opcode, operand>> = <<"popa", "none">>
    BY <1>7 DEF Popa, Fetch, I
  <2>2. opcode = "popa"
    BY <2>1, Pair
  <2> QED BY <1>7, <2>2, Opcodes
<1>8. CASE HandlerReturns /\ Call
  <2>1. <<opcode, operand>> = <<"call", "none">>
    BY <1>8 DEF Call, Fetch, I
  <2>2. opcode = "call"
    BY <2>1, Pair
  <2> QED BY <1>8, <2>2, Opcodes
<1>9. CASE Iret
  <2>1. <<opcode, operand>> = <<"iret", "none">>
    BY <1>9 DEF Iret, Fetch, I
  <2>2. opcode = "iret"
    BY <2>1, Pair
  <2> QED BY <1>9, <2>2, Opcodes
<1> QED BY <1>1, <1>2, <1>3, <1>4, <1>5, <1>6, <1>7, <1>8, <1>9 DEF Next

LEMMA Executes ==
    ASSUME vector \in Gates, Next, NEW k \in 1..Len(Program), Here(k),
           NEW opcode, NEW operand, Program[k] = <<opcode, operand>>
    PROVE  /\ UNCHANGED <<vector, before, Program, Base, Pushed, ErrorCode>>
           /\ Simple' = Simple
           /\ k < Len(Program) => Here(k + 1)'
           /\ k = Len(Program) => text' = <<>>
           /\ opcode = "push" => Push("ds")
           /\ opcode = "push_byte" => PushByte(operand)
           /\ opcode = "pop" => Pop("ebx")
           /\ opcode = "segments" => LoadSegments(operand)
           /\ opcode = "drop" => Drop(operand)
           /\ opcode = "pusha" => Pusha
           /\ opcode = "popa" => Popa
           /\ opcode = "call" => Call /\ HandlerReturns
           /\ opcode = "iret" => Iret
<1>1. /\ UNCHANGED <<vector, before, Program, Base, Pushed, ErrorCode>>
      /\ Simple' = Simple
  BY DEF Next, Program, Base, Pushed, ErrorCode, Simple
<1>2. text' = Tail(text)
  BY DEF Next, Push, PushByte, Pop, LoadSegments, Drop, Pusha, Popa, Call,
         Iret, Fetch
<1>3. Program \in Seq(Instructions)
  BY Listing
<1>4. /\ Head(text) = Program[k]
      /\ k < Len(Program) => Here(k + 1)'
      /\ k = Len(Program) => text' = <<>>
  BY <1>1, <1>2, <1>3, Rest DEF Here
<1> QED BY <1>1, <1>4, Dispatch

LEMMA Kept ==
    ASSUME UNCHANGED <<vector, before, Base, ErrorCode>>, Simple' = Simple,
           Base \in {3, 5}, ~Simple => Base = 5,
           NEW n \in Nat, \A i \in 1..n : stack'[i] = stack[i]
    PROVE  /\ n >= 3 /\ FrameThere => FrameThere'
           /\ n >= Base /\ BaseThere => BaseThere'
           /\ n >= Base + 8 /\ Saved => Saved'
<1>1. n >= 3 /\ FrameThere => FrameThere'
  BY DEF FrameThere
<1>2. n >= Base /\ BaseThere => BaseThere'
  BY <1>1 DEF BaseThere
<1>3. ASSUME n >= Base + 8, Saved PROVE Saved'
  <2>1. BaseThere'
    BY <1>2, <1>3 DEF Saved
  <2>2. \A j \in 1..8 : stack'[Base + j] = stack[Base + j]
    BY <1>3
  <2> QED BY <1>3, <2>1, <2>2 DEF Saved
<1> QED BY <1>1, <1>2, <1>3

\* What the registers of the interrupted code are.
LEMMA InterruptedRegisters ==
    ASSUME before = Interrupted
    PROVE  /\ before \in [Registers -> Words] /\ Segments \subseteq Registers
           /\ {"eax", "ecx", "edx", "ebx", "ebp", "esi", "edi"} \subseteq Registers
           /\ Registers = Segments \cup
                {"eax", "ecx", "edx", "ebx", "ebp", "esi", "edi"}
           /\ "ds" \in Segments
           /\ Segments \cap {"eax", "ecx", "edx", "ebx", "ebp", "esi", "edi"} = {}
           /\ \A r \in Segments : before[r] = Value("kernel_data")
           /\ \A n \in Int : Word("byte", n) \in Words /\ Address(n) \in Words
           /\ Value("C") \in Words
<1>1. /\ Segments = {"ds", "es", "fs", "gs"}
      /\ General = {"eax", "ecx", "edx", "ebx", "ebp", "esi", "edi"}
  BY DEF Segments, General
<1>2. \A of \in Sources, at \in Int : Word(of, at) \in Words
  BY DEF Word, Words
<1>3. \A of \in Sources : Value(of) \in Words
  <2>1. 0 \in Int
    OBVIOUS
  <2> QED BY <1>2, <2>1 DEF Value
<1>4. \A r \in Registers : r \in Sources
  BY DEF Registers, Sources
<1>5. before \in [Registers -> Words]
  <2>1. before = [r \in Registers |-> IF r \in Segments THEN Value("kernel_data")
                                                       ELSE Value(r)]
    BY DEF Interrupted, Registers
  <2>2. "kernel_data" \in Sources
    BY DEF Sources
  <2> QED BY <1>3, <1>4, <2>1, <2>2
<1>6. \A r \in Segments : before[r] = Value("kernel_data")
  BY DEF Interrupted
<1>7. Segments \cap General = {}
  BY <1>1
<1>8. /\ \A n \in Int : Word("byte", n) \in Words /\ Address(n) \in Words
      /\ Value("C") \in Words
  <2>1. {"byte", "stack", "C"} \subseteq Sources
    BY DEF Sources
  <2> QED BY <1>2, <1>3, <2>1 DEF Address
<1> QED BY <1>1, <1>5, <1>6, <1>7, <1>8 DEF Registers

-----------------------------------------------------------------------------
(***************************************************************************)
(* One lemma per instruction: what it finds on the stack, and what it      *)
(* leaves there.                                                           *)
(***************************************************************************)
LEMMA Starts == Init => StubInv
<1> SUFFICES ASSUME Init PROVE StubInv
  OBVIOUS
<1>1. /\ vector \in Gates /\ before = Interrupted /\ regs = before
      /\ text = Program /\ resumed = <<>>
      /\ stack = Frame \o (IF vector \in WithErrorCode
                             THEN <<Value("error_code")>> ELSE <<>>)
  BY DEF Init, Program
<1>2. /\ Frame \in Seq(Words) /\ Len(Frame) = 3
      /\ Value("error_code") \in Words
  <2>1. /\ Value("eflags") \in Words /\ Value("kernel_code") \in Words
        /\ Value("eip") \in Words /\ Value("error_code") \in Words
    BY DEF Value, Word, Words, Sources
  <2> QED BY <2>1 DEF Frame
<1>3. /\ stack \in Seq(Words) /\ FrameThere
      /\ vector \in WithErrorCode =>
           Len(stack) = 4 /\ stack[4] = Value("error_code")
      /\ vector \notin WithErrorCode => Len(stack) = 3
  <2>1. CASE vector \in WithErrorCode
    <3>1. stack = Frame \o <<Value("error_code")>>
      BY <1>1, <2>1
    <3>2. /\ stack \in Seq(Words) /\ Len(stack) = Len(Frame) + 1
          /\ stack[Len(Frame) + 1] = Value("error_code")
          /\ \A i \in 1..Len(Frame) : stack[i] = Frame[i]
      <4>1. PICK f, w : f = Frame /\ w = Value("error_code")
        OBVIOUS
      <4>2. f \in Seq(Words) /\ w \in Words /\ stack = f \o <<w>>
        BY <1>2, <3>1, <4>1
      <4>3. /\ stack \in Seq(Words) /\ Len(stack) = Len(f) + 1
            /\ stack[Len(f) + 1] = w
            /\ \A i \in 1..Len(f) : stack[i] = f[i]
        BY <4>2, Followed
      <4> QED BY <4>1, <4>3
    <3> QED BY <1>2, <2>1, <3>2 DEF FrameThere
  <2>2. CASE vector \notin WithErrorCode
    <3>1. stack = Frame
      BY <1>1, <1>2, <2>2
    <3> QED BY <1>2, <2>2, <3>1 DEF FrameThere
  <2> QED BY <2>1, <2>2
<1>4. StubTypes
  BY <1>1, <1>3, InterruptedRegisters DEF StubTypes
<1>5. /\ Program \in Seq(Instructions) /\ Pushed \in 0..2
      /\ WithErrorCode = IsrErrcode
  BY <1>1, Listing DEF WithErrorCode, IsrErrcode
<1>6. Here(1)
  BY <1>1, <1>5 DEF Here
<1>7. CASE Simple
  <2>1. vector \notin WithErrorCode
    BY <1>7 DEF Simple, WithErrorCode
  <2>2. AtSave
    BY <1>1, <1>3, <1>6, <1>7, <2>1 DEF AtSave, Pushed, Base, BaseThere
  <2> QED BY <1>1, <1>4, <2>2 DEF StubInv
<1>8. CASE ~Simple /\ vector \in WithErrorCode
  <2>1. AtNumber
    BY <1>1, <1>3, <1>5, <1>6, <1>8 DEF AtNumber, Pushed, ErrorCode
  <2> QED BY <1>1, <1>4, <2>1 DEF StubInv
<1>9. CASE ~Simple /\ vector \notin WithErrorCode
  <2>1. AtDummy
    BY <1>1, <1>3, <1>5, <1>6, <1>9 DEF AtDummy, Pushed
  <2> QED BY <1>1, <1>4, <2>1 DEF StubInv
<1> QED BY <1>7, <1>8, <1>9

LEMMA PushesDummy ==
    ASSUME StubTypes, resumed = <<>>, AtDummy, Next
    PROVE  StubInv'
<1>1. /\ Pushed = 2 /\ Here(1) /\ Len(stack) = 3 /\ FrameThere /\ regs = before
      /\ vector \in Gates /\ stack \in Seq(Words) /\ before = Interrupted
  BY DEF AtDummy, StubTypes
<1>2. /\ ~Simple /\ Len(Program) = 11 /\ Program[1] = <<"push_byte", 0>>
      /\ Base = 5
  <2>1. ~Simple
    BY <1>1 DEF Pushed
  <2> QED BY <1>1, <2>1, Listing DEF Base
<1>3. /\ UNCHANGED <<vector, before, Program, Base, Pushed, ErrorCode>>
      /\ Simple' = Simple /\ Here(2)' /\ PushByte(0)
  BY <1>1, <1>2, Executes
<1>4. /\ stack' = Append(stack, Word("byte", 0)) /\ UNCHANGED <<regs, resumed>>
      /\ Word("byte", 0) \in Words
  BY <1>1, <1>3, InterruptedRegisters DEF PushByte
<1>5. /\ stack' \in Seq(Words) /\ Len(stack') = 4
      /\ stack'[4] = Word("byte", 0) /\ \A i \in 1..3 : stack'[i] = stack[i]
  BY <1>1, <1>4, Extended
<1>6. ErrorCode = Word("byte", 0)
  <2>1. vector \notin WithErrorCode
    BY <1>1, <1>2 DEF Pushed, IsrErrcode, WithErrorCode
  <2> QED BY <2>1 DEF ErrorCode
<1>7. FrameThere'
  BY <1>1, <1>2, <1>3, <1>5, Kept
<1>8. StubTypes'
  BY <1>3, <1>4, <1>5 DEF StubTypes
<1>9. AtNumber'
  BY <1>1, <1>2, <1>3, <1>4, <1>5, <1>6, <1>7 DEF AtNumber, Here
<1> QED BY <1>4, <1>8, <1>9 DEF StubInv

LEMMA PushesNumber ==
    ASSUME StubTypes, resumed = <<>>, AtNumber, Next
    PROVE  StubInv'
<1>1. /\ ~Simple /\ Here(Pushed) /\ Len(stack) = 4 /\ FrameThere /\ regs = before
      /\ stack[4] = ErrorCode
      /\ vector \in Gates /\ stack \in Seq(Words) /\ before = Interrupted
  BY DEF AtNumber, StubTypes
<1>2. /\ Len(Program) = Pushed + 9 /\ Pushed \in {1, 2} /\ Base = 5
      /\ Program[Pushed] = <<"push_byte", vector>> /\ vector \in Int
  <2>1. /\ Len(Program) = Pushed + 9 /\ Pushed \in 0..2 /\ Pushed > 0
        /\ Program[Pushed] = <<"push_byte", vector>> /\ vector \in 0..47
    BY <1>1, Listing
  <2> QED BY <1>1, <2>1 DEF Base
<1>3. /\ UNCHANGED <<vector, before, Program, Base, Pushed, ErrorCode>>
      /\ Simple' = Simple /\ Here(Pushed + 1)' /\ PushByte(vector)
  BY <1>1, <1>2, Executes
<1>4. /\ stack' = Append(stack, Word("byte", vector)) /\ UNCHANGED <<regs, resumed>>
      /\ Word("byte", vector) \in Words
  BY <1>1, <1>2, <1>3, InterruptedRegisters DEF PushByte
<1>5. /\ stack' \in Seq(Words) /\ Len(stack') = 5
      /\ stack'[5] = Word("byte", vector) /\ \A i \in 1..4 : stack'[i] = stack[i]
  BY <1>1, <1>4, Extended
<1>6. FrameThere' /\ stack'[4] = ErrorCode
  <2>1. FrameThere'
    BY <1>1, <1>2, <1>3, <1>5, Kept
  <2>2. stack'[4] = ErrorCode
    BY <1>1, <1>5
  <2> QED BY <2>1, <2>2
<1>7. StubTypes'
  BY <1>3, <1>4, <1>5 DEF StubTypes
<1>8. AtSave'
  BY <1>1, <1>2, <1>3, <1>4, <1>5, <1>6 DEF AtSave, BaseThere, Here
<1> QED BY <1>4, <1>7, <1>8 DEF StubInv

LEMMA SavesRegisters ==
    ASSUME StubTypes, resumed = <<>>, AtSave, Next
    PROVE  StubInv'
<1>1. /\ Here(Pushed + 1) /\ Len(stack) = Base /\ BaseThere /\ regs = before
      /\ vector \in Gates /\ stack \in Seq(Words) /\ before = Interrupted
  BY DEF AtSave, StubTypes
<1>2. /\ Pushed \in 0..2 /\ Base \in {3, 5} /\ (~Simple => Base = 5)
      /\ Pushed + 1 \in 1..Len(Program) /\ Pushed + 1 < Len(Program)
      /\ Program[Pushed + 1] = <<"pusha", "none">> /\ (vector = 32 => Pushed = 0)
  <2>1. CASE vector = 32
    BY <1>1, <2>1, Listing DEF I, Base
  <2>2. CASE vector = 33
    BY <1>1, <2>2, Listing DEF I, Base
  <2>3. CASE ~Simple
    BY <1>1, <2>3, Listing DEF I, Base, Simple
  <2> QED BY <2>1, <2>2, <2>3 DEF Simple
<1>3. /\ UNCHANGED <<vector, before, Program, Base, Pushed, ErrorCode>>
      /\ Simple' = Simple /\ Here(Pushed + 2)' /\ Pusha
  <2>1. Pushed + 1 + 1 = Pushed + 2
    BY <1>2
  <2> QED BY <1>1, <1>2, <2>1, Executes
<1>4. PICK a, c, d, b, e, p, s, t :
        /\ stack' = stack \o <<a, c, d, b, e, p, s, t>>
        /\ a = before["eax"] /\ c = before["ecx"] /\ d = before["edx"]
        /\ b = before["ebx"] /\ e = Esp /\ p = before["ebp"]
        /\ s = before["esi"] /\ t = before["edi"]
  BY <1>1, <1>3 DEF Pusha
<1>5. {a, c, d, b, e, p, s, t} \subseteq Words
  <2>1. Len(stack) \in Int
    BY <1>1
  <2>2. e \in Words
    BY <1>1, <1>4, <2>1, InterruptedRegisters DEF Esp
  <2> QED BY <1>1, <1>4, <2>2, InterruptedRegisters
<1>6. /\ stack' \in Seq(Words) /\ Len(stack') = Base + 8
      /\ \A i \in 1..Base : stack'[i] = stack[i]
      /\ stack'[Base + 1] = a /\ stack'[Base + 2] = c /\ stack'[Base + 3] = d
      /\ stack'[Base + 4] = b /\ stack'[Base + 6] = p /\ stack'[Base + 7] = s
      /\ stack'[Base + 8] = t
  <2>1. PICK n, u, old : n = Len(stack) /\ u = stack' /\ old = stack
    OBVIOUS
  <2>2. /\ a \in Words /\ b \in Words /\ c \in Words /\ d \in Words
        /\ e \in Words /\ p \in Words /\ s \in Words /\ t \in Words
    BY <1>5
  <2>3. old \in Seq(Words) /\ n = Len(old) /\ u = old \o <<a, c, d, b, e, p, s, t>>
    BY <1>1, <1>4, <2>1
  <2>4. /\ u \in Seq(Words) /\ Len(u) = n + 8 /\ \A i \in 1..n : u[i] = old[i]
        /\ u[n + 1] = a /\ u[n + 2] = c /\ u[n + 3] = d /\ u[n + 4] = b
        /\ u[n + 6] = p /\ u[n + 7] = s /\ u[n + 8] = t
    BY <2>2, <2>3, Saves8
  <2> QED BY <1>1, <2>1, <2>4
<1>7. Saved' /\ UNCHANGED <<regs, resumed>>
  <2>1. BaseThere'
    <3>1. PICK n : n = Base
      OBVIOUS
    <3>2. n \in Nat /\ n >= Base /\ \A i \in 1..n : stack'[i] = stack[i]
      BY <1>2, <1>6, <3>1
    <3> QED BY <1>1, <1>2, <1>3, <3>2, Kept
  <2> QED BY <1>3, <1>4, <1>6, <2>1 DEF Saved, Pusha
<1>8. StubTypes'
  BY <1>3, <1>6, <1>7 DEF StubTypes
<1>9. AtSaveDs' \/ AtCall'
  <2>1. regs' = before' /\ Len(stack') = Base' + 8 /\ vector' = vector
    BY <1>1, <1>3, <1>6, <1>7
  <2>2. Here(Pushed + 2)'
    BY <1>3
  <2>3. CASE vector = 32
    <3>1. Pushed = 0 /\ 0 + 2 = 2
      BY <1>2, <2>3
    <3>2. Here(2)'
      BY <2>2, <3>1, <1>3 DEF Here
    <3> QED BY <1>7, <2>1, <2>3, <3>2 DEF AtCall
  <2>4. CASE vector # 32
    BY <1>7, <2>1, <2>2, <2>4 DEF AtSaveDs
  <2> QED BY <2>3, <2>4
<1> QED BY <1>7, <1>8, <1>9 DEF StubInv

LEMMA SavesDs ==
    ASSUME StubTypes, resumed = <<>>, AtSaveDs, Next
    PROVE  StubInv'
<1>1. /\ vector # 32 /\ Here(Pushed + 2) /\ Len(stack) = Base + 8
      /\ Saved /\ regs = before
      /\ vector \in Gates /\ stack \in Seq(Words) /\ before = Interrupted
  BY DEF AtSaveDs, StubTypes
<1>2. /\ Pushed \in 0..2 /\ Base \in {3, 5} /\ (~Simple => Base = 5)
      /\ Pushed + 2 \in 1..Len(Program) /\ Pushed + 2 < Len(Program)
      /\ Program[Pushed + 2] = <<"push", "ds">>
  <2>1. Len(Program) \in Nat /\ Pushed + 7 < Len(Program) /\ Pushed \in 0..2
    BY <1>1, Places
  <2>2. Pushed + 2 \in 1..Len(Program) /\ Pushed + 2 < Len(Program)
    BY <2>1
  <2> QED BY <1>1, <2>1, <2>2, Places
<1>3. /\ UNCHANGED <<vector, before, Program, Base, Pushed, ErrorCode>>
      /\ Simple' = Simple /\ Here(Pushed + 3)' /\ Push("ds")
  <2>1. Pushed + 2 + 1 = Pushed + 3
    BY <1>2
  <2> QED BY <1>1, <1>2, <2>1, Executes
<1>4. /\ stack' = Append(stack, before["ds"]) /\ UNCHANGED <<regs, resumed>>
      /\ before["ds"] \in Words
  BY <1>1, <1>3, InterruptedRegisters DEF Push
<1>5. /\ stack' \in Seq(Words) /\ Len(stack') = Base + 9
      /\ stack'[Base + 9] = before["ds"]
      /\ \A i \in 1..(Base + 8) : stack'[i] = stack[i]
  <2>1. PICK n : n = Len(stack)
    OBVIOUS
  <2>2. /\ stack' \in Seq(Words) /\ Len(stack') = n + 1
        /\ stack'[n + 1] = before["ds"] /\ \A i \in 1..n : stack'[i] = stack[i]
    BY <1>1, <1>4, <2>1, Extended
  <2> QED BY <1>1, <1>2, <2>1, <2>2
<1>6. Saved' /\ DsSaved'
  <2>1. Saved'
    BY <1>1, <1>2, <1>3, <1>5, Kept
  <2> QED BY <1>3, <1>5, <2>1 DEF DsSaved
<1>7. StubTypes'
  BY <1>3, <1>4, <1>5 DEF StubTypes
<1>8. AtSwitch'
  BY <1>1, <1>2, <1>3, <1>4, <1>5, <1>6 DEF AtSwitch, Here
<1> QED BY <1>4, <1>7, <1>8 DEF StubInv

LEMMA SwitchesToKernel ==
    ASSUME StubTypes, resumed = <<>>, AtSwitch, Next
    PROVE  StubInv'
<1>1. /\ vector # 32 /\ Here(Pushed + 3) /\ Len(stack) = Base + 9
      /\ Saved /\ DsSaved /\ regs = before
      /\ vector \in Gates /\ stack \in Seq(Words) /\ before = Interrupted
  BY DEF AtSwitch, StubTypes
<1>2. /\ Pushed \in 0..2 /\ Base \in {3, 5} /\ (~Simple => Base = 5)
      /\ Pushed + 3 \in 1..Len(Program) /\ Pushed + 3 < Len(Program)
      /\ Program[Pushed + 3] = <<"segments", "kernel">>
  <2>1. Len(Program) \in Nat /\ Pushed + 7 < Len(Program) /\ Pushed \in 0..2
    BY <1>1, Places
  <2>2. Pushed + 3 \in 1..Len(Program) /\ Pushed + 3 < Len(Program)
    BY <2>1
  <2> QED BY <1>1, <2>1, <2>2, Places
<1>3. /\ UNCHANGED <<vector, before, Program, Base, Pushed, ErrorCode>>
      /\ Simple' = Simple /\ Here(Pushed + 4)' /\ LoadSegments("kernel")
  <2>1. Pushed + 3 + 1 = Pushed + 4
    BY <1>2
  <2> QED BY <1>1, <1>2, <2>1, Executes
<1>4. UNCHANGED <<stack, resumed>> /\ regs' = before
  <2>1. regs' = [r \in Registers |-> IF r \notin Segments THEN before[r]
                                                    ELSE Value("kernel_data")]
    BY <1>1, <1>3, InterruptedRegisters DEF LoadSegments
  <2>2. regs' = before
    BY <1>1, <2>1, InterruptedRegisters
  <2> QED BY <1>3, <2>2 DEF LoadSegments
<1>5. Saved' /\ DsSaved'
  BY <1>1, <1>3, <1>4 DEF Saved, DsSaved, BaseThere, FrameThere
<1>6. StubTypes'
  BY <1>1, <1>3, <1>4, InterruptedRegisters DEF StubTypes
<1>7. AtCall'
  BY <1>1, <1>2, <1>3, <1>4, <1>5 DEF AtCall, Here
<1> QED BY <1>4, <1>6, <1>7 DEF StubInv

\* What the C code may change, and what it may not.
LEMMA HandlerKeeps ==
    ASSUME before = Interrupted, regs = before, Call
    PROVE  /\ regs' \in [Registers -> Words] /\ UNCHANGED <<stack, resumed>>
           /\ \A r \in Segments : regs'[r] = before[r]
<1>1. PICK changed \in SUBSET {"eax", "ecx", "edx"} :
        regs' = [r \in DOMAIN regs |->
                   IF r \in changed THEN Value("C") ELSE regs[r]]
  BY DEF Call
<1>2. /\ before \in [Registers -> Words] /\ Segments \subseteq Registers
      /\ Segments \cap {"eax", "ecx", "edx"} = {} /\ Value("C") \in Words
  BY InterruptedRegisters
<1>3. regs' = [r \in Registers |->
                 IF r \in changed THEN Value("C") ELSE before[r]]
  BY <1>1, <1>2
<1>4. regs' \in [Registers -> Words]
  BY <1>2, <1>3
<1>5. ASSUME NEW r \in Segments PROVE regs'[r] = before[r]
  <2>1. r \in Registers /\ r \notin changed
    BY <1>2
  <2> QED BY <1>3, <2>1
<1> QED BY <1>4, <1>5 DEF Call

LEMMA CallsHandler ==
    ASSUME StubTypes, resumed = <<>>, AtCall, Next
    PROVE  StubInv'
<1>1. /\ Saved /\ regs = before
      /\ vector = 32 => Here(2) /\ Len(stack) = Base + 8
      /\ vector # 32 => Here(Pushed + 4) /\ Len(stack) = Base + 9 /\ DsSaved
      /\ vector \in Gates /\ stack \in Seq(Words) /\ before = Interrupted
  BY DEF AtCall, StubTypes
<1>2. CASE vector = 32
  <2>1. /\ Len(Program) = 4 /\ Program[2] = <<"call", "none">>
        /\ 2 \in 1..Len(Program)
    <3>1. Len(Program) = 4 /\ Program[2] = I("call")
      BY <1>1, <1>2, Listing
    <3> QED BY <3>1 DEF I
  <2>2. /\ UNCHANGED <<vector, before, Program, Base, Pushed, ErrorCode>>
        /\ Simple' = Simple /\ Here(3)' /\ Call
    BY <1>1, <1>2, <2>1, Executes
  <2>3. /\ regs' \in [Registers -> Words] /\ UNCHANGED <<stack, resumed>>
        /\ \A r \in Segments : regs'[r] = before[r]
    BY <1>1, <2>2, HandlerKeeps
  <2>4. Saved'
    BY <1>1, <2>2, <2>3 DEF Saved, BaseThere, FrameThere
  <2>5. StubTypes'
    BY <1>1, <2>2, <2>3 DEF StubTypes
  <2>6. AtRestore'
    BY <1>1, <1>2, <2>2, <2>3, <2>4 DEF AtRestore, DataSegments, Here
  <2> QED BY <2>3, <2>5, <2>6 DEF StubInv
<1>3. CASE vector # 32
  <2>1. /\ Pushed + 4 \in 1..Len(Program) /\ Pushed + 4 < Len(Program)
        /\ Program[Pushed + 4] = <<"call", "none">> /\ Pushed \in 0..2
    <3>1. Len(Program) \in Nat /\ Pushed + 7 < Len(Program) /\ Pushed \in 0..2
      BY <1>1, <1>3, Places
    <3>2. Pushed + 4 \in 1..Len(Program) /\ Pushed + 4 < Len(Program)
      BY <3>1
    <3> QED BY <1>1, <1>3, <3>1, <3>2, Places
  <2>2. /\ UNCHANGED <<vector, before, Program, Base, Pushed, ErrorCode>>
        /\ Simple' = Simple /\ Here(Pushed + 5)' /\ Call
    <3>1. Pushed + 4 + 1 = Pushed + 5
      BY <2>1
    <3> QED BY <1>1, <1>3, <2>1, <3>1, Executes
  <2>3. /\ regs' \in [Registers -> Words] /\ UNCHANGED <<stack, resumed>>
        /\ \A r \in Segments : regs'[r] = before[r]
    BY <1>1, <2>2, HandlerKeeps
  <2>4. Saved' /\ DsSaved'
    BY <1>1, <1>3, <2>2, <2>3 DEF Saved, BaseThere, FrameThere, DsSaved
  <2>5. StubTypes'
    BY <1>1, <2>2, <2>3 DEF StubTypes
  <2>6. AtTakeDs'
    BY <1>1, <1>3, <2>2, <2>3, <2>4 DEF AtTakeDs, DataSegments, Here
  <2> QED BY <2>3, <2>5, <2>6 DEF StubInv
<1> QED BY <1>2, <1>3

LEMMA TakesDs ==
    ASSUME StubTypes, resumed = <<>>, AtTakeDs, Next
    PROVE  StubInv'
<1>1. /\ vector # 32 /\ Here(Pushed + 5) /\ Len(stack) = Base + 9
      /\ Saved /\ DsSaved /\ regs \in [Registers -> Words]
      /\ vector \in Gates /\ stack \in Seq(Words) /\ before = Interrupted
  BY DEF AtTakeDs, StubTypes
<1>2. /\ Pushed \in 0..2 /\ Base \in {3, 5} /\ (~Simple => Base = 5)
      /\ Pushed + 5 \in 1..Len(Program) /\ Pushed + 5 < Len(Program)
      /\ Program[Pushed + 5] = <<"pop", "ebx">>
  <2>1. Len(Program) \in Nat /\ Pushed + 7 < Len(Program) /\ Pushed \in 0..2
    BY <1>1, Places
  <2>2. Pushed + 5 \in 1..Len(Program) /\ Pushed + 5 < Len(Program)
    BY <2>1
  <2> QED BY <1>1, <2>1, <2>2, Places
<1>3. /\ UNCHANGED <<vector, before, Program, Base, Pushed, ErrorCode>>
      /\ Simple' = Simple /\ Here(Pushed + 6)' /\ Pop("ebx")
  <2>1. Pushed + 5 + 1 = Pushed + 6
    BY <1>2
  <2> QED BY <1>1, <1>2, <2>1, Executes
<1>4. /\ stack' = SubSeq(stack, 1, Len(stack) - 1) /\ UNCHANGED resumed
      /\ regs' = [regs EXCEPT !["ebx"] = stack[Len(stack)]]
  <2>1. Len(stack) - 0 = Len(stack)
    BY <1>1
  <2> QED BY <1>3, <2>1 DEF Pop, Peek, Front
<1>5. /\ stack' \in Seq(Words) /\ Len(stack') = Base + 8
      /\ \A i \in 1..(Base + 8) : stack'[i] = stack[i]
  <2>1. Len(stack) - 1 = Base + 8 /\ 1 \in 0..Len(stack)
    BY <1>1, <1>2
  <2>2. /\ stack' \in Seq(Words) /\ Len(stack') = Len(stack) - 1
        /\ \A i \in 1..Len(stack') : stack'[i] = stack[i]
    BY <1>1, <1>4, <2>1, Shortened
  <2>3. Len(stack') = Base + 8
    BY <2>1, <2>2
  <2> QED BY <2>2, <2>3
<1>6. /\ regs' \in [Registers -> Words] /\ regs'["ebx"] = before["ds"]
  <2>1. stack[Len(stack)] = before["ds"] /\ before["ds"] \in Words
    BY <1>1, InterruptedRegisters DEF DsSaved
  <2>2. "ebx" \in Registers
    BY <1>1, InterruptedRegisters
  <2> QED BY <1>1, <1>4, <2>1, <2>2
<1>7. Saved'
  <2>1. PICK n : n = Base + 8
    OBVIOUS
  <2>2. n \in Nat /\ n >= Base + 8 /\ \A i \in 1..n : stack'[i] = stack[i]
    BY <1>2, <1>5, <2>1
  <2> QED BY <1>1, <1>2, <1>3, <2>2, Kept
<1>8. StubTypes'
  BY <1>1, <1>3, <1>5, <1>6 DEF StubTypes
<1>9. AtSwitchBack'
  BY <1>1, <1>3, <1>5, <1>6, <1>7 DEF AtSwitchBack, Here
<1> QED BY <1>4, <1>8, <1>9 DEF StubInv

LEMMA SwitchesBack ==
    ASSUME StubTypes, resumed = <<>>, AtSwitchBack, Next
    PROVE  StubInv'
<1>1. /\ vector # 32 /\ Here(Pushed + 6) /\ Len(stack) = Base + 8
      /\ Saved /\ regs["ebx"] = before["ds"] /\ regs \in [Registers -> Words]
      /\ vector \in Gates /\ stack \in Seq(Words) /\ before = Interrupted
  BY DEF AtSwitchBack, StubTypes
<1>2. /\ Pushed \in 0..2
      /\ Pushed + 6 \in 1..Len(Program) /\ Pushed + 6 < Len(Program)
      /\ Program[Pushed + 6] = <<"segments", "ebx">>
  <2>1. Len(Program) \in Nat /\ Pushed + 7 < Len(Program) /\ Pushed \in 0..2
    BY <1>1, Places
  <2>2. Pushed + 6 \in 1..Len(Program) /\ Pushed + 6 < Len(Program)
    BY <2>1
  <2> QED BY <1>1, <2>1, <2>2, Places
<1>3. /\ UNCHANGED <<vector, before, Program, Base, Pushed, ErrorCode>>
      /\ Simple' = Simple /\ Here(Pushed + 7)' /\ LoadSegments("ebx")
  <2>1. Pushed + 6 + 1 = Pushed + 7
    BY <1>2
  <2> QED BY <1>1, <1>2, <2>1, Executes
<1>4. /\ UNCHANGED <<stack, resumed>>
      /\ regs' = [r \in Registers |-> IF r \notin Segments THEN regs[r]
                                                  ELSE Value("kernel_data")]
  <2>1. before["ds"] = Value("kernel_data")
    BY <1>1, InterruptedRegisters
  <2> QED BY <1>1, <1>3, <2>1 DEF LoadSegments
<1>5. regs' \in [Registers -> Words] /\ \A r \in Segments : regs'[r] = before[r]
  <2>1. /\ before \in [Registers -> Words] /\ Segments \subseteq Registers
        /\ \A r \in Segments : before[r] = Value("kernel_data")
    BY <1>1, InterruptedRegisters
  <2>2. Value("kernel_data") \in Words
    BY <1>1, <2>1, InterruptedRegisters
  <2> QED BY <1>1, <1>4, <2>1, <2>2
<1>6. Saved'
  BY <1>1, <1>3, <1>4 DEF Saved, BaseThere, FrameThere
<1>7. StubTypes'
  BY <1>1, <1>3, <1>4, <1>5 DEF StubTypes
<1>8. AtRestore'
  BY <1>1, <1>3, <1>4, <1>5, <1>6 DEF AtRestore, DataSegments, Here
<1> QED BY <1>4, <1>7, <1>8 DEF StubInv

\* popa gives every register back: the general ones from the stack, and the
\* segment registers are as they were.
LEMMA RestoresRegisters ==
    ASSUME StubTypes, resumed = <<>>, AtRestore, Next
    PROVE  StubInv'
<1>1. /\ Len(stack) = Base + 8 /\ Saved /\ regs \in [Registers -> Words]
      /\ \A r \in Segments : regs[r] = before[r]
      /\ vector = 32 => Here(3)
      /\ vector # 32 => Here(Pushed + 7)
      /\ vector \in Gates /\ stack \in Seq(Words) /\ before = Interrupted
  BY DEF AtRestore, DataSegments, StubTypes
<1>2. /\ Base \in {3, 5} /\ (~Simple => Base = 5) /\ (Simple => Base = 3)
      /\ Pushed \in 0..2
  <2>1. Base \in {3, 5} /\ Pushed \in 0..2
    BY <1>1, Listing
  <2> QED BY <2>1 DEF Base
<1>3. /\ UNCHANGED <<vector, before, Program, Base, Pushed, ErrorCode>>
      /\ Simple' = Simple /\ Popa
      /\ Simple => Here(Len(Program))'
      /\ ~Simple => Here(Pushed + 8)'
  <2>1. CASE vector = 32
    <3>1. Len(Program) = 4 /\ Program[3] = I("popa") /\ Simple
      BY <1>1, <2>1, Listing DEF Simple
    <3>2. 3 \in 1..Len(Program) /\ 3 < Len(Program) /\ 3 + 1 = Len(Program)
      BY <3>1
    <3>3. Program[3] = <<"popa", "none">>
      BY <3>1 DEF I
    <3>4. /\ UNCHANGED <<vector, before, Program, Base, Pushed, ErrorCode>>
          /\ Simple' = Simple /\ Popa /\ Here(3 + 1)'
      BY <1>1, <2>1, <3>2, <3>3, Executes
    <3> QED BY <3>1, <3>2, <3>4 DEF Here
  <2>2. CASE vector # 32
    <3>1. /\ Len(Program) \in Nat /\ Pushed + 7 < Len(Program)
          /\ Program[Pushed + 7] = <<"popa", "none">>
      BY <1>1, <2>2, Places
    <3>2. /\ Pushed + 7 \in 1..Len(Program) /\ Pushed + 7 < Len(Program)
          /\ Pushed + 7 + 1 = Pushed + 8
      BY <1>2, <3>1
    <3>3. /\ UNCHANGED <<vector, before, Program, Base, Pushed, ErrorCode>>
          /\ Simple' = Simple /\ Popa /\ Here(Pushed + 8)'
      BY <1>1, <2>2, <3>1, <3>2, Executes
    <3>4. Simple => Pushed + 8 = Len(Program)
      <4>1. Simple => vector = 33
        BY <2>2 DEF Simple
      <4>2. vector = 33 => Len(Program) = 8 /\ Pushed = 0
        BY <1>1, Listing
      <4>3. 0 + 8 = 8
        OBVIOUS
      <4> QED BY <4>1, <4>2, <4>3
    <3> QED BY <3>3, <3>4 DEF Here
  <2> QED BY <2>1, <2>2
<1>4. PICK n : n = Base + 8
  OBVIOUS
<1>5. /\ Len(stack) - 0 = Base + 8 /\ Len(stack) - 1 = Base + 7
      /\ Len(stack) - 2 = Base + 6 /\ Len(stack) - 4 = Base + 4
      /\ Len(stack) - 5 = Base + 3 /\ Len(stack) - 6 = Base + 2
      /\ Len(stack) - 7 = Base + 1 /\ Len(stack) - 8 = Base
      /\ 8 \in 0..Len(stack)
  BY <1>1, <1>2
<1>6. regs' = before
  <2>1. /\ Peek(0) = before["edi"] /\ Peek(1) = before["esi"]
        /\ Peek(2) = before["ebp"] /\ Peek(4) = before["ebx"]
        /\ Peek(5) = before["edx"] /\ Peek(6) = before["ecx"]
        /\ Peek(7) = before["eax"]
    BY <1>1, <1>5 DEF Peek, Saved
  <2>2. regs' = [regs EXCEPT
                   !["edi"] = before["edi"], !["esi"] = before["esi"],
                   !["ebp"] = before["ebp"], !["ebx"] = before["ebx"],
                   !["edx"] = before["edx"], !["ecx"] = before["ecx"],
                   !["eax"] = before["eax"]]
    BY <1>3, <2>1 DEF Popa
  <2>3. /\ before \in [Registers -> Words]
        /\ Registers = Segments \cup
             {"eax", "ecx", "edx", "ebx", "ebp", "esi", "edi"}
    BY <1>1, InterruptedRegisters
  <2>4. \A r \in Registers : regs'[r] = before[r]
    BY <1>1, <2>2, <2>3
  <2> QED BY <1>1, <2>2, <2>3, <2>4
<1>7. UNCHANGED resumed /\ stack' = SubSeq(stack, 1, Len(stack) - 8)
  BY <1>3 DEF Popa
<1>8. /\ stack' \in Seq(Words) /\ Len(stack') = Base
      /\ \A i \in 1..Base : stack'[i] = stack[i]
  <2>1. /\ stack' \in Seq(Words) /\ Len(stack') = Len(stack) - 8
        /\ \A i \in 1..Len(stack') : stack'[i] = stack[i]
    <3>1. PICK old, new : old = stack /\ new = stack'
      OBVIOUS
    <3>2. PICK m : m = 8
      OBVIOUS
    <3>3. /\ old \in Seq(Words) /\ m \in 0..Len(old)
          /\ new = SubSeq(old, 1, Len(old) - m)
      BY <1>1, <1>5, <1>7, <3>1, <3>2
    <3>4. /\ new \in Seq(Words) /\ Len(new) = Len(old) - m
          /\ \A i \in 1..Len(new) : new[i] = old[i]
      BY <3>3, Shortened
    <3> QED BY <3>1, <3>2, <3>4
  <2> QED BY <1>5, <2>1
<1>9. BaseThere'
  <2>1. PICK m : m = Base
    OBVIOUS
  <2>2. m \in Nat /\ m >= Base /\ \A i \in 1..m : stack'[i] = stack[i]
    BY <1>2, <1>8, <2>1
  <2>3. BaseThere
    BY <1>1 DEF Saved
  <2> QED BY <1>2, <1>3, <2>2, <2>3, Kept
<1>10. StubTypes'
  <2>1. before \in [Registers -> Words]
    BY <1>1, InterruptedRegisters
  <2> QED BY <1>1, <1>3, <1>6, <1>8, <2>1 DEF StubTypes
<1>11. Simple => AtReturn'
  BY <1>2, <1>3, <1>6, <1>8, <1>9 DEF AtReturn, BaseThere, Here
<1>12. ~Simple => AtDiscard'
  BY <1>2, <1>3, <1>6, <1>8, <1>9 DEF AtDiscard, Here
<1> QED BY <1>7, <1>10, <1>11, <1>12 DEF StubInv

LEMMA Discards ==
    ASSUME StubTypes, resumed = <<>>, AtDiscard, Next
    PROVE  StubInv'
<1>1. /\ ~Simple /\ Here(Pushed + 8) /\ Len(stack) = 5 /\ BaseThere
      /\ regs = before /\ regs \in [Registers -> Words]
      /\ vector \in Gates /\ stack \in Seq(Words) /\ before = Interrupted
  BY DEF AtDiscard, StubTypes
<1>2. /\ Pushed \in 0..2 /\ Len(Program) = Pushed + 9 /\ Base = 5
      /\ Program[Pushed + 8] = <<"drop", 2>>
  <2>1. /\ Pushed \in 0..2 /\ Len(Program) = Pushed + 9
        /\ Program[Pushed + 8] = <<"drop", 2>>
    BY <1>1, Listing
  <2> QED BY <1>1, <2>1 DEF Base
<1>3. /\ Pushed + 8 \in 1..Len(Program) /\ Pushed + 8 < Len(Program)
      /\ Pushed + 8 + 1 = Len(Program)
  BY <1>2
<1>4. /\ UNCHANGED <<vector, before, Program, Base, Pushed, ErrorCode>>
      /\ Simple' = Simple /\ Here(Pushed + 8 + 1)' /\ Drop(2)
  BY <1>1, <1>2, <1>3, Executes
<1>5. /\ stack' = SubSeq(stack, 1, Len(stack) - 2)
      /\ UNCHANGED <<regs, resumed>>
  BY <1>4 DEF Drop
<1>6. /\ stack' \in Seq(Words) /\ Len(stack') = 3
      /\ \A i \in 1..3 : stack'[i] = stack[i]
  <2>1. 2 \in 0..Len(stack) /\ Len(stack) - 2 = 3
    BY <1>1
  <2>2. /\ stack' \in Seq(Words) /\ Len(stack') = Len(stack) - 2
        /\ \A i \in 1..Len(stack') : stack'[i] = stack[i]
    <3>1. PICK old, new : old = stack /\ new = stack'
      OBVIOUS
    <3>2. PICK m : m = 2
      OBVIOUS
    <3>3. /\ old \in Seq(Words) /\ m \in 0..Len(old)
          /\ new = SubSeq(old, 1, Len(old) - m)
      BY <1>1, <1>5, <2>1, <3>1, <3>2
    <3>4. /\ new \in Seq(Words) /\ Len(new) = Len(old) - m
          /\ \A i \in 1..Len(new) : new[i] = old[i]
      BY <3>3, Shortened
    <3> QED BY <3>1, <3>2, <3>4
  <2> QED BY <2>1, <2>2
<1>7. FrameThere'
  BY <1>1, <1>6 DEF BaseThere, FrameThere
<1>8. StubTypes'
  BY <1>1, <1>4, <1>5, <1>6 DEF StubTypes
<1>9. AtReturn'
  BY <1>1, <1>3, <1>4, <1>5, <1>6, <1>7 DEF AtReturn, Here
<1> QED BY <1>5, <1>8, <1>9 DEF StubInv

LEMMA Returns ==
    ASSUME StubTypes, resumed = <<>>, AtReturn, Next
    PROVE  StubInv'
<1>1. /\ Here(Len(Program)) /\ Len(stack) = 3 /\ FrameThere
      /\ regs = before /\ regs \in [Registers -> Words]
      /\ vector \in Gates /\ stack \in Seq(Words) /\ before = Interrupted
  BY DEF AtReturn, StubTypes
<1>2. /\ Len(Program) \in 1..Len(Program)
      /\ Program[Len(Program)] = <<"iret", "none">>
  <2>1. CASE vector = 32
    <3>1. Len(Program) = 4 /\ Program[4] = I("iret")
      BY <1>1, <2>1, Listing
    <3> QED BY <3>1 DEF I
  <2>2. CASE vector = 33
    <3>1. Len(Program) = 8 /\ Program[8] = I("iret")
      BY <1>1, <2>2, Listing
    <3> QED BY <3>1 DEF I
  <2>3. CASE ~Simple
    <3>1. /\ Pushed \in 0..2 /\ Len(Program) = Pushed + 9
          /\ Program[Pushed + 9] = I("iret")
      BY <1>1, <2>3, Listing
    <3>2. Pushed + 9 \in 1..(Pushed + 9)
      BY <3>1
    <3> QED BY <3>1, <3>2 DEF I
  <2> QED BY <2>1, <2>2, <2>3 DEF Simple
<1>3. UNCHANGED <<vector, before>> /\ text' = <<>> /\ Iret
  BY <1>1, <1>2, Executes
<1>4. /\ UNCHANGED regs /\ stack' = SubSeq(stack, 1, Len(stack) - 3)
      /\ resumed' = <<Peek(0), Peek(1), Peek(2)>>
  BY <1>3 DEF Iret
<1>5. stack' = <<>>
  <2>1. stack' \in Seq(Words) /\ Len(stack') = 0
    <3>1. 3 \in 0..Len(stack) /\ Len(stack) - 3 = 0
      BY <1>1
    <3>2. stack' \in Seq(Words) /\ Len(stack') = Len(stack) - 3
      BY <1>1, <1>4, <3>1, Shortened
    <3> QED BY <3>1, <3>2
  <2> QED BY <2>1
<1>6. resumed' = <<Value("eip"), Value("kernel_code"), Value("eflags")>>
  <2>1. /\ Len(stack) - 0 = 3 /\ Len(stack) - 1 = 2 /\ Len(stack) - 2 = 1
    BY <1>1
  <2>2. stack[1] = Frame[1] /\ stack[2] = Frame[2] /\ stack[3] = Frame[3]
    BY <1>1 DEF FrameThere
  <2>3. /\ Frame[1] = Value("eflags") /\ Frame[2] = Value("kernel_code")
        /\ Frame[3] = Value("eip")
    BY DEF Frame
  <2>4. /\ Peek(0) = Value("eip") /\ Peek(1) = Value("kernel_code")
        /\ Peek(2) = Value("eflags")
    BY <2>1, <2>2, <2>3 DEF Peek
  <2> QED BY <1>4, <2>4, Zenon
<1>7. StubTypes'
  <2>1. <<>> \in Seq(Words)
    OBVIOUS
  <2> QED BY <1>1, <1>3, <1>4, <1>5, <2>1 DEF StubTypes
<1>8. Done'
  BY <1>1, <1>3, <1>4, <1>5, <1>6 DEF Done
<1> QED BY <1>7, <1>8 DEF StubInv

\* Nothing is left to execute once the interrupted code goes on.
LEMMA Rests == Done => ~Next
<1> SUFFICES ASSUME Done, Next PROVE FALSE
  OBVIOUS
<1>1. text # <<>>
  BY DEF Next, Push, PushByte, Pop, LoadSegments, Drop, Pusha, Popa, Call,
         Iret, Fetch
<1> QED BY <1>1 DEF Done

LEMMA StubStep == StubInv /\ [Next]_vars => StubInv'
<1> SUFFICES ASSUME StubInv, [Next]_vars PROVE StubInv'
  OBVIOUS
<1>1. CASE UNCHANGED vars
  BY <1>1 DEF vars, machine, StubInv, StubTypes, AtDummy, AtNumber, AtSave,
     AtSaveDs, AtSwitch, AtCall, AtTakeDs, AtSwitchBack, AtRestore, AtDiscard,
     AtReturn, Done, Here, Program, Saved, DsSaved, BaseThere, FrameThere,
     DataSegments, Base, Pushed, Simple, ErrorCode
<1>2. CASE Next
  <2>1. StubTypes
    BY DEF StubInv
  <2>2. CASE Done
    BY <1>2, <2>2, Rests
  <2>3. CASE resumed = <<>>
    <3>1. \/ AtDummy \/ AtNumber \/ AtSave \/ AtSaveDs \/ AtSwitch \/ AtCall
          \/ AtTakeDs \/ AtSwitchBack \/ AtRestore \/ AtDiscard \/ AtReturn
          \/ Done
      BY DEF StubInv
    <3> QED BY <1>2, <2>1, <2>2, <2>3, <3>1, PushesDummy, PushesNumber,
               SavesRegisters, SavesDs, SwitchesToKernel, CallsHandler,
               TakesDs, SwitchesBack, RestoresRegisters, Discards, Returns
  <2> QED BY <2>2, <2>3 DEF StubInv
<1> QED BY <1>1, <1>2

LEMMA StubInvariant == Spec => []StubInv
<1> QED BY Starts, StubStep, PTL DEF Spec

-----------------------------------------------------------------------------
(***************************************************************************)
(* What the stubs promise.                                                 *)
(***************************************************************************)
\* A handler that returns leaves no trace (boot/isr_stubs.s), whichever gates
\* interrupts_init fills.
THEOREM StubsTransparent == Spec => []Transparent
<1>1. StubInv => Transparent
  BY DEF StubInv, StubTypes, Done, Transparent
<1> QED BY <1>1, StubInvariant, PTL

\* Only the call itself is next when the handler is.
LEMMA NextIsCall ==
    ASSUME StubInv, AtHandler, ~Simple
    PROVE  AtCall
<1>1. /\ vector \in Gates /\ Head(text) = <<"call", "none">> /\ text # <<>>
      /\ vector # 32
  BY DEF StubInv, StubTypes, AtHandler, I, Simple
<1>2. ASSUME NEW k \in 1..Len(Program), Here(k), NEW opcode, NEW operand,
             Program[k] = <<opcode, operand>>
      PROVE  opcode = "call"
  <2>1. Head(text) = Program[k]
    BY <1>1, <1>2, Listing, Rest DEF Here
  <2>2. <<opcode, operand>> = <<"call", "none">>
    BY <1>1, <1>2, <2>1
  <2> QED BY <2>2, Pair
<1>3. /\ Len(Program) \in Nat /\ Pushed \in 1..2 /\ Len(Program) = Pushed + 9
      /\ Program[Pushed] = <<"push_byte", vector>>
      /\ Program[Pushed + 1] = <<"pusha", "none">>
      /\ Program[Pushed + 2] = <<"push", "ds">>
      /\ Program[Pushed + 3] = <<"segments", "kernel">>
      /\ Program[Pushed + 5] = <<"pop", "ebx">>
      /\ Program[Pushed + 6] = <<"segments", "ebx">>
      /\ Program[Pushed + 7] = <<"popa", "none">>
      /\ Program[Pushed + 8] = <<"drop", 2>>
      /\ Program[Len(Program)] = <<"iret", "none">>
      /\ Pushed = 2 => Program[1] = <<"push_byte", 0>>
  <2>1. /\ Pushed \in 0..2 /\ Pushed > 0 /\ Len(Program) = Pushed + 9
        /\ Program[Pushed] = <<"push_byte", vector>>
        /\ Program[Pushed + 1] = I("pusha")
        /\ Program[Pushed + 2] = <<"push", "ds">>
        /\ Program[Pushed + 3] = <<"segments", "kernel">>
        /\ Program[Pushed + 5] = <<"pop", "ebx">>
        /\ Program[Pushed + 6] = <<"segments", "ebx">>
        /\ Program[Pushed + 7] = I("popa")
        /\ Program[Pushed + 8] = <<"drop", 2>>
        /\ Program[Pushed + 9] = I("iret")
        /\ Pushed = 2 => Program[1] = <<"push_byte", 0>>
    BY <1>1, Listing
  <2>2. Pushed \in 1..2 /\ Pushed + 9 \in Nat
    BY <2>1
  <2> QED BY <2>1, <2>2 DEF I
<1>4. /\ 1 \in 1..Len(Program) /\ Pushed \in 1..Len(Program)
      /\ Pushed + 1 \in 1..Len(Program) /\ Pushed + 2 \in 1..Len(Program)
      /\ Pushed + 3 \in 1..Len(Program) /\ Pushed + 5 \in 1..Len(Program)
      /\ Pushed + 6 \in 1..Len(Program) /\ Pushed + 7 \in 1..Len(Program)
      /\ Pushed + 8 \in 1..Len(Program) /\ Len(Program) \in 1..Len(Program)
  BY <1>3
<1>5. /\ ~AtDummy /\ ~AtNumber /\ ~AtSave /\ ~AtSaveDs /\ ~AtSwitch
      /\ ~AtTakeDs /\ ~AtSwitchBack /\ ~AtRestore /\ ~AtDiscard /\ ~AtReturn
  <2>1. ~AtDummy
    BY <1>2, <1>3, <1>4, Opcodes DEF AtDummy
  <2>2. ~AtNumber
    BY <1>2, <1>3, <1>4, Opcodes DEF AtNumber
  <2>3. ~AtSave
    BY <1>2, <1>3, <1>4, Opcodes DEF AtSave
  <2>4. ~AtSaveDs
    BY <1>2, <1>3, <1>4, Opcodes DEF AtSaveDs
  <2>5. ~AtSwitch
    BY <1>2, <1>3, <1>4, Opcodes DEF AtSwitch
  <2>6. ~AtTakeDs
    BY <1>2, <1>3, <1>4, Opcodes DEF AtTakeDs
  <2>7. ~AtSwitchBack
    BY <1>2, <1>3, <1>4, Opcodes DEF AtSwitchBack
  <2>8. ~AtRestore
    BY <1>1, <1>2, <1>3, <1>4, Opcodes DEF AtRestore
  <2>9. ~AtDiscard
    BY <1>2, <1>3, <1>4, Opcodes DEF AtDiscard
  <2>10. ~AtReturn
    BY <1>2, <1>3, <1>4, Opcodes DEF AtReturn
  <2> QED BY <2>1, <2>2, <2>3, <2>4, <2>5, <2>6, <2>7, <2>8, <2>9, <2>10
<1> QED BY <1>1, <1>5 DEF StubInv, Done

\* The C handlers find one frame, with or without an error code of the CPU's
\* (interrupts.c:79-86), whichever gates interrupts_init fills.
THEOREM StubsBuildOneFrame == Spec => []UniformFrame
<1>1. ASSUME StubInv PROVE UniformFrame
  <2> SUFFICES ASSUME AtHandler, vector \notin {32, 33}
               PROVE  /\ Peek(9) = Word("byte", vector)
                      /\ Peek(10) = ErrorCode
                      /\ Peek(11) = Value("eip")
    BY DEF UniformFrame, ErrorCode
  <2>1. ~Simple /\ Base = 5 /\ vector # 32
    BY DEF Simple, Base
  <2>2. Len(stack) = Base + 9 /\ Saved
    BY <1>1, <2>1, NextIsCall DEF AtCall
  <2>3. /\ Len(stack) - 9 = 5 /\ Len(stack) - 10 = 4 /\ Len(stack) - 11 = 3
    BY <2>1, <2>2
  <2>4. /\ stack[5] = Word("byte", vector) /\ stack[4] = ErrorCode
        /\ stack[3] = Frame[3]
    BY <2>1, <2>2 DEF Saved, BaseThere, FrameThere
  <2>5. Frame[3] = Value("eip")
    BY DEF Frame
  <2> QED BY <2>3, <2>4, <2>5 DEF Peek
<1> QED BY <1>1, StubInvariant, PTL
=============================================================================
