------------------------------ MODULE PMMProofs ------------------------------
(***************************************************************************)
(* Proofs about PMM, for every memory size, reserved area and garbage.     *)
(***************************************************************************)
EXTENDS PMM, FiniteSetTheorems, TLAPS

\* A page of the machine has its bit in a word that is there, and two pages
\* never share one.
LEMMA PageBit ==
    ASSUME NEW i \in 0..(TotalPages - 1)
    PROVE  i \div 32 \in Words /\ i % 32 \in Bits
BY MemoryAssumption DEF TotalPages, Words, Bits, PAGE_SIZE

LEMMA BitIsPage ==
    ASSUME NEW i \in Nat, NEW j \in Nat,
           i \div 32 = j \div 32, i % 32 = j % 32
    PROVE  i = j
OBVIOUS

\* TotalPages is a number of pages, and at least page 0 is reserved.
LEMMA TotalPagesNat == TotalPages \in Nat
BY MemoryAssumption DEF TotalPages, PAGE_SIZE

LEMMA PageZeroReserved == TotalPages > 0 => 0 \in Reserved
BY MemoryAssumption, ReservedAssumption, TotalPagesNat
   DEF Reserved, pages_for_first_4mb, PAGE_SIZE

LEMMA ReservedPages == Reserved \subseteq 0..(TotalPages - 1)
BY MemoryAssumption, ReservedAssumption, TotalPagesNat
   DEF Reserved, pages_for_first_4mb, PAGE_SIZE

\* What |= and &= ~ of a page's bit do to the bit of any page.
LEMMA SetBit ==
    ASSUME NEW m \in [Words -> SUBSET Bits],
           NEW p \in 0..(TotalPages - 1), NEW i \in 0..(TotalPages - 1)
    PROVE  /\ [m EXCEPT ![p \div 32] = @ \cup {p % 32}] \in [Words -> SUBSET Bits]
           /\ i % 32 \in [m EXCEPT ![p \div 32] = @ \cup {p % 32}][i \div 32]
                <=> i % 32 \in m[i \div 32] \/ i = p
<1> DEFINE n == [m EXCEPT ![p \div 32] = @ \cup {p % 32}]
<1>1. /\ p \div 32 \in Words /\ p % 32 \in Bits
      /\ i \div 32 \in Words /\ i % 32 \in Bits
  BY PageBit
<1>2. n \in [Words -> SUBSET Bits]
  BY <1>1
<1>3. CASE i \div 32 # p \div 32
  BY <1>1, <1>3
<1>4. CASE i \div 32 = p \div 32
  <2>1. i % 32 = p % 32 <=> i = p
    BY <1>4, BitIsPage
  <2>2. n[i \div 32] = m[i \div 32] \cup {p % 32}
    BY <1>1, <1>4
  <2> QED BY <2>1, <2>2, <1>2
<1> QED BY <1>2, <1>3, <1>4

LEMMA ClearBit ==
    ASSUME NEW m \in [Words -> SUBSET Bits],
           NEW p \in 0..(TotalPages - 1), NEW i \in 0..(TotalPages - 1)
    PROVE  /\ [m EXCEPT ![p \div 32] = @ \ {p % 32}] \in [Words -> SUBSET Bits]
           /\ i % 32 \in [m EXCEPT ![p \div 32] = @ \ {p % 32}][i \div 32]
                <=> i % 32 \in m[i \div 32] /\ i # p
<1> DEFINE n == [m EXCEPT ![p \div 32] = @ \ {p % 32}]
<1>1. /\ p \div 32 \in Words /\ p % 32 \in Bits
      /\ i \div 32 \in Words /\ i % 32 \in Bits
  BY PageBit
<1>2. n \in [Words -> SUBSET Bits]
  BY <1>1
<1>3. CASE i \div 32 # p \div 32
  BY <1>1, <1>3
<1>4. CASE i \div 32 = p \div 32
  <2>1. i % 32 = p % 32 <=> i = p
    BY <1>4, BitIsPage
  <2>2. n[i \div 32] = m[i \div 32] \ {p % 32}
    BY <1>1, <1>4
  <2> QED BY <2>1, <2>2, <1>2
<1> QED BY <1>2, <1>3, <1>4

-----------------------------------------------------------------------------
(***************************************************************************)
(* The inductive invariant.  pmm_free_page keeps used_pages in Nat only    *)
(* because the counter is the number of set bits, and a page it clears is  *)
(* one of those handed out only because the bits are the reserved and the  *)
(* held pages: the three parts need each other.                            *)
(***************************************************************************)
PMMInv == TypeOK /\ BitmapIsOwnership /\ CountIsBitmap

\* The bits that are set, read off a map.
Marks(m) == {i \in 0..(TotalPages - 1) : i % 32 \in m[i \div 32]}

LEMMA UsedIsMarks ==
    TypeOK => /\ ready => Used = Marks(memory_map)
              /\ ~ready => Used = {}
BY TotalPagesNat DEF TypeOK, Used, Marks, pmm_is_page_used

\* Setting or clearing the bit of a page adds or removes that page.
LEMMA MarksSet ==
    ASSUME NEW m \in [Words -> SUBSET Bits], NEW p \in 0..(TotalPages - 1)
    PROVE  Marks([m EXCEPT ![p \div 32] = @ \cup {p % 32}]) = Marks(m) \cup {p}
<1> DEFINE n == [m EXCEPT ![p \div 32] = @ \cup {p % 32}]
<1>1. \A i \in 0..(TotalPages - 1) :
        i % 32 \in n[i \div 32] <=> i % 32 \in m[i \div 32] \/ i = p
  BY SetBit
<1> HIDE DEF n
<1>2. Marks(n) = Marks(m) \cup {p}
  BY <1>1 DEF Marks
<1> QED BY <1>2 DEF n

LEMMA MarksClear ==
    ASSUME NEW m \in [Words -> SUBSET Bits], NEW p \in 0..(TotalPages - 1)
    PROVE  Marks([m EXCEPT ![p \div 32] = @ \ {p % 32}]) = Marks(m) \ {p}
<1> DEFINE n == [m EXCEPT ![p \div 32] = @ \ {p % 32}]
<1>1. \A i \in 0..(TotalPages - 1) :
        i % 32 \in n[i \div 32] <=> i % 32 \in m[i \div 32] /\ i # p
  BY ClearBit
<1> HIDE DEF n
<1>2. Marks(n) = Marks(m) \ {p}
  BY <1>1 DEF Marks
<1> QED BY <1>2 DEF n

LEMMA MarksFinite ==
    ASSUME NEW m \in [Words -> SUBSET Bits]
    PROVE  IsFiniteSet(Marks(m)) /\ Cardinality(Marks(m)) \in Nat
<1>1. IsFiniteSet(0..(TotalPages - 1))
  BY TotalPagesNat, FS_Interval
<1>2. Marks(m) \subseteq 0..(TotalPages - 1)
  BY DEF Marks
<1> QED BY <1>1, <1>2, FS_Subset, FS_CardinalityType

\* A bit is clear exactly if the page is neither reserved nor held.
LEMMA UnusedPages ==
    ASSUME PMMInv, ready, NEW i \in 0..(TotalPages - 1)
    PROVE  pmm_is_page_used(i) <=> i \in Reserved \cup held
<1>1. total_pages = TotalPages /\ Used = Reserved \cup held
  BY DEF PMMInv, TypeOK, BitmapIsOwnership
<1> QED BY <1>1, TotalPagesNat DEF Used

\* The map pmm_init writes: its bits are the reserved pages, and the words
\* past the bitmap are what they were.
LEMMA InitMap ==
    ASSUME TypeOK, pmm_init
    PROVE  /\ memory_map' \in [Words -> SUBSET Bits]
           /\ Marks(memory_map') = Reserved
<1>1. total_pages' = TotalPages
  BY DEF pmm_init, TotalPages
<1>2. memory_map' = [w \in Words |->
               IF w < bitmap_size_in_dwords(TotalPages)
                 THEN {i % 32 : i \in {j \in Reserved : j \div 32 = w}}
                 ELSE memory_map[w]]
  BY <1>1 DEF pmm_init, Reserved
<1>3. memory_map' \in [Words -> SUBSET Bits]
  <2>1. \A j \in Reserved : j % 32 \in Bits
    BY ReservedPages, PageBit
  <2> QED BY <1>2, <2>1 DEF TypeOK
<1>4. ASSUME NEW i \in 0..(TotalPages - 1)
      PROVE  i % 32 \in memory_map'[i \div 32] <=> i \in Reserved
  <2>1. i \div 32 \in Words /\ i \div 32 < bitmap_size_in_dwords(TotalPages)
    BY PageBit, TotalPagesNat DEF bitmap_size_in_dwords
  <2>2. memory_map'[i \div 32] =
          {k % 32 : k \in {j \in Reserved : j \div 32 = i \div 32}}
    BY <1>2, <2>1
  <2>3. \A j \in Reserved : j \div 32 = i \div 32 /\ j % 32 = i % 32 => j = i
    BY ReservedPages, BitIsPage
  <2> QED BY <2>2, <2>3
<1>5. Marks(memory_map') = Reserved
  BY <1>4, ReservedPages DEF Marks
<1> QED BY <1>3, <1>5

LEMMA InitEstablishes == Init => PMMInv
<1> SUFFICES ASSUME Init PROVE PMMInv
  OBVIOUS
<1>1. memory_map \in [Words -> SUBSET Bits]
  BY GarbageAssumption DEF Init
<1>2. TypeOK
  <2>1. 0 \in 0..TotalPages /\ 0 * PAGE_SIZE = 0
    BY TotalPagesNat DEF PAGE_SIZE
  <2>2. ret \in {i * PAGE_SIZE : i \in 0..TotalPages}
    BY <2>1 DEF Init, NULL
  <2> QED BY <1>1, <2>2 DEF Init, TypeOK
<1>3. BitmapIsOwnership
  BY DEF Init, BitmapIsOwnership
<1>4. CountIsBitmap
  BY <1>2, UsedIsMarks, FS_EmptySet DEF Init, CountIsBitmap
<1> QED BY <1>2, <1>3, <1>4 DEF PMMInv

-----------------------------------------------------------------------------
\* Each operation, in terms of the sets it moves pages between.

\* pmm_alloc_page refuses when every page is reserved or held; otherwise it
\* hands out a page that is neither.
LEMMA AllocEffect ==
    ASSUME PMMInv, pmm_alloc_page
    PROVE  /\ ready /\ UNCHANGED <<total_pages, ready>>
           /\ \/ /\ 0..(TotalPages - 1) \subseteq Reserved \cup held
                 /\ ret' = NULL
                 /\ UNCHANGED <<used_pages, memory_map, held>>
              \/ \E i \in 0..(TotalPages - 1) :
                   /\ i \notin Reserved \cup held
                   /\ memory_map' = [memory_map EXCEPT ![i \div 32] = @ \cup {i % 32}]
                   /\ used_pages' = used_pages + 1
                   /\ ret' = i * PAGE_SIZE
                   /\ held' = held \cup {i}
<1> DEFINE unused == {i \in 0..(total_pages - 1) : ~pmm_is_page_used(i)}
<1>1. ready /\ total_pages = TotalPages
  BY DEF pmm_alloc_page, PMMInv, TypeOK
<1>2. unused = 0..(TotalPages - 1) \ (Reserved \cup held)
  BY <1>1, UnusedPages
<1>3. CASE /\ unused = {} /\ ret' = NULL
           /\ UNCHANGED <<used_pages, memory_map, held>>
  BY <1>1, <1>2, <1>3 DEF pmm_alloc_page
<1>4. CASE \E i \in unused :
             /\ pmm_set_page(i)
             /\ used_pages' = used_pages + 1
             /\ ret' = i * PAGE_SIZE
             /\ held' = held \cup {i}
  <2>1. PICK i \in unused :
             /\ pmm_set_page(i)
             /\ used_pages' = used_pages + 1
             /\ ret' = i * PAGE_SIZE
             /\ held' = held \cup {i}
    BY <1>4
  <2>2. i \in 0..(TotalPages - 1) /\ i \notin Reserved \cup held
    BY <1>2
  <2>3. memory_map' = [memory_map EXCEPT ![i \div 32] = @ \cup {i % 32}]
    BY <2>1, <2>2, <1>1, TotalPagesNat DEF pmm_set_page
  <2> HIDE DEF unused
  <2> QED BY <1>1, <2>1, <2>2, <2>3 DEF pmm_alloc_page
<1> QED BY <1>3, <1>4 DEF pmm_alloc_page

\* pmm_free_page ignores its argument, or takes back a page that was held.
LEMMA FreeEffect ==
    ASSUME PMMInv, NEW a \in Addresses, pmm_free_page(a)
    PROVE  /\ ready /\ UNCHANGED <<total_pages, ready, ret>>
           /\ \/ UNCHANGED <<used_pages, memory_map, held>>
              \/ \E i \in held :
                   /\ memory_map' = [memory_map EXCEPT ![i \div 32] = @ \ {i % 32}]
                   /\ used_pages' = used_pages - 1
                   /\ held' = held \ {i}
<1> DEFINE n == a \div PAGE_SIZE
<1>1. ready /\ total_pages = TotalPages
  BY DEF pmm_free_page, PMMInv, TypeOK
<1>2. CASE UNCHANGED <<used_pages, memory_map, held>>
  BY <1>1, <1>2 DEF pmm_free_page
<1>3. CASE /\ a # NULL /\ n < total_pages
           /\ pmm_is_page_used(n)
           /\ pmm_clear_page(n)
           /\ used_pages' = used_pages - 1
           /\ held' = held \ {n}
  <2>1. n \in Nat /\ n \notin pages_for_first_4mb(MemorySize)
    BY <1>3, MemoryAssumption DEF Addresses, PAGE_SIZE
  <2>2. n \in 0..(TotalPages - 1)
    BY <1>1, <1>3, <2>1, TotalPagesNat
  <2>3. n \notin Reserved
    BY <2>1, <2>2, MemoryAssumption, ReservedAssumption, TotalPagesNat
       DEF Reserved, pages_for_first_4mb, TotalPages, PAGE_SIZE
  <2>4. n \in held
    BY <1>1, <1>3, <2>2, <2>3, UnusedPages
  <2>5. memory_map' = [memory_map EXCEPT ![n \div 32] = @ \ {n % 32}]
    BY <1>1, <1>3, <2>2, TotalPagesNat DEF pmm_clear_page
  <2> HIDE DEF n
  <2> QED BY <1>1, <1>3, <2>4, <2>5 DEF pmm_free_page
<1> QED BY <1>2, <1>3 DEF pmm_free_page

-----------------------------------------------------------------------------
LEMMA InitStep == PMMInv /\ pmm_init => PMMInv'
<1> SUFFICES ASSUME PMMInv, pmm_init PROVE PMMInv'
  OBVIOUS
<1>1. /\ memory_map' \in [Words -> SUBSET Bits]
      /\ Marks(memory_map') = Reserved
  BY InitMap DEF PMMInv
<1>2. ready' /\ total_pages' = TotalPages /\ used_pages' = Cardinality(Reserved)
  BY DEF pmm_init, TotalPages, Reserved
<1>3. Used' = Reserved
  BY <1>1, <1>2, TotalPagesNat DEF Used, Marks, pmm_is_page_used
<1>4. TypeOK'
  <2>1. used_pages' \in Nat
    BY <1>1, <1>2, MarksFinite
  <2> QED BY <1>1, <1>2, <2>1, TotalPagesNat DEF TypeOK, PMMInv, pmm_init
<1>5. held = {} /\ held' = {}
  BY DEF PMMInv, BitmapIsOwnership, pmm_init
<1> QED BY <1>2, <1>3, <1>4, <1>5
        DEF PMMInv, BitmapIsOwnership, CountIsBitmap

LEMMA AllocStep == PMMInv /\ pmm_alloc_page => PMMInv'
<1> SUFFICES ASSUME PMMInv, pmm_alloc_page PROVE PMMInv'
  OBVIOUS
<1>1. /\ ready /\ ready' /\ total_pages = TotalPages /\ total_pages' = TotalPages
      /\ memory_map \in [Words -> SUBSET Bits]
      /\ Used = Marks(memory_map) /\ Used' = Marks(memory_map')
  BY AllocEffect, UsedIsMarks, TotalPagesNat
     DEF PMMInv, TypeOK, Used, Marks, pmm_is_page_used
<1>2. CASE ret' = NULL /\ UNCHANGED <<used_pages, memory_map, held>>
  <2>1. ret' \in {i * PAGE_SIZE : i \in 0..TotalPages}
    <3>1. 0 \in 0..TotalPages /\ 0 * PAGE_SIZE = 0
      BY TotalPagesNat DEF PAGE_SIZE
    <3> QED BY <1>2, <3>1 DEF NULL
  <2> QED BY <1>1, <1>2, <2>1
          DEF PMMInv, TypeOK, BitmapIsOwnership, CountIsBitmap
<1>3. ASSUME NEW i \in 0..(TotalPages - 1),
             i \notin Reserved \cup held,
             memory_map' = [memory_map EXCEPT ![i \div 32] = @ \cup {i % 32}],
             used_pages' = used_pages + 1,
             ret' = i * PAGE_SIZE,
             held' = held \cup {i}
      PROVE  PMMInv'
  <2>1. memory_map' \in [Words -> SUBSET Bits]
    BY <1>1, <1>3, SetBit
  <2>2. Used' = Used \cup {i}
    BY <1>1, <1>3, MarksSet
  <2>3. TypeOK'
    BY <1>1, <1>3, <2>1, TotalPagesNat DEF PMMInv, TypeOK
  <2>4. BitmapIsOwnership'
    BY <1>1, <1>3, <2>2 DEF PMMInv, BitmapIsOwnership
  <2>5. CountIsBitmap'
    <3>1. i \notin Used
      BY <1>1, <1>3 DEF PMMInv, BitmapIsOwnership
    <3>2. Cardinality(Used \cup {i}) = Cardinality(Used) + 1
      BY <1>1, <3>1, MarksFinite, FS_AddElement
    <3> QED BY <1>3, <2>2, <3>2 DEF PMMInv, CountIsBitmap
  <2> QED BY <2>3, <2>4, <2>5 DEF PMMInv
<1> QED BY AllocEffect, <1>2, <1>3

LEMMA FreeStep ==
    ASSUME PMMInv, NEW a \in Addresses, pmm_free_page(a)
    PROVE  PMMInv'
<1>1. /\ ready /\ ready' /\ total_pages = TotalPages /\ total_pages' = TotalPages
      /\ memory_map \in [Words -> SUBSET Bits] /\ ret' = ret
      /\ Used = Marks(memory_map) /\ Used' = Marks(memory_map')
  BY FreeEffect, UsedIsMarks, TotalPagesNat
     DEF PMMInv, TypeOK, Used, Marks, pmm_is_page_used
<1>2. CASE UNCHANGED <<used_pages, memory_map, held>>
  BY <1>1, <1>2 DEF PMMInv, TypeOK, BitmapIsOwnership, CountIsBitmap
<1>3. ASSUME NEW i \in held,
             memory_map' = [memory_map EXCEPT ![i \div 32] = @ \ {i % 32}],
             used_pages' = used_pages - 1,
             held' = held \ {i}
      PROVE  PMMInv'
  <2>1. i \in 0..(TotalPages - 1) /\ i \in Used /\ i \notin Reserved
    BY <1>1 DEF PMMInv, TypeOK, BitmapIsOwnership
  <2>2. memory_map' \in [Words -> SUBSET Bits]
    BY <1>1, <1>3, <2>1, ClearBit
  <2>3. Used' = Used \ {i}
    BY <1>1, <1>3, <2>1, MarksClear
  <2>4. /\ Cardinality(Used \ {i}) = Cardinality(Used) - 1
        /\ Cardinality(Used \ {i}) \in Nat
    BY <1>1, <2>1, MarksFinite, FS_RemoveElement, FS_CardinalityType
  <2>5. CountIsBitmap' /\ used_pages' \in Nat
    BY <1>3, <2>3, <2>4 DEF PMMInv, CountIsBitmap
  <2>6. TypeOK'
    BY <1>1, <1>3, <2>2, <2>5 DEF PMMInv, TypeOK
  <2>7. BitmapIsOwnership'
    BY <1>1, <1>3, <2>1, <2>3 DEF PMMInv, BitmapIsOwnership
  <2> QED BY <2>5, <2>6, <2>7 DEF PMMInv
<1> QED BY FreeEffect, <1>2, <1>3

LEMMA StutterStep == PMMInv /\ UNCHANGED pmmVars => PMMInv'
BY DEF PMMInv, TypeOK, BitmapIsOwnership, CountIsBitmap, Used,
       pmm_is_page_used, pmmVars

LEMMA PMMInduction == Spec => []PMMInv
<1>1. PMMInv /\ [Next]_pmmVars => PMMInv'
  BY InitStep, AllocStep, FreeStep, StutterStep DEF Next
<1> QED BY InitEstablishes, <1>1, PTL DEF Spec

\* The statics of pmm.c keep their types: in particular used_pages never goes
\* below zero, which in the code would wrap to 2^32 - 1.
THEOREM TypeCorrect == Spec => []TypeOK
BY PMMInduction, PTL DEF PMMInv

\* No page is handed out twice or out of the kernel's 4 MB, whatever garbage
\* the map held at boot.
THEOREM Ownership == Spec => []BitmapIsOwnership
BY PMMInduction, PTL DEF PMMInv

\* used_pages is the number of set bits after every call.
THEOREM Count == Spec => []CountIsBitmap
BY PMMInduction, PTL DEF PMMInv

\* No call changes a word past the bitmap, for any number of pages, those
\* that do not fill the last word included.
THEOREM StaysInBitmap == Spec => WritesStayInBitmap
<1> DEFINE Stays == \A w \in Words :
                      32 * w >= TotalPages => memory_map'[w] = memory_map[w]
<1>1. PMMInv /\ pmm_init => Stays
  <2> SUFFICES ASSUME PMMInv, pmm_init, NEW w \in Words, 32 * w >= TotalPages
               PROVE  memory_map'[w] = memory_map[w]
    OBVIOUS
  <2>1. w \in Nat /\ ~(w < bitmap_size_in_dwords(TotalPages))
    BY TotalPagesNat DEF Words, bitmap_size_in_dwords
  <2>2. total_pages' = TotalPages
    BY DEF pmm_init, TotalPages
  <2> QED BY <2>1, <2>2 DEF pmm_init
<1>2. ASSUME NEW i \in 0..(TotalPages - 1), NEW w \in Words,
             32 * w >= TotalPages
      PROVE  i \div 32 # w
  BY <1>2, TotalPagesNat, MemoryAssumption DEF Words, PAGE_SIZE
<1>3. PMMInv /\ pmm_alloc_page => Stays
  <2> SUFFICES ASSUME PMMInv, pmm_alloc_page PROVE Stays
    OBVIOUS
  <2>1. memory_map \in [Words -> SUBSET Bits]
    BY DEF PMMInv, TypeOK
  <2> QED BY AllocEffect, <1>2, <2>1
<1>4. ASSUME PMMInv, NEW a \in Addresses, pmm_free_page(a)
      PROVE  Stays
  <2>1. memory_map \in [Words -> SUBSET Bits] /\ held \subseteq 0..(TotalPages - 1)
    BY <1>4 DEF PMMInv, TypeOK
  <2> QED BY FreeEffect, <1>2, <1>4, <2>1
<1>5. PMMInv /\ [Next]_pmmVars => [Stays]_pmmVars
  BY <1>1, <1>3, <1>4 DEF Next
<1> QED BY PMMInduction, <1>5, PTL DEF Spec, WritesStayInBitmap

-----------------------------------------------------------------------------
(***************************************************************************)
(* The bitmap implements PageAllocator.                                    *)
(***************************************************************************)
FreePages == IF ready THEN 0..(total_pages - 1) \ Used ELSE {}

LEMMA FreeIsRest ==
    PMMInv => FreePages = IF ready THEN 0..(TotalPages - 1) \ (Reserved \cup held)
                          ELSE {}
BY DEF PMMInv, TypeOK, BitmapIsOwnership, FreePages

LEMMA StepImplements ==
    PMMInv /\ PMMInv' /\ [Next]_pmmVars => [A!AllocNext]_A!allocVars
<1> SUFFICES ASSUME PMMInv, PMMInv', [Next]_pmmVars
             PROVE  [A!AllocNext]_A!allocVars
  OBVIOUS
<1> DEFINE Rest == 0..(TotalPages - 1) \ (Reserved \cup held)
<1>1. FreePages = IF ready THEN Rest ELSE {}
  BY FreeIsRest
<1>2. FreePages' = IF ready' THEN Rest' ELSE {}
  BY DEF PMMInv, TypeOK, BitmapIsOwnership, FreePages
<1>3. CASE pmm_init
  <2>1. ~ready /\ ready' /\ held = {} /\ held' = {} /\ ret' = ret
    BY <1>3 DEF pmm_init, PMMInv, BitmapIsOwnership
  <2>2. FreePages' = 0..(TotalPages - 1) \ Reserved
    BY <1>2, <2>1
  <2>3. A!Start
    BY <1>1, <2>1, <2>2 DEF A!Start, FreePages
  <2> QED BY <2>3 DEF A!AllocNext
<1>4. CASE pmm_alloc_page
  <2>1. ready /\ ready'
    BY <1>4, AllocEffect
  <2>2. CASE /\ 0..(TotalPages - 1) \subseteq Reserved \cup held
             /\ ret' = NULL
             /\ UNCHANGED held
    <3>1. FreePages = {} /\ FreePages' = {}
      BY <1>1, <1>2, <2>1, <2>2
    <3>2. ret' \div PAGE_SIZE = NULL
      BY <2>2 DEF NULL, PAGE_SIZE
    <3>3. A!Refuse
      BY <2>1, <2>2, <3>1, <3>2 DEF A!Refuse, FreePages
    <3> QED BY <3>3 DEF A!AllocNext
  <2>3. ASSUME NEW i \in 0..(TotalPages - 1),
               i \notin Reserved \cup held,
               ret' = i * PAGE_SIZE,
               held' = held \cup {i}
        PROVE  A!AllocNext
    <3>1. i \in FreePages /\ FreePages' = FreePages \ {i}
      BY <1>1, <1>2, <2>1, <2>3
    <3>2. ret' \div PAGE_SIZE = i
      BY <2>3, TotalPagesNat DEF PAGE_SIZE
    <3>3. A!Grant(i)
      BY <2>1, <2>3, <3>1, <3>2 DEF A!Grant, FreePages
    <3> QED BY <3>3 DEF A!AllocNext
  <2> QED BY <1>4, <2>2, <2>3, AllocEffect
<1>5. ASSUME NEW a \in Addresses, pmm_free_page(a)
      PROVE  [A!AllocNext]_A!allocVars
  <2>1. ready /\ ready' /\ ret' = ret
    BY <1>5, FreeEffect
  <2>2. CASE UNCHANGED held
    <3>1. FreePages' = FreePages
      BY <1>1, <1>2, <2>1, <2>2
    <3> QED BY <2>1, <2>2, <3>1 DEF A!allocVars, FreePages
  <2>3. ASSUME NEW i \in held, held' = held \ {i}
        PROVE  A!AllocNext
    <3>1. i \in 0..(TotalPages - 1) /\ i \notin Reserved
      BY <2>1 DEF PMMInv, TypeOK, BitmapIsOwnership
    <3>2. FreePages' = FreePages \cup {i}
      BY <1>1, <1>2, <2>1, <2>3, <3>1
    <3>3. A!Release(i)
      BY <2>1, <2>3, <3>2 DEF A!Release, FreePages
    <3> QED BY <3>1, <3>3 DEF A!AllocNext
  <2> QED BY <1>5, <2>2, <2>3, FreeEffect
<1>6. CASE UNCHANGED pmmVars
  BY <1>6 DEF pmmVars, A!allocVars, Used, pmm_is_page_used
<1> QED BY <1>3, <1>4, <1>5, <1>6 DEF Next

\* Every behaviour of the bitmap is one of the abstract allocator: a page has
\* one holder, and pmm_alloc_page returns NULL only when no page is free.
THEOREM Refinement == Spec => ImplementsAllocator
<1>1. Init => A!AllocInit
  BY DEF Init, A!AllocInit, NULL, PAGE_SIZE
<1> QED BY <1>1, PMMInduction, StepImplements, PTL
        DEF Spec, ImplementsAllocator, A!AllocSpec
=============================================================================
