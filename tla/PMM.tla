--------------------------------- MODULE PMM ---------------------------------
(***************************************************************************)
(* The physical memory manager (kernel/mem/pmm.c): a bitmap of 32-bit      *)
(* words at a fixed address, one bit per page.  A word is the set of its   *)
(* 1 bits, so that |=, &= ~ and & with (1 << b) are union, difference and  *)
(* membership.  Every caller runs with interrupts off, so a call is a step. *)
(***************************************************************************)
EXTENDS Integers, FiniteSets

CONSTANTS
    MemorySize,      \* memory_size, the bytes kmain passes to pmm_init
    ReservedBytes,   \* what pmm_init marks as used: 4 * 1024 * 1024
    Garbage          \* what a word of the map may hold before pmm_init

NULL == 0
PAGE_SIZE == 4096
Bits == 0..31

ASSUME MemoryAssumption == MemorySize \in Nat
\* Page 0 is reserved, or pmm_alloc_page could not tell it from NULL.
ASSUME ReservedAssumption == ReservedBytes \in Nat /\ ReservedBytes >= PAGE_SIZE
ASSUME GarbageAssumption == Garbage \subseteq SUBSET Bits /\ Garbage # {}

\* The words from memory_map_ptr on: those of the bitmap and the one after.
Words == 0..((MemorySize \div PAGE_SIZE + 31) \div 32)

VARIABLES
    total_pages, used_pages, memory_map,   \* statics of pmm.c
    ready,    \* kmain has called pmm_init
    ret,      \* what the last pmm_alloc_page returned
    held      \* history: the pages handed out and not given back

pmmVars == <<total_pages, used_pages, memory_map, ready, ret, held>>

\* memory_map_ptr is a constant: what lies there at boot is anything.
Init ==
    /\ total_pages = 0 /\ used_pages = 0
    /\ memory_map \in [Words -> Garbage]
    /\ ready = FALSE /\ ret = NULL /\ held = {}

-----------------------------------------------------------------------------
pmm_is_page_used(n) ==
    n >= total_pages \/ n % 32 \in memory_map[n \div 32]

\* Mutant: = instead of |=.
pmm_set_page_Overwrites(n) ==
    memory_map' = IF n >= total_pages THEN memory_map
                  ELSE [memory_map EXCEPT ![n \div 32] = {n % 32}]

pmm_set_page(n) ==
    memory_map' = IF n >= total_pages THEN memory_map
                  ELSE [memory_map EXCEPT ![n \div 32] = @ \cup {n % 32}]

pmm_clear_page(n) ==
    memory_map' = IF n >= total_pages THEN memory_map
                  ELSE [memory_map EXCEPT ![n \div 32] = @ \ {n % 32}]

\* The pages pmm_init marks, out of n pages.
pages_for_first_4mb(n) ==
    {i \in 0..(ReservedBytes \div PAGE_SIZE - 1) : i < n}

\* Mutant: the loop over the words runs to <= instead of <.
bitmap_size_in_dwords_Inclusive(n) ==
    n \div 32 + (IF n % 32 # 0 THEN 1 ELSE 0) + 1

bitmap_size_in_dwords(n) == n \div 32 + (IF n % 32 # 0 THEN 1 ELSE 0)

pmm_init ==
    /\ ~ready
    /\ total_pages' = MemorySize \div PAGE_SIZE
    /\ LET marked == pages_for_first_4mb(total_pages') IN
       /\ memory_map' =
            [w \in Words |->
               IF w < bitmap_size_in_dwords(total_pages')
                 THEN {i % 32 : i \in {j \in marked : j \div 32 = w}}
                 ELSE memory_map[w]]
       /\ used_pages' = Cardinality(marked)
    /\ ready' = TRUE
    /\ UNCHANGED <<ret, held>>

\* Mutant: the last page is never looked at.
pmm_alloc_page_MissesLast ==
    /\ ready
    /\ LET unused == {i \in 0..(total_pages - 2) : ~pmm_is_page_used(i)} IN
       \/ /\ unused = {}
          /\ ret' = NULL
          /\ UNCHANGED <<used_pages, memory_map, held>>
       \/ \E i \in unused :
            /\ \A j \in unused : i <= j
            /\ pmm_set_page(i)
            /\ used_pages' = used_pages + 1
            /\ ret' = i * PAGE_SIZE
            /\ held' = held \cup {i}
    /\ UNCHANGED <<total_pages, ready>>

\* The first page that is not used, or NULL.
pmm_alloc_page ==
    /\ ready
    /\ LET unused == {i \in 0..(total_pages - 1) : ~pmm_is_page_used(i)} IN
       \/ /\ unused = {}
          /\ ret' = NULL
          /\ UNCHANGED <<used_pages, memory_map, held>>
       \/ \E i \in unused :
            /\ \A j \in unused : i <= j
            /\ pmm_set_page(i)
            /\ used_pages' = used_pages + 1
            /\ ret' = i * PAGE_SIZE
            /\ held' = held \cup {i}
    /\ UNCHANGED <<total_pages, ready>>

\* Mutant: the counter goes down even if the page was free already.
pmm_free_page_CountsTwice(page_addr) ==
    /\ ready
    /\ LET page_num == page_addr \div PAGE_SIZE IN
       \/ /\ page_addr = NULL \/ page_num >= total_pages
          /\ UNCHANGED <<used_pages, memory_map, held>>
       \/ /\ page_addr # NULL /\ page_num < total_pages
          /\ pmm_clear_page(page_num)
          /\ used_pages' = used_pages - 1
          /\ held' = held \ {page_num}
    /\ UNCHANGED <<total_pages, ready, ret>>

\* NULL, an address beyond the memory and a page that is free already are
\* ignored.
pmm_free_page(page_addr) ==
    /\ ready
    /\ LET page_num == page_addr \div PAGE_SIZE IN
       \/ /\ \/ page_addr = NULL
             \/ page_num >= total_pages
             \/ ~pmm_is_page_used(page_num)
          /\ UNCHANGED <<used_pages, memory_map, held>>
       \/ /\ page_addr # NULL /\ page_num < total_pages
          /\ pmm_is_page_used(page_num)
          /\ pmm_clear_page(page_num)
          /\ used_pages' = used_pages - 1
          /\ held' = held \ {page_num}
    /\ UNCHANGED <<total_pages, ready, ret>>

\* The clients give back addresses they were given, at times twice, NULL and
\* addresses past the end; never an address in the pages kept for the kernel.
Addresses ==
    {NULL} \cup {n * PAGE_SIZE : n \in
                   0..(MemorySize \div PAGE_SIZE) \ pages_for_first_4mb(MemorySize)}

Next == pmm_init \/ pmm_alloc_page \/ \E a \in Addresses : pmm_free_page(a)

Spec == Init /\ [][Next]_pmmVars

-----------------------------------------------------------------------------
TotalPages == MemorySize \div PAGE_SIZE
Reserved == pages_for_first_4mb(TotalPages)
Used == {i \in 0..(total_pages - 1) : pmm_is_page_used(i)}

\* The statics hold what their types allow.
TypeOK ==
    /\ total_pages \in Nat /\ used_pages \in Nat
    /\ memory_map \in [Words -> SUBSET Bits]
    /\ ready \in BOOLEAN
    /\ ret \in {i * PAGE_SIZE : i \in 0..TotalPages}
    /\ held \subseteq 0..(TotalPages - 1)
    /\ total_pages = IF ready THEN TotalPages ELSE 0

\* The bitmap says exactly who owns what: its bits are the pages kept for the
\* kernel and the pages handed out, and no page is both.
BitmapIsOwnership ==
    IF ready THEN Used = Reserved \cup held /\ Reserved \cap held = {}
             ELSE held = {}

\* used_pages counts the bits that are set.
CountIsBitmap == used_pages = Cardinality(Used)

\* No call writes past the words that pmm_init computes for the bitmap.
WritesStayInBitmap ==
    [][\A w \in Words : 32 * w >= TotalPages => memory_map'[w] = memory_map[w]]_pmmVars

\* The bitmap implements the set of free pages: the first-fit search refuses
\* only when nothing is free, and no page is granted twice or is NULL.
A == INSTANCE PageAllocator WITH
       Pages <- 0..(TotalPages - 1),
       NoPage <- NULL,
       started <- ready,
       free <- IF ready THEN 0..(total_pages - 1) \ Used ELSE {},
       taken <- held,
       answer <- ret \div PAGE_SIZE

ImplementsAllocator == A!AllocSpec
=============================================================================
