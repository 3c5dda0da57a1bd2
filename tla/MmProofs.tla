------------------------------ MODULE MmProofs ------------------------------
(***************************************************************************)
(* Theorems about vm_init() and vm_map_page(), for page tables of any size *)
(* and every layout of the kernel's sections.                              *)
(***************************************************************************)
EXTENDS Mm, Integers, SequenceTheorems, TLAPS

-----------------------------------------------------------------------------
(* Numbers. *)

(* The sizes of the address space. *)
LEMMA Sizes ==
  /\ \A l \in 0..3 : Span(l) \in Nat /\ Span(l) > 0
  /\ HalfSpace \in Nat /\ HalfSpace > 0 /\ HalfSpace < VA_SIZE
  /\ Index # {}
<1> DEFINE N == PTB_ENTRY_COUNT
<1>1. N \in Nat /\ N >= 4
  BY MmAssumption
<1>2. N * N \in Nat /\ N * N >= 4
  BY <1>1
<1>3. N * N * N \in Nat /\ N * N * N >= 4
  BY <1>1, <1>2
<1>4. \A l \in 0..3 : Span(l) \in Nat /\ Span(l) > 0
  BY <1>1, <1>2, <1>3 DEF Span
<1>5. HalfSpace = (N * N * N) \div 2
  BY DEF HalfSpace, Span, PTB_LEVELS
<1>6. VA_SIZE \in Nat /\ VA_SIZE > N * N * N
  BY MmAssumption DEF Span, PTB_LEVELS
<1>7. HalfSpace \in Nat /\ HalfSpace > 0 /\ HalfSpace < VA_SIZE
  <2> HIDE DEF N
  <2> QED
    BY <1>3, <1>5, <1>6
<1> QED
  BY <1>1, <1>4, <1>7 DEF Index

(* The kernel's gigapages are in the upper half of the address space. *)
LEMMA GigapagesFit ==
  /\ KernelGigapages * Span(2) \in Nat
  /\ KernelGigapages * Span(2) <= HalfSpace
  /\ HalfSpace = (PTB_ENTRY_COUNT \div 2) * Span(2)
<1> DEFINE N == PTB_ENTRY_COUNT
           h == N \div 2
           S == N * N
<1>1. N \in Nat /\ h \in Nat /\ N = 2 * h
  BY MmAssumption
<1>2. S \in Nat /\ Span(2) = S /\ Span(3) = N * N * N
  BY <1>1 DEF Span
<1>3. N * N * N = 2 * (h * S)
  BY <1>1
<1>4. h * S \in Nat
  BY <1>1, <1>2
<1>5. HalfSpace = h * S
  <2> DEFINE H == h * S
  <2>1. HalfSpace = (2 * H) \div 2
    BY <1>2, <1>3 DEF HalfSpace, PTB_LEVELS
  <2> HIDE DEF H
  <2>2. HalfSpace = H
    BY <2>1, <1>4 DEF H
  <2> QED
    BY <2>2 DEF H
<1>6. KernelGigapages \in Nat /\ KernelGigapages <= h
  BY <1>1, MmAssumption
<1> HIDE DEF h, S
<1>7. KernelGigapages * S \in Nat /\ KernelGigapages * S <= h * S
  BY <1>1, <1>2, <1>6
<1> QED
  BY <1>2, <1>5, <1>7 DEF h

(* Division and remainder. *)
LEMMA DivideExact ==
  ASSUME NEW x \in Nat, NEW n \in Nat \ {0}, NEW r \in 0..(n - 1)
  PROVE  (x * n + r) \div n = x /\ (x * n + r) % n = r
OBVIOUS

(* Quotient and remainder, as SMT uses them. *)
LEMMA Division ==
  ASSUME NEW x \in Nat, NEW n \in Nat \ {0}
  PROVE  /\ x = (x \div n) * n + (x % n)
         /\ x \div n \in Nat /\ x % n \in 0..(n - 1)
OBVIOUS

(* The gigapages of the direct map are the first ones of the upper half. *)
LEMMA DirectIndex ==
  ASSUME NEW k \in 0..(DirectGigapages - 1)
  PROVE  va_get_index(gigapage(k), 2) = PTB_ENTRY_COUNT \div 2 + k
<1> DEFINE N == PTB_ENTRY_COUNT
           h == N \div 2
           S == Span(2)
           m == VA_SIZE \div Span(3)
           q == (m - 1) * N + (h + k)
<1>1. N \in Nat \ {0} /\ h \in Nat /\ N = 2 * h
  BY MmAssumption
<1>2. S \in Nat \ {0} /\ Span(3) \in Nat \ {0}
  BY Sizes
<1>3. Span(3) = N * S
  BY <1>1 DEF Span
<1>4. VA_SIZE = m * Span(3) /\ m \in Nat /\ m >= 1
  <2>0. VA_SIZE \in Nat
    BY MmAssumption
  <2>1. VA_SIZE = m * Span(3) + (VA_SIZE % Span(3)) /\ m \in Nat
    BY <1>2, <2>0, Division
  <2>2. VA_SIZE % Span(3) = 0 /\ VA_SIZE \in Nat /\ VA_SIZE > Span(3)
    BY MmAssumption DEF PTB_LEVELS
  <2> HIDE DEF m
  <2>3. m * Span(3) \in Nat
    BY <1>2, <2>1
  <2>4. VA_SIZE = m * Span(3)
    BY <2>1, <2>2, <2>3
  <2>5. m # 0
    BY <2>4, <2>2, <1>2
  <2> QED
    BY <2>1, <2>4, <2>5
<1>5. HalfSpace = h * S
  BY GigapagesFit
<1>6. h + k \in 0..(N - 1)
  BY <1>1, MmAssumption
<1> HIDE DEF N, h, S, m
<1>7. gigapage(k) = m * (N * S) - h * S + k * S
  BY <1>3, <1>4, <1>5 DEF gigapage, KERNEL_DIRECT_MAP_START, S
<1>8. q \in Nat
  BY <1>1, <1>4
<1>9. k \in Nat
  BY MmAssumption
<1>10. gigapage(k) = q * S
  <2>1. q * S = ((m - 1) * N) * S + (h + k) * S
    BY <1>1, <1>2, <1>4, <1>9
  <2>2. ((m - 1) * N) * S = m * (N * S) - N * S
    BY <1>1, <1>2, <1>4
  <2>3. (h + k) * S = h * S + k * S
    BY <1>1, <1>2, <1>9
  <2>4. N * S = h * S + h * S
    BY <1>1, <1>2
  <2> DEFINE a == m * (N * S)  b == h * S  c == k * S  d == N * S
  <2>5. a \in Int /\ b \in Int /\ c \in Int /\ d \in Int
    BY <1>1, <1>2, <1>4, <1>9
  <2>6. q * S = a - d + (b + c) /\ d = b + b /\ gigapage(k) = a - b + c
    BY <2>1, <2>2, <2>3, <2>4, <1>7
  <2> HIDE DEF a, b, c, d, q
  <2> QED
    BY <2>5, <2>6
<1>11. gigapage(k) \div S = q
  <2> HIDE DEF q
  <2>1. gigapage(k) = q * S + 0
    BY <1>2, <1>8, <1>10
  <2> QED
    BY <2>1, <1>2, <1>8, DivideExact
<1>12. q % N = h + k
  <2>1. m - 1 \in Nat
    BY <1>4
  <2> QED
    BY <1>1, <1>6, <2>1, DivideExact
<1> QED
  BY <1>11, <1>12 DEF va_get_index, S, N, h

(* The direct map takes entries of the upper half only, and its entries    *)
(* are leaves.                                                             *)
LEMMA DirectEntries ==
  ASSUME NEW idx \in DirectIndexes
  PROVE  idx \in Index /\ idx # 0 /\ DirectEntry(idx) \in PTE /\ DirectEntry(idx).perm # {}
<1>1. PICK k \in 0..(DirectGigapages - 1) : idx = va_get_index(gigapage(k), 2)
  BY DEF DirectIndexes
<1>2. idx = PTB_ENTRY_COUNT \div 2 + k
  BY <1>1, DirectIndex
<1>3. va_get_index(gigapage(0), 2) = PTB_ENTRY_COUNT \div 2
  BY MmAssumption, DirectIndex
<1>4. idx - va_get_index(gigapage(0), 2) \in Nat
  BY <1>2, <1>3, MmAssumption
<1> DEFINE n == (idx - va_get_index(gigapage(0), 2)) * Span(2)
<1>5. n \in Nat
  BY <1>4, Sizes
<1>6. DirectEntry(idx) = Entry(n, {"R", "W", "X"})
  BY DEF DirectEntry
<1> HIDE DEF n
<1>7. DirectEntry(idx) \in PTE /\ DirectEntry(idx).perm # {}
  BY <1>5, <1>6 DEF Entry, PTE
<1>8. idx \in Index /\ idx # 0
  BY <1>2, MmAssumption DEF Index
<1> QED
  BY <1>7, <1>8

(* Dividing twice. *)
LEMMA DivideTwice ==
  ASSUME NEW a \in Nat, NEW x \in Nat \ {0}, NEW y \in Nat \ {0}
  PROVE  (a \div x) \div y = a \div (x * y)
<1> DEFINE q == a \div x
           r == a % x
           u == q \div y
           w == q % y
<1>1. a = q * x + r /\ q \in Nat /\ r \in 0..(x - 1)
  BY Division
<1> HIDE DEF q, r
<1>2. q = u * y + w /\ u \in Nat /\ w \in 0..(y - 1)
  BY <1>1, Division
<1> HIDE DEF u, w
<1>3. w * x + r \in 0..(x * y - 1)
  <2>1. w * x \in Nat /\ w * x <= (y - 1) * x
    BY <1>2
  <2>2. (y - 1) * x = x * y - x /\ x * y \in Nat
    OBVIOUS
  <2> DEFINE b == w * x  c == x * y  d == (y - 1) * x
  <2>3. b \in Nat /\ b <= d /\ d = c - x /\ c \in Nat
    BY <2>1, <2>2
  <2> HIDE DEF b, c, d
  <2>4. b + r \in 0..(c - 1)
    BY <1>1, <2>3
  <2> QED
    BY <2>4 DEF b, c
<1>4. a = u * (x * y) + (w * x + r)
  <2>1. a = (u * y + w) * x + r
    BY <1>1, <1>2
  <2>2. (u * y + w) * x = (u * y) * x + w * x
    BY <1>2
  <2>3. (u * y) * x = u * (x * y)
    BY <1>2
  <2>4. w * x \in Nat /\ u * (x * y) \in Nat
    BY <1>2
  <2> DEFINE b == w * x  c == u * (x * y)
  <2>5. a = c + b + r /\ b \in Nat /\ c \in Nat
    BY <2>1, <2>2, <2>3, <2>4
  <2> HIDE DEF b, c
  <2>6. a = c + (b + r)
    BY <1>1, <2>5
  <2> QED
    BY <2>6 DEF b, c
<1>5. x * y \in Nat \ {0}
  OBVIOUS
<1>6. a \div (x * y) = u
  <2> DEFINE c == x * y  e == w * x + r
  <2>1. c \in Nat \ {0} /\ e \in 0..(c - 1) /\ a = u * c + e
    BY <1>3, <1>4, <1>5
  <2> HIDE DEF c, e
  <2>2. a \div c = u
    BY <1>2, <2>1, DivideExact
  <2> QED
    BY <2>2 DEF c
<1> QED
  BY <1>6 DEF u, q

(* An index is within the table. *)
LEMMA IndexInTable ==
  ASSUME NEW a \in Nat, NEW l \in 0..3 PROVE va_get_index(a, l) \in Index
<1>1. a \div Span(l) \in Nat
  BY Sizes
<1> QED
  BY <1>1, MmAssumption DEF va_get_index, Index

-----------------------------------------------------------------------------
(* Types. *)

Perms   == SUBSET {"R", "W", "X"}
Request == (0..(VA_SIZE - 1)) \X Nat \X Perms

KmapOK ==
  /\ kmap \in [1..5 -> Nat]
  /\ kmap[1] \in KernelStarts
  /\ \A s \in 1..4 : kmap[s] <= kmap[s + 1]
  /\ kmap[5] <= kmap[1] + MaxKernelPages

(* The type invariant and what it needs to be inductive: there are calls   *)
(* left to make while pc says so, and the root table is the first page     *)
(* that is allocated.                                                      *)
TInv ==
  /\ TypeOK
  /\ KmapOK
  /\ todo \in Seq(Request)
  /\ pc = "map" => todo # <<>>
  /\ pc = "root" => next = 0
  /\ pc \in {"alloc_init", "root"} => level = Done

(* A canonical address is one the hardware translates. *)
LEMMA CanonicalVA == ASSUME NEW a \in 0..(VA_SIZE - 1), Canonical(a) PROVE a \in VAs
  BY Sizes, MmAssumption DEF Canonical, VAs

(* A pointer reaches a page of RAM or none. *)
LEMMA DerefInRam == ASSUME NEW a PROVE Deref(a) \in RamPages \cup {NoPage}
  BY DEF Deref

(* What a pointer never set points at is no page of RAM. *)
LEMMA NoPageNotRam == NoPage \notin RamPages /\ RamPages \subseteq Nat
  BY MmAssumption, Sizes DEF NoPage, KERNEL_DIRECT_MAP_SIZE, PTB_LEVELS

(* A call starts the loop with an address the hardware translates.         *)
LEMMA CallTypes ==
  ASSUME TypeOK, NEW v \in 0..(VA_SIZE - 1), NEW p \in Nat, NEW f \in Perms, NEW b \in BOOLEAN,
         Call(v, p, f, b)
  PROVE  /\ va' \in VAs /\ pa' \in Nat /\ flags' \in Perms
         /\ level' \in 0..Done /\ ptb' \in Nat
         /\ panicked' \in BOOLEAN
<1>1. CASE b /\ Canonical(v)
  BY <1>1, CanonicalVA DEF Call, TypeOK, AllocTypeOK, Done, PTB_LEVELS
<1>2. CASE ~(b /\ Canonical(v))
  <2>1. panicked' \in BOOLEAN
    BY <1>2, Zenon DEF Call, BUG
  <2> QED
    BY <1>2, <2>1 DEF Call, TypeOK, mapVars, Perms
<1> QED
  BY <1>1, <1>2

(* The pages of the sections are legal arguments. *)
LEMMA SectionTypes ==
  ASSUME KmapOK, NEW s \in 1..4 PROVE SectionPages(s) \in Seq(Request)
<1>1. kmap[s] \in Nat /\ kmap[s + 1] \in Nat /\ kmap[s] <= kmap[s + 1]
  BY DEF KmapOK
<1>2. kmap[s + 1] <= kmap[5]
  BY DEF KmapOK
<1>3. kmap[5] <= KernelGigapages * Span(2)
  <2>1. kmap[1] + MaxKernelPages <= KernelGigapages * Span(2)
    BY MmAssumption DEF KmapOK, PTB_LEVELS
  <2> DEFINE G == KernelGigapages * Span(2)
  <2>2. G \in Nat
    BY Sizes, MmAssumption
  <2> HIDE DEF G
  <2> QED
    BY <2>1, <2>2, MmAssumption DEF KmapOK, G
<1>4. \A k \in 1..(kmap[s + 1] - kmap[s]) :
        <<kmap[s] + k - 1 + KERNEL_PHYS_OFFSET, kmap[s] + k - 1, Sections[s]>> \in Request
  <2> SUFFICES ASSUME NEW k \in 1..(kmap[s + 1] - kmap[s])
               PROVE  <<kmap[s] + k - 1 + KERNEL_PHYS_OFFSET, kmap[s] + k - 1, Sections[s]>>
                        \in Request
    OBVIOUS
  <2> DEFINE G == KernelGigapages * Span(2)
  <2>1. G \in Nat /\ KERNEL_PHYS_OFFSET = VA_SIZE - G
    BY Sizes, MmAssumption DEF KERNEL_PHYS_OFFSET, PTB_LEVELS
  <2>2. G <= VA_SIZE
    BY GigapagesFit, Sizes, MmAssumption
  <2>6. kmap[5] <= G
    BY <1>3
  <2> HIDE DEF G
  <2>7. kmap[5] \in Nat
    BY DEF KmapOK
  <2>3. kmap[s] + k - 1 \in Nat /\ kmap[s] + k - 1 < G
    BY <1>1, <1>2, <2>1, <2>6, <2>7
  <2>4. kmap[s] + k - 1 + KERNEL_PHYS_OFFSET \in 0..(VA_SIZE - 1)
    BY <2>1, <2>2, <2>3, MmAssumption
  <2>5. Sections[s] \in Perms
    BY DEF Sections, Perms
  <2> QED
    BY <2>3, <2>4, <2>5 DEF Request
<1> QED
  BY <1>1, <1>4 DEF SectionPages

(* Init establishes TInv. *)
LEMMA InitTypes == ASSUME Init PROVE TInv
<1>1. KmapOK
  <2> PICK first \in KernelStarts,
           ends \in {e \in [2..5 -> 0..MaxKernelPages] : \A s \in 2..4 : e[s] <= e[s + 1]} :
             kmap = [s \in 1..5 |-> IF s = 1 THEN first ELSE first + ends[s]]
    BY DEF Init, Layouts
  <2>1. first \in Nat
    BY NoPageNotRam, MmAssumption
  <2>2. kmap \in [1..5 -> Nat] /\ kmap[1] = first
    BY <2>1, MmAssumption
  <2>3. \A s \in 1..4 : kmap[s] <= kmap[s + 1]
    BY <2>1, MmAssumption
  <2>4. kmap[5] <= kmap[1] + MaxKernelPages
    BY <2>1, MmAssumption
  <2> QED
    BY <2>2, <2>3, <2>4 DEF KmapOK
<1>2. mem \in [RamPages -> [Index -> PTE]]
  BY GarbageAssumption DEF Init, ZeroPage, ZeroPTE, PTE
<1>3. va \in VAs
  BY Sizes DEF Init, VAs
<1>4. todo \in Seq(Request)
  BY DEF Init
<1>5. AllocTypeOK
  BY AllocAssumption DEF Init, AllocTypeOK, AllocInit, ListIndex
<1>6. TypeOK
  BY <1>2, <1>3, <1>5 DEF Init, TypeOK, Done, PTB_LEVELS
<1> QED
  BY <1>1, <1>4, <1>6 DEF Init, TInv, AllocInit

(* An address the hardware translates is a number within the bounds. *)
LEMMA VAsNat == VAs \subseteq 0..(VA_SIZE - 1)
  BY Sizes, MmAssumption DEF VAs

(* What pte_create() returns is an entry. *)
LEMMA EntryType ==
  ASSUME NEW n \in Nat, NEW f \in Perms PROVE Entry(n, f) \in PTE
  BY DEF Entry, PTE, Perms

(* The entry vm_map_page() looks at. *)
LEMMA PteType ==
  ASSUME TypeOK, Table # NoPage, InLoop
  PROVE  /\ Table \in RamPages /\ va_get_index(va, level) \in Index
         /\ Pte \in PTE /\ Pte.ppn \in Nat
<1>1. Table \in RamPages
  BY DerefInRam DEF Table
<1>2. va_get_index(va, level) \in Index
  BY IndexInTable, VAsNat DEF TypeOK, InLoop, PTB_LEVELS
<1>3. Pte \in PTE
  BY <1>1, <1>2 DEF TypeOK, Pte
<1> QED
  BY <1>1, <1>2, <1>3 DEF PTE

(* A free page can be taken. *)
LEMMA GetTypes ==
  ASSUME AllocTypeOK, next # ALLOC_LIST_SIZE - 1, alloc_get_page,
         bug_behavior' = bug_behavior, panicked' \in BOOLEAN
  PROVE  AllocTypeOK' /\ FreePage \in Nat
  BY AllocAssumption DEF AllocTypeOK, alloc_get_page, ListIndex, FreePage

(* The loop of vm_map_page() keeps the types. *)
LEMMA LoopTypes == ASSUME TInv, vm_map_page PROVE TInv'
<1> USE DEF TInv
<1>1. CASE MapFaults
  BY <1>1 DEF MapFaults, TypeOK, AllocTypeOK, KmapOK, allocVars, bugVars, mapVars, VAs, PTE
<1>2. CASE MapLeaf
  <2>1. /\ UNCHANGED <<list, next, initialized, bug_behavior, kmap, kernel_root_ptb, satp, pc,
                       todo, va, pa, flags, ptb>>
        /\ level' = Done /\ level = 0 /\ InLoop /\ Table # NoPage
    BY <1>2 DEF MapLeaf, allocVars, Loop
  <2>2. panicked' \in BOOLEAN
    BY <1>2, Zenon DEF MapLeaf, BUG, TypeOK, AllocTypeOK
  <2>3. mem' \in [RamPages -> [Index -> PTE]]
    <3>1. Entry(pa, flags) \in PTE
      BY EntryType DEF TypeOK, Perms
    <3>2. Table \in RamPages /\ va_get_index(va, 0) \in Index
      BY <2>1, PteType
    <3> QED
      BY <1>2, <3>1, <3>2 DEF MapLeaf, TypeOK
  <2>4. AllocTypeOK'
    BY <2>1, <2>2 DEF TypeOK, AllocTypeOK, ListIndex
  <2>5. TypeOK'
    BY <2>1, <2>3, <2>4 DEF TypeOK, Done, PTB_LEVELS, VAs, PTE, Index
  <2> QED
    BY <2>1, <2>5 DEF KmapOK
<1>3. CASE MapNewTable
  <2>1. /\ UNCHANGED <<bug_behavior, kmap, kernel_root_ptb, satp, todo, va, pa, flags>>
        /\ InLoop /\ level > 0 /\ Table # NoPage
    BY <1>3 DEF MapNewTable, Loop
  <2>2. panicked' \in BOOLEAN
    BY <1>3, Zenon DEF MapNewTable, BUG, TypeOK, AllocTypeOK
  <2>3. CASE GetFails
    BY <1>3, <2>1, <2>2, <2>3 DEF MapNewTable, TypeOK, AllocTypeOK, KmapOK, allocVars, VAs, PTE
  <2>4. CASE ~GetFails
    <3>1. AllocTypeOK' /\ FreePage \in Nat
      BY <1>3, <2>1, <2>2, <2>4, GetTypes DEF MapNewTable, GetFails, Exhausted, TypeOK
    <3>2. mem' \in [RamPages -> [Index -> PTE]]
      <4>1. CASE Deref(FreePage) = NoPage
        BY <1>3, <2>4, <4>1 DEF MapNewTable, TypeOK
      <4>2. CASE Deref(FreePage) # NoPage
        <5>1. Deref(FreePage) \in RamPages
          BY <4>2, DerefInRam
        <5>2. Table \in RamPages /\ va_get_index(va, level) \in Index
          BY <2>1, PteType
        <5>3. Entry(FreePage, {}) \in PTE
          BY <3>1, EntryType DEF Perms
        <5>4. ZeroPage \in [Index -> PTE]
          BY DEF ZeroPage, ZeroPTE, PTE
        <5> DEFINE D  == Deref(FreePage)
                   i  == va_get_index(va, level)
                   m1 == [mem EXCEPT ![D] = ZeroPage]
        <5>5. mem' = [mem EXCEPT ![D] = ZeroPage, ![Table][i] = Entry(FreePage, {})]
          BY <1>3, <2>4, <4>2 DEF MapNewTable
        <5>6. m1 \in [RamPages -> [Index -> PTE]]
          BY <5>4 DEF TypeOK
        <5>7. mem' = [m1 EXCEPT ![Table][i] = Entry(FreePage, {})]
          BY <5>5
        <5> HIDE DEF m1, i, D
        <5> QED
          BY <5>2, <5>3, <5>6, <5>7 DEF i
      <4> QED
        BY <4>1, <4>2
    <3>3. level' \in 0..Done /\ ptb' \in Nat /\ (pc' = pc \/ pc' = "fault")
      <4>1. pte_next_ptb(Entry(FreePage, {})) \in Nat
        BY <3>1, MmAssumption DEF pte_next_ptb, pte_get_ppn, Entry
      <4> QED
        BY <1>3, <2>1, <2>4, <4>1 DEF MapNewTable, TypeOK, InLoop, Done, PTB_LEVELS
    <3>4. TypeOK'
      BY <2>1, <3>1, <3>2, <3>3 DEF TypeOK, VAs, PTE, Index
    <3>5. pc \notin {"alloc_init", "root"}
      BY <2>1 DEF InLoop, Done, PTB_LEVELS
    <3> QED
      BY <2>1, <3>3, <3>4, <3>5 DEF KmapOK
  <2> QED
    BY <2>3, <2>4
<1>4. CASE MapDescend
  <2>1. /\ UNCHANGED <<list, next, initialized, bug_behavior, panicked, kmap, mem,
                       kernel_root_ptb, satp, pc, todo, va, pa, flags>>
        /\ InLoop /\ level > 0 /\ Table # NoPage
        /\ ptb' = pte_next_ptb(Pte) /\ level' = level - 1
    BY <1>4 DEF MapDescend, Loop, allocVars, bugVars
  <2>2. ptb' \in Nat
    BY <2>1, PteType, MmAssumption DEF pte_next_ptb, pte_get_ppn
  <2>3. level' \in 0..Done /\ pc \notin {"alloc_init", "root"}
    BY <2>1 DEF InLoop, Done, PTB_LEVELS
  <2>4. AllocTypeOK'
    BY <2>1 DEF TypeOK, AllocTypeOK
  <2> QED
    BY <2>1, <2>2, <2>3, <2>4 DEF TypeOK, KmapOK, VAs, PTE
<1> QED
  BY <1>1, <1>2, <1>3, <1>4 DEF vm_map_page

(* The calls vm_init() has to make are legal. *)
LEMMA TodoTypes ==
  ASSUME KmapOK
  PROVE  SectionPages(1) \o SectionPages(2) \o SectionPages(3) \o SectionPages(4)
           \o << <<SERIAL, SERIAL, {"R", "W"}>> >> \in Seq(Request) \ {<<>>}
<1> DEFINE serial == << <<SERIAL, SERIAL, {"R", "W"}>> >>
<1>1. \A s \in 1..4 : SectionPages(s) \in Seq(Request)
  BY SectionTypes
<1>2. serial \in Seq(Request) /\ Len(serial) = 1
  BY Sizes, MmAssumption DEF Request, Perms
<1> HIDE DEF serial
<1>3. \A a, b \in Seq(Request) :
        a \o b \in Seq(Request) /\ Len(a \o b) = Len(a) + Len(b)
  OBVIOUS
<1>4. SectionPages(1) \o SectionPages(2) \in Seq(Request)
  BY <1>1, <1>3
<1>5. SectionPages(1) \o SectionPages(2) \o SectionPages(3) \in Seq(Request)
  BY <1>1, <1>3, <1>4
<1> DEFINE all == SectionPages(1) \o SectionPages(2) \o SectionPages(3) \o SectionPages(4)
<1>6. all \in Seq(Request)
  BY <1>1, <1>3, <1>5
<1> HIDE DEF all
<1>7. all \o serial \in Seq(Request) /\ Len(all \o serial) = Len(all) + 1
  BY <1>2, <1>3, <1>6
<1>8. all \o serial # <<>>
  BY <1>6, <1>7
<1> QED
  BY <1>7, <1>8 DEF all, serial

(* pa_to_va() and va_to_pa() give an address whatever they are given. *)
LEMMA PaToVaNat == ASSUME NEW a \in Nat PROVE pa_to_va(a) \in Nat /\ va_to_pa(a) \in Nat
  BY Sizes, MmAssumption
  DEF pa_to_va, va_to_pa, KERNEL_DIRECT_MAP_START, KERNEL_DIRECT_MAP_END

(* The steps of vm_init() between the calls keep the types. *)
LEMMA InitStepTypes == ASSUME TInv, vm_init PROVE TInv'
<1> USE DEF TInv
<1>1. CASE EarlyAlloc
  <2>1. AllocTypeOK'
    BY <1>1, AllocAssumption, SMTT(30)
    DEF EarlyAlloc, alloc_init, TypeOK, AllocTypeOK, bugVars, KmapOK, kernel_end, ListIndex
  <2> QED
    BY <1>1, <2>1
    DEF EarlyAlloc, Step, alloc_init, TypeOK, KmapOK, mapVars, InLoop, Done, PTB_LEVELS, VAs, PTE
<1>2. CASE RootTable
  <2>1. AllocTypeOK' /\ FreePage \in Nat
    BY <1>2, GetTypes, AllocAssumption, MmAssumption
    DEF RootTable, Step, TypeOK, AllocTypeOK, bugVars
  <2>2. todo' \in Seq(Request) \ {<<>>}
    BY <1>2, TodoTypes DEF RootTable
  <2> QED
    BY <1>2, <2>1, <2>2 DEF RootTable, Step, TypeOK, KmapOK, mapVars, VAs, PTE
<1>3. CASE MapNext
  <2>1. pc = "map" /\ todo # <<>>
    BY <1>3 DEF MapNext, Step
  <2>2. todo[1] \in Request /\ Tail(todo) \in Seq(Request)
    BY <2>1
  <2>3. todo[1][1] \in 0..(VA_SIZE - 1) /\ todo[1][2] \in Nat /\ todo[1][3] \in Perms
    BY <2>2 DEF Request
  <2>4. Call(todo[1][1], todo[1][2], todo[1][3], TRUE)
    BY <1>3 DEF MapNext
  <2>5. /\ va' \in VAs /\ pa' \in Nat /\ flags' \in Perms
        /\ level' \in 0..Done /\ ptb' \in Nat /\ panicked' \in BOOLEAN
    BY <2>3, <2>4, CallTypes
  <2>6. AllocTypeOK'
    BY <1>3, <2>5 DEF MapNext, allocVars, TypeOK, AllocTypeOK
  <2>7. TypeOK'
    BY <1>3, <2>5, <2>6 DEF MapNext, Step, TypeOK, Perms, PTE, Index
  <2> QED
    BY <1>3, <2>2, <2>7 DEF MapNext, Step, KmapOK
<1>4. CASE vm_init_kernel_direct_map
  <2>1. mem' \in [RamPages -> [Index -> PTE]]
    <3>1. \A idx \in DirectIndexes \cap Index : DirectEntry(idx) \in PTE
      BY DirectEntries
    <3> DEFINE row == [idx \in Index |-> IF idx \in DirectIndexes THEN DirectEntry(idx)
                                         ELSE mem[kernel_root_ptb][idx]]
    <3>2. CASE kernel_root_ptb \in RamPages
      <4>1. row \in [Index -> PTE]
        BY <3>1, <3>2 DEF TypeOK
      <4>2. mem' = [mem EXCEPT ![kernel_root_ptb] = row]
        BY <1>4 DEF vm_init_kernel_direct_map
      <4> HIDE DEF row
      <4> QED
        BY <4>1, <4>2 DEF TypeOK
    <3>3. CASE kernel_root_ptb \notin RamPages
      BY <1>4, <3>3 DEF vm_init_kernel_direct_map, TypeOK
    <3> QED
      BY <3>2, <3>3
  <2>2. AllocTypeOK'
    BY <1>4 DEF vm_init_kernel_direct_map, allocVars, bugVars, TypeOK, AllocTypeOK
  <2> QED
    BY <1>4, <2>1, <2>2
    DEF vm_init_kernel_direct_map, Step, TypeOK, KmapOK, mapVars, VAs, PTE, Index
<1>5. CASE MapNull
  <2>1. Call(0, 0, {}, TRUE) /\ 0 \in 0..(VA_SIZE - 1) /\ {} \in Perms
    <3>1. 0 \in 0..(VA_SIZE - 1)
      BY Sizes, MmAssumption
    <3>2. {} \in Perms
      BY DEF Perms
    <3> QED
      BY <1>5, <3>1, <3>2, Zenon DEF MapNull
  <2>2. /\ va' \in VAs /\ pa' \in Nat /\ flags' \in Perms
        /\ level' \in 0..Done /\ ptb' \in Nat /\ panicked' \in BOOLEAN
    BY <2>1, CallTypes
  <2>3. AllocTypeOK'
    BY <1>5, <2>2 DEF MapNull, allocVars, TypeOK, AllocTypeOK
  <2> QED
    BY <1>5, <2>2, <2>3 DEF MapNull, Step, TypeOK, KmapOK, Perms, PTE
<1>6. CASE MoveAlloc
  <2>1. FreePage \in Nat /\ kernel_root_ptb \in Nat
    BY DEF FreePage, TypeOK, AllocTypeOK
  <2>2. kernel_root_ptb' \in Nat
    BY <1>6, <2>1, PaToVaNat DEF MoveAlloc
  <2>3. panicked' \in BOOLEAN
    BY <1>6, Zenon DEF MoveAlloc, BUG, TypeOK, AllocTypeOK
  <2>4. AllocTypeOK'
    <3>1. CASE GetFails
      BY <1>6, <2>3, <3>1 DEF MoveAlloc, allocVars, TypeOK, AllocTypeOK
    <3>2. CASE ~GetFails
      <4>1. alloc_init(pa_to_va(FreePage)) /\ bug_behavior' = bug_behavior
        BY <1>6, <3>2 DEF MoveAlloc
      <4>2. pa_to_va(FreePage) \in Nat
        BY <2>1, PaToVaNat
      <4> QED
        BY <2>3, <4>1, <4>2, AllocAssumption DEF alloc_init, TypeOK, AllocTypeOK, ListIndex
    <3> QED
      BY <3>1, <3>2
  <2> QED
    BY <1>6, <2>2, <2>4 DEF MoveAlloc, Step, TypeOK, KmapOK, mapVars, VAs, PTE
<1>7. CASE WriteSatp
  <2>1. satp' \in Nat
    BY <1>7, PaToVaNat DEF WriteSatp, TypeOK
  <2>2. AllocTypeOK'
    BY <1>7 DEF WriteSatp, allocVars, bugVars, TypeOK, AllocTypeOK
  <2> QED
    BY <1>7, <2>1, <2>2 DEF WriteSatp, Step, TypeOK, KmapOK, mapVars, VAs, PTE
<1> QED
  BY <1>1, <1>2, <1>3, <1>4, <1>5, <1>6, <1>7 DEF vm_init

(* A later call keeps the types, whatever its arguments. *)
LEMMA LaterTypes == ASSUME TInv, MapLater PROVE TInv'
<1> USE DEF TInv
<1>1. PICK c \in LaterCalls, b \in BOOLEAN : Call(c[1], c[2], c[3], b)
  BY DEF MapLater
<1>2. c[1] \in 0..(VA_SIZE - 1) /\ c[2] \in Nat /\ c[3] \in Perms
  BY LaterAssumption DEF Perms
<1>4. /\ va' \in VAs /\ pa' \in Nat /\ flags' \in Perms
      /\ level' \in 0..Done /\ ptb' \in Nat /\ panicked' \in BOOLEAN
  BY <1>1, <1>2, CallTypes
<1>5. AllocTypeOK'
  BY <1>4 DEF MapLater, allocVars, TypeOK, AllocTypeOK
<1>6. TypeOK'
  BY <1>4, <1>5 DEF MapLater, Step, TypeOK, Perms, PTE, Index
<1> QED
  BY <1>6 DEF MapLater, Step, KmapOK

(* So does a reset. *)
LEMMA ResetTypes == ASSUME TInv, Reset PROVE TInv'
<1> USE DEF TInv
<1>1. mem' \in [RamPages -> [Index -> PTE]]
  <2>1. ZeroPage \in [Index -> PTE]
    BY DEF ZeroPage, ZeroPTE, PTE
  <2> QED
    BY <2>1 DEF Reset, TypeOK
<1>2. AllocTypeOK'
  <2>1. /\ list' = [k \in ListIndex |-> 0] /\ next' = 0 /\ initialized' = FALSE
        /\ bug_behavior' = "BUG_PANIC" /\ panicked' = FALSE
    BY DEF Reset
  <2> QED
    <3>1. list' \in [ListIndex -> Nat]
      BY <2>1
    <3>2. next' \in ListIndex
      BY <2>1, AllocAssumption DEF ListIndex
    <3>3. /\ initialized' \in BOOLEAN /\ panicked' \in BOOLEAN
          /\ bug_behavior' \in {"BUG_PANIC", "BUG_LOG"}
      BY <2>1
    <3> QED
      BY <3>1, <3>2, <3>3 DEF AllocTypeOK, ListIndex
<1>3. va' \in VAs
  BY Sizes DEF Reset, VAs
<1>4. TypeOK'
  BY <1>1, <1>2, <1>3 DEF Reset, TypeOK, Done, PTB_LEVELS
<1> QED
  BY <1>4 DEF Reset, KmapOK

(* The inductive invariant of the types. *)
LEMMA TypeInvariance == Spec => []TInv
<1>1. Init => TInv
  BY InitTypes
<1>2. TInv /\ [Next]_vars => TInv'
  <2> SUFFICES ASSUME TInv, [Next]_vars PROVE TInv'
    OBVIOUS
  <2>1. CASE UNCHANGED vars
    <3>1. UNCHANGED <<list, next, initialized, bug_behavior, panicked, kmap, mem,
                      kernel_root_ptb, satp, pc, todo, va, pa, flags, level, ptb>>
      BY <2>1 DEF vars, allocVars, bugVars, mapVars
    <3>2. AllocTypeOK'
      BY <3>1 DEF TInv, TypeOK, AllocTypeOK
    <3>3. TypeOK'
      BY <3>1, <3>2 DEF TInv, TypeOK, VAs, PTE, Index
    <3> QED
      BY <3>1, <3>3 DEF TInv, KmapOK
  <2> QED
    BY <2>1, LoopTypes, InitStepTypes, LaterTypes, ResetTypes DEF Next
<1> QED
  BY <1>1, <1>2, PTL DEF Spec

(* For tables of any size, at any point of vm_init(), of later calls of    *)
(* vm_map_page() and after any number of resets with any contents of RAM,  *)
(* tables hold entries only, the allocator's index is within its list, and *)
(* vm_map_page() works on canonical addresses.                             *)
THEOREM TypeCorrect == Spec => []TypeOK
<1>1. TInv => TypeOK
  BY DEF TInv
<1> QED
  BY <1>1, TypeInvariance, PTL

-----------------------------------------------------------------------------
(* The first boot, until the tables are turned on. *)

FirstBoot == resets = 0 /\ satp = 0

KernelPages == kmap[1]..(kmap[5] - 1)

(* The n pages behind the kernel have been taken for page tables. *)
Taken(n) == kernel_end..(kernel_end + n - 1)

(* The allocator's list, before and after it moves to the direct map, when *)
(* n pages have been taken from the first one.                             *)
EarlyList(n) ==
  next = n /\ \A k \in next..(ALLOC_LIST_SIZE - 1) : list[k] = kernel_end + k
MovedList(n) ==
  next = 0 /\ \A k \in ListIndex : list[k] = pa_to_va(kernel_end + n) + k

(* The place of a table in the tree: the indexes on the way to it.         *)
Child(x, k) == x * PTB_ENTRY_COUNT + k
Prefix(a, l) ==
  CASE l = 2 -> 0
    [] l = 1 -> Child(0, va_get_index(a, 2))
    [] l = 0 -> Child(Child(0, va_get_index(a, 2)), va_get_index(a, 1))

(* Every table has a level, lev, and a place, pre; the root has level 2,   *)
(* and an entry that is not a leaf leads to a table of the next lower      *)
(* level.  Only the direct map has leaves above level 0, and not in entry  *)
(* 0, which is all the last call goes through.                             *)
Levels(n, lev, pre) ==
  /\ \A p \in Taken(n) : lev[p] = 2 <=> p = kernel_end
  /\ pre[kernel_end] = 0
  /\ \A p \in Taken(n) \cap RamPages : lev[p] > 0 =>
       \A k \in Index : mem[p][k].valid =>
         IF mem[p][k].perm = {}
         THEN /\ mem[p][k].ppn \in Taken(n) /\ lev[mem[p][k].ppn] = lev[p] - 1
              /\ pre[mem[p][k].ppn] = Child(pre[p], k)
         ELSE p = kernel_end /\ k # 0 /\ pc \notin {"map", "direct"}

(* The entries of level 0 are those vm_map_page() was called for. *)
Leaves(n, lev, pre) ==
  \A p \in Taken(n) \cap RamPages : lev[p] = 0 =>
    \A k \in Index : mem[p][k].valid =>
      \E t \in mapped : Prefix(t[1], 0) = pre[p] /\ va_get_index(t[1], 0) = k

(* vm_map_page() is at the table of its level and of its address. *)
AtLevel(n, lev, pre) ==
  InLoop /\ pc # "fault" =>
    /\ ptb \in Taken(n) /\ lev[ptb] = level /\ pre[ptb] = Prefix(va, level)
    /\ pc \in {"map", "direct", "move"} /\ (pc = "move" => va = 0)

Building(n, lev, pre) ==
  /\ EarlyList(n) \/ (pc = "satp" /\ MovedList(n))
  /\ kernel_root_ptb = IF pc = "satp" THEN pa_to_va(kernel_end) ELSE kernel_end
  /\ Levels(n, lev, pre)
  /\ Leaves(n, lev, pre)
  /\ AtLevel(n, lev, pre)

(* The inductive invariant of the first boot. *)
BootInv ==
  FirstBoot =>
    /\ KernelNotOverwritten
    /\ pc # "done"
    /\ pc \in {"alloc_init", "root"} =>
         mem = [p \in RamPages |-> ZeroPage] /\ kernel_root_ptb = 0
    /\ initialized = (pc # "alloc_init")
    /\ pc = "root" => \A k \in ListIndex : list[k] = kernel_end + k
    /\ pc \notin {"alloc_init", "root"} =>
         \E n \in 1..(ALLOC_LIST_SIZE - 1) :
           \E lev \in [Taken(n) -> 0..2], pre \in [Taken(n) -> Nat] : Building(n, lev, pre)

(* The direct map fits into the upper half, and a page number of the       *)
(* hardware is wide enough for the lower half and too narrow for an        *)
(* address of the upper one.                                               *)
LEMMA SpacesFit ==
  /\ KERNEL_DIRECT_MAP_SIZE \in Nat /\ KERNEL_DIRECT_MAP_SIZE <= HalfSpace
  /\ 2 * HalfSpace <= PPN_SIZE /\ 2 * PPN_SIZE <= VA_SIZE
  /\ KERNEL_DIRECT_MAP_START \in Nat /\ HalfSpace <= KERNEL_DIRECT_MAP_START
  /\ KERNEL_DIRECT_MAP_START = VA_SIZE - HalfSpace
  /\ HalfSpace \in Nat \ {0} /\ PPN_SIZE \in Nat \ {0} /\ VA_SIZE \in Nat
<1> DEFINE N == PTB_ENTRY_COUNT
           h == N \div 2
           S == Span(2)
           D == KERNEL_DIRECT_MAP_SIZE
<1>1. N \in Nat \ {0} /\ h \in Nat /\ N = 2 * h
  BY MmAssumption
<1>2. S \in Nat \ {0} /\ Span(3) = N * S
  BY <1>1, Sizes DEF Span
<1>3. HalfSpace = h * S /\ D = DirectGigapages * S
  BY GigapagesFit DEF KERNEL_DIRECT_MAP_SIZE, PTB_LEVELS
<1>4. DirectGigapages \in Nat /\ DirectGigapages <= h
  BY <1>1, MmAssumption
<1> HIDE DEF N, h, S, D
<1>5. D \in Nat /\ D <= HalfSpace
  BY <1>1, <1>2, <1>3, <1>4
<1>6. Span(3) = 2 * HalfSpace
  BY <1>1, <1>2, <1>3
<1>7. /\ HalfSpace \in Nat \ {0} /\ PPN_SIZE \in Nat \ {0} /\ VA_SIZE \in Nat
      /\ PPN_SIZE >= Span(3) /\ VA_SIZE > PPN_SIZE /\ VA_SIZE % PPN_SIZE = 0
  BY Sizes, MmAssumption DEF PTB_LEVELS
<1>8. 2 * PPN_SIZE <= VA_SIZE
  <2> DEFINE q == VA_SIZE \div PPN_SIZE
             P == PPN_SIZE
             V == VA_SIZE
  <2>1. V = q * P + (V % P) /\ q \in Nat
    BY <1>7, Division
  <2>2. P \in Nat \ {0} /\ V \in Nat /\ V > P /\ V % P = 0
    BY <1>7
  <2> HIDE DEF q, P, V
  <2>3. V = q * P
    BY <2>1, <2>2
  <2>4. q >= 2
    <3>1. q # 0 /\ q # 1
      BY <2>2, <2>3
    <3> QED
      BY <2>1, <3>1
  <2>5. q * P >= 2 * P
    BY <2>1, <2>2, <2>4
  <2> QED
    BY <2>3, <2>5 DEF P, V
<1>9. KERNEL_DIRECT_MAP_START = VA_SIZE - HalfSpace
  BY DEF KERNEL_DIRECT_MAP_START
<1> QED
  BY <1>5, <1>6, <1>7, <1>8, <1>9 DEF D

(* Where the kernel is. *)
LEMMA KernelPlace ==
  ASSUME KmapOK
  PROVE  /\ kernel_end \in RamPages /\ kernel_end \in Nat \ {0}
         /\ kernel_end \in 0..KERNEL_DIRECT_MAP_SIZE
         /\ kernel_end + ALLOC_LIST_SIZE <= KERNEL_DIRECT_MAP_SIZE
         /\ kernel_end + ALLOC_LIST_SIZE <= KERNEL_DIRECT_MAP_START
         /\ kernel_end + ALLOC_LIST_SIZE <= PPN_SIZE
         /\ KernelPages \subseteq RamPages /\ KernelPages \subseteq 1..(kernel_end - 1)
<1> DEFINE first == kmap[1]
<1>1. first \in KernelStarts /\ kmap[5] \in Nat /\ kmap[5] <= first + MaxKernelPages
  BY DEF KmapOK
<1>2. first <= kmap[5]
  BY DEF KmapOK
<1>3. first \in Nat /\ MaxKernelPages \in Nat /\ ALLOC_LIST_SIZE \in Nat
  BY MmAssumption, AllocAssumption, NoPageNotRam, <1>1
<1>4. first..(first + MaxKernelPages) \subseteq RamPages
  BY <1>1, MmAssumption
<1>5. /\ first + MaxKernelPages + ALLOC_LIST_SIZE <= KERNEL_DIRECT_MAP_SIZE
      /\ first + MaxKernelPages + ALLOC_LIST_SIZE <= PPN_SIZE
  BY <1>1, MmAssumption
<1>6. RamPages \subseteq 1..(KERNEL_DIRECT_MAP_SIZE - 1)
  BY MmAssumption
<1>7. KERNEL_DIRECT_MAP_SIZE \in Nat /\ KERNEL_DIRECT_MAP_START \in Nat /\ PPN_SIZE \in Nat
  BY Sizes, MmAssumption
  DEF KERNEL_DIRECT_MAP_SIZE, KERNEL_DIRECT_MAP_START, PTB_LEVELS
<1> HIDE DEF first
<1>8. kmap[5] \in first..(first + MaxKernelPages)
  BY <1>1, <1>2, <1>3
<1>9. kernel_end = kmap[5] /\ KernelPages = first..(kmap[5] - 1)
  BY DEF kernel_end, KernelPages, first
<1>10. kmap[5] \in 1..(KERNEL_DIRECT_MAP_SIZE - 1)
  BY <1>4, <1>6, <1>8
<1>11. first \in 1..(KERNEL_DIRECT_MAP_SIZE - 1)
  BY <1>3, <1>4, <1>6
<1>12. first..(kmap[5] - 1) \subseteq first..(first + MaxKernelPages)
  BY <1>1, <1>3
<1>13. KERNEL_DIRECT_MAP_SIZE <= KERNEL_DIRECT_MAP_START
  BY SpacesFit
<1> QED
  BY <1>13, <1>1, <1>3, <1>4, <1>5, <1>7, <1>8, <1>9, <1>10, <1>11, <1>12

(* The direct map, there and back. *)
LEMMA DirectMapInverse ==
  ASSUME NEW p \in 0..KERNEL_DIRECT_MAP_SIZE
  PROVE  va_to_pa(pa_to_va(p)) = p /\ pa_to_va(p) >= KERNEL_DIRECT_MAP_START
<1>1. KERNEL_DIRECT_MAP_SIZE \in Nat /\ KERNEL_DIRECT_MAP_START \in Nat
  BY Sizes, MmAssumption
  DEF KERNEL_DIRECT_MAP_SIZE, KERNEL_DIRECT_MAP_START, PTB_LEVELS
<1> QED
  BY <1>1 DEF pa_to_va, va_to_pa, KERNEL_DIRECT_MAP_END

(* Before satp is written a pointer reaches the page it names. *)
LEMMA EarlyDeref ==
  ASSUME satp = 0, NEW a
  PROVE  Deref(a) = IF a \in RamPages THEN a ELSE NoPage
  BY DEF Deref

(* Power-on. *)
LEMMA InitBoot == ASSUME GarbagePTEs = {ZeroPTE}, Init PROVE BootInv
<1>1. TInv
  BY InitTypes
<1>2. mem = [p \in RamPages |-> ZeroPage]
  <2>1. \A root \in [Index -> GarbagePTEs] : root = ZeroPage
    BY DEF ZeroPage
  <2> QED
    BY <2>1 DEF Init
<1>3. KernelNotOverwritten
  BY <1>1, <1>2, KernelPlace DEF KernelNotOverwritten, TInv, KernelPages
<1> QED
  BY <1>2, <1>3 DEF Init, AllocInit, BootInv

(* The pages taken are behind the kernel, and taking one adds one. *)
LEMMA TakenPages ==
  ASSUME KmapOK, NEW n \in 1..(ALLOC_LIST_SIZE - 1)
  PROVE  /\ kernel_end \in Taken(n) /\ kernel_end + n \notin Taken(n)
         /\ Taken(n + 1) = Taken(n) \cup {kernel_end + n}
         /\ KernelPages \cap Taken(n + 1) = {}
         /\ \A p \in Taken(n) : p \in Nat /\ p % PPN_SIZE = p
         /\ (kernel_end + n) % PPN_SIZE = kernel_end + n
<1>1. /\ kernel_end \in Nat /\ n \in Nat /\ n >= 1 /\ ALLOC_LIST_SIZE \in Nat
      /\ kernel_end + ALLOC_LIST_SIZE <= PPN_SIZE /\ n < ALLOC_LIST_SIZE
      /\ KernelPages \subseteq 1..(kernel_end - 1)
  BY KernelPlace, AllocAssumption
<1>2. PPN_SIZE \in Nat \ {0}
  BY MmAssumption
<1>3. \A p \in 0..(PPN_SIZE - 1) : p % PPN_SIZE = p
  BY <1>2
<1>4. /\ kernel_end \in Taken(n) /\ kernel_end + n \notin Taken(n)
      /\ Taken(n + 1) = Taken(n) \cup {kernel_end + n}
  BY <1>1 DEF Taken
<1>5. KernelPages \cap Taken(n + 1) = {}
  BY <1>1 DEF Taken
<1>6. \A p \in Taken(n + 1) : p \in 0..(PPN_SIZE - 1)
  BY <1>1, <1>2 DEF Taken
<1> QED
  BY <1>3, <1>4, <1>5, <1>6

(* What the loop of vm_map_page() finds. *)
LEMMA LoopFacts ==
  ASSUME TInv, FirstBoot, Loop, Table # NoPage,
         NEW n \in 1..(ALLOC_LIST_SIZE - 1), NEW lev \in [Taken(n) -> 0..2],
         NEW pre \in [Taken(n) -> Nat], Building(n, lev, pre)
  PROVE  /\ Table = ptb /\ ptb \in RamPages /\ ptb \in Taken(n) /\ lev[ptb] = level
         /\ pre[ptb] = Prefix(va, level) /\ va_get_index(va, level) \in Index
         /\ ptb \notin KernelPages /\ kernel_end + n \notin KernelPages
         /\ kernel_root_ptb = kernel_end /\ EarlyList(n)
         /\ pc \in {"map", "direct", "move"} /\ (pc = "move" => va = 0)
<1>1. Table = ptb /\ ptb \in RamPages
  BY EarlyDeref DEF Table, FirstBoot, Loop
<1>2. va_get_index(va, level) \in Index
  BY PteType DEF TInv, Loop
<1>3. /\ ptb \in Taken(n) /\ lev[ptb] = level /\ pre[ptb] = Prefix(va, level)
      /\ pc \in {"map", "direct", "move"} /\ (pc = "move" => va = 0)
  BY DEF Building, AtLevel, Loop
<1>4. ptb \notin KernelPages /\ kernel_end + n \notin KernelPages
  BY <1>3, TakenPages DEF TInv
<1> QED
  BY <1>1, <1>2, <1>3, <1>4 DEF Building

(* BootInv' from its parts, while the tables are being built. *)
LEMMA BuildingIsBoot ==
  ASSUME KernelNotOverwritten', initialized', pc' \notin {"alloc_init", "root", "done"},
         \E n \in 1..(ALLOC_LIST_SIZE - 1) :
           \E lev \in [Taken(n)' -> 0..2], pre \in [Taken(n)' -> Nat] : Building(n, lev, pre)'
  PROVE  BootInv'
  BY DEF BootInv

(* The loop of vm_map_page(): only tables of level 0 get leaves, and a new *)
(* table is a page that was free.                                          *)
LEMMA LoopBoot == ASSUME TInv, BootInv, FirstBoot, vm_map_page PROVE BootInv'
<1>1. Loop /\ pc \notin {"alloc_init", "root", "done", "fault"} /\ initialized
  <2>1. Loop
    BY DEF vm_map_page, MapFaults, MapLeaf, MapNewTable, MapDescend
  <2>2. pc \notin {"alloc_init", "root", "done", "fault"}
    BY <2>1 DEF Loop, InLoop, TInv, Done, PTB_LEVELS, BootInv
  <2> QED
    BY <2>1, <2>2, Zenon DEF BootInv
<1>a. PICK n \in 1..(ALLOC_LIST_SIZE - 1) :
           \E lev \in [Taken(n) -> 0..2], pre \in [Taken(n) -> Nat] : Building(n, lev, pre)
  BY <1>1 DEF BootInv
<1>2. PICK lev \in [Taken(n) -> 0..2], pre \in [Taken(n) -> Nat] : Building(n, lev, pre)
  BY <1>a
<1>3. KernelNotOverwritten
  BY DEF BootInv
<1>4. kmap' = kmap /\ kernel_root_ptb' = kernel_root_ptb /\ initialized' = initialized
  BY <1>1 DEF vm_map_page, MapFaults, MapLeaf, MapNewTable, MapDescend, allocVars, alloc_get_page
<1>5. \A m : Taken(m)' = Taken(m)
  BY <1>4 DEF Taken, kernel_end
<1>6. CASE MapFaults
  <2>1. UNCHANGED <<list, next, mem, level, ptb, va, mapped>> /\ pc' = "fault"
    BY <1>6 DEF MapFaults, allocVars, mapVars
  <2>2. KernelNotOverwritten'
    BY <1>3, <1>4, <2>1 DEF KernelNotOverwritten
  <2>3. Building(n, lev, pre)'
    <3>1. pc \in {"map", "direct", "move"}
      BY <1>1, <1>2 DEF Building, AtLevel, Loop
    <3>2. EarlyList(n)'
      BY <1>2, <1>4, <2>1, <3>1 DEF Building, EarlyList, kernel_end
    <3>3. Levels(n, lev, pre)'
      BY <1>2, <1>4, <2>1, <1>5 DEF Building, Levels, kernel_end
    <3>4. Leaves(n, lev, pre)'
      BY <1>2, <2>1, <1>5 DEF Building, Leaves
    <3> QED
      BY <1>2, <1>4, <2>1, <3>1, <3>2, <3>3, <3>4 DEF Building, AtLevel, kernel_end
  <2> QED
    BY <1>1, <1>4, <1>5, <2>1, <2>2, <2>3, BuildingIsBoot
<1>7. CASE MapLeaf
  <2>1. Table # NoPage /\ level = 0
    BY <1>7 DEF MapLeaf
  <2>2. /\ Table = ptb /\ ptb \in RamPages /\ ptb \in Taken(n) /\ lev[ptb] = 0
        /\ pre[ptb] = Prefix(va, 0) /\ va_get_index(va, 0) \in Index /\ ptb \notin KernelPages
        /\ kernel_root_ptb = kernel_end /\ EarlyList(n)
    BY <1>1, <1>2, <2>1, LoopFacts
  <2>3. UNCHANGED <<list, next, pc, ptb, va>> /\ level' = Done
    BY <1>7 DEF MapLeaf, allocVars
  <2>4. \A p \in RamPages : p # ptb => mem'[p] = mem[p]
    BY <1>7, <2>2 DEF MapLeaf, TInv, TypeOK
  <2>5. KernelNotOverwritten'
    BY <1>3, <1>4, <2>2, <2>4, KernelPlace DEF KernelNotOverwritten, KernelPages, TInv
  <2>6. Levels(n, lev, pre)'
    BY <1>2, <1>4, <1>5, <2>2, <2>3, <2>4 DEF Building, Levels, kernel_end
  <2>7. EarlyList(n)'
    BY <1>4, <2>2, <2>3 DEF EarlyList, kernel_end
  <2>9. Leaves(n, lev, pre)'
    <3> SUFFICES ASSUME NEW p \in Taken(n) \cap RamPages, lev[p] = 0,
                        NEW k \in Index, mem'[p][k].valid
                 PROVE  \E t \in mapped' :
                          Prefix(t[1], 0) = pre[p] /\ va_get_index(t[1], 0) = k
      BY <1>5 DEF Leaves
    <3>1. CASE mem'[p][k] = mem[p][k]
      <4>1. mapped \subseteq mapped'
        BY <1>7 DEF MapLeaf
      <4> QED
        BY <1>2, <3>1, <4>1 DEF Building, Leaves
    <3>2. CASE mem'[p][k] # mem[p][k]
      <4>1. p = ptb /\ k = va_get_index(va, 0) /\ <<va, pa, flags>> \in mapped'
        BY <1>7, <2>2, <3>2 DEF MapLeaf, TInv, TypeOK
      <4> QED
        BY <2>2, <4>1
    <3> QED
      BY <3>1, <3>2
  <2>8. Building(n, lev, pre)'
    BY <1>2, <1>4, <2>2, <2>3, <2>6, <2>7, <2>9
    DEF Building, AtLevel, InLoop, Done, PTB_LEVELS, kernel_end
  <2> QED
    BY <1>1, <1>4, <1>5, <2>3, <2>5, <2>8, BuildingIsBoot
<1>8. CASE MapNewTable
  <2>1. Table # NoPage /\ level > 0 /\ ~pte_valid(Pte)
    BY <1>8 DEF MapNewTable
  <2>2. /\ Table = ptb /\ ptb \in RamPages /\ ptb \in Taken(n) /\ lev[ptb] = level
        /\ pre[ptb] = Prefix(va, level) /\ va_get_index(va, level) \in Index
        /\ ptb \notin KernelPages /\ kernel_end + n \notin KernelPages
        /\ kernel_root_ptb = kernel_end /\ EarlyList(n)
        /\ pc \in {"map", "direct", "move"} /\ (pc = "move" => va = 0)
    BY <1>1, <1>2, <2>1, LoopFacts
  <2>3. CASE GetFails
    <3>1. UNCHANGED <<list, next, mem, pc, ptb, level, va, mapped>>
      BY <1>8, <2>3 DEF MapNewTable, allocVars
    <3>2. KernelNotOverwritten'
      BY <1>3, <1>4, <3>1 DEF KernelNotOverwritten
    <3>3. Building(n, lev, pre)'
      <4>1. EarlyList(n)' /\ Levels(n, lev, pre)' /\ Leaves(n, lev, pre)'
        BY <1>2, <1>4, <1>5, <2>2, <3>1 DEF Building, EarlyList, Levels, Leaves, kernel_end
      <4>2. AtLevel(n, lev, pre)'
        BY <1>2, <1>5, <3>1 DEF Building, AtLevel, InLoop
      <4> QED
        BY <1>2, <1>4, <3>1, <4>1, <4>2 DEF Building, kernel_end
    <3> QED
      BY <1>1, <1>4, <1>5, <3>1, <3>2, <3>3, BuildingIsBoot
  <2>4. CASE ~GetFails
    <3>1. alloc_get_page /\ UNCHANGED <<va, mapped>>
      BY <1>8, <2>4 DEF MapNewTable
    <3>2. /\ n \in Nat /\ next = n /\ n # ALLOC_LIST_SIZE - 1
          /\ n + 1 \in 1..(ALLOC_LIST_SIZE - 1)
          /\ FreePage = kernel_end + n
      BY <2>2, <2>4, AllocAssumption DEF GetFails, Exhausted, EarlyList, FreePage
    <3>3. EarlyList(n + 1)'
      <4>1. next' = n + 1 /\ \A k \in (n + 1)..(ALLOC_LIST_SIZE - 1) : list'[k] = list[k]
        BY <3>1, <3>2, AllocAssumption DEF alloc_get_page, TInv, TypeOK, AllocTypeOK, ListIndex
      <4> QED
        BY <1>4, <2>2, <3>2, <4>1, AllocAssumption DEF EarlyList, kernel_end
    <3> DEFINE new == kernel_end + n
    <3>4. PICK L : L = [p \in Taken(n + 1) |-> IF p = new THEN level - 1 ELSE lev[p]]
      OBVIOUS
    <3> DEFINE i == va_get_index(va, level)
    <3>a. PICK P : P = [p \in Taken(n + 1) |-> IF p = new THEN Child(pre[ptb], i) ELSE pre[p]]
      OBVIOUS
    <3>b. Child(pre[ptb], i) \in Nat
      BY <2>2, MmAssumption DEF Child, Index
    <3>c. /\ P \in [Taken(n + 1) -> Nat] /\ P[new] = Child(pre[ptb], i)
          /\ \A p \in Taken(n) : P[p] = pre[p]
      BY <3>a, <3>b, TakenPages DEF TInv
    <3>d. P[kernel_end] = 0
      BY <1>2, <3>c, TakenPages DEF TInv, Building, Levels
    <3>5. level \in 1..2
      BY <1>1, <2>1 DEF Loop, InLoop, PTB_LEVELS
    <3>6. /\ L \in [Taken(n + 1) -> 0..2] /\ L[new] = level - 1
          /\ \A p \in Taken(n) : L[p] = lev[p]
      BY <3>4, <3>5, TakenPages DEF TInv
    <3>7. \A p \in Taken(n + 1) : L[p] = 2 <=> p = kernel_end
      BY <1>2, <3>5, <3>6, TakenPages DEF TInv, Building, Levels
    <3>8. CASE Deref(FreePage) = NoPage
      <4>1. UNCHANGED <<mem, ptb, level>> /\ pc' = "fault"
        BY <1>8, <2>4, <3>8 DEF MapNewTable
      <4>2. new \notin RamPages
        BY <3>2, <3>8, EarlyDeref, NoPageNotRam DEF FirstBoot
      <4>3. KernelNotOverwritten'
        BY <1>3, <1>4, <4>1 DEF KernelNotOverwritten
      <4>4. Levels(n + 1, L, P)'
        <5>1. Taken(n + 1) \cap RamPages \subseteq Taken(n) /\ Taken(n) \subseteq Taken(n + 1)
          BY <4>2, TakenPages DEF TInv
        <5> QED
          BY <1>2, <1>4, <1>5, <3>6, <3>7, <3>c, <3>d, <4>1, <5>1 DEF Building, Levels, kernel_end
      <4>6. Leaves(n + 1, L, P)'
        <5>1. Taken(n + 1) \cap RamPages \subseteq Taken(n)
          BY <4>2, TakenPages DEF TInv
        <5> QED
          BY <1>2, <1>5, <3>1, <3>6, <3>c, <4>1, <5>1 DEF Building, Leaves
      <4>5. Building(n + 1, L, P)'
        BY <1>4, <2>2, <3>3, <4>1, <4>4, <4>6 DEF Building, AtLevel, kernel_end
      <4> QED
        BY <1>1, <1>4, <1>5, <3>2, <3>6, <3>c, <4>1, <4>3, <4>5, BuildingIsBoot
    <3>9. CASE Deref(FreePage) # NoPage
      <4>1. Deref(FreePage) = new /\ new \in RamPages
        BY <3>2, <3>9, EarlyDeref DEF FirstBoot
      <4>2. /\ mem' = [mem EXCEPT ![new] = ZeroPage, ![ptb][i] = Entry(new, {})]
            /\ ptb' = pte_next_ptb(Entry(new, {})) /\ level' = level - 1 /\ pc' = pc
        BY <1>8, <2>2, <2>4, <3>2, <3>9, <4>1 DEF MapNewTable
      <4>3. new # ptb
        BY <2>2, TakenPages DEF TInv
      <4>4. /\ mem'[new] = ZeroPage
            /\ mem'[ptb] = [mem[ptb] EXCEPT ![i] = Entry(new, {})]
            /\ \A p \in RamPages \ {new, ptb} : mem'[p] = mem[p]
        BY <2>2, <4>1, <4>2, <4>3 DEF TInv, TypeOK
      <4>5. KernelNotOverwritten'
        BY <1>3, <1>4, <2>2, <4>4, KernelPlace DEF KernelNotOverwritten, KernelPages, TInv
      <4>6. ptb' = new
        BY <4>2, TakenPages DEF TInv, pte_next_ptb, pte_get_ppn, Entry
      <4>7. Levels(n + 1, L, P)'
        <5> SUFFICES ASSUME NEW p \in Taken(n + 1) \cap RamPages, L[p] > 0,
                            NEW k \in Index, mem'[p][k].valid
                     PROVE  IF mem'[p][k].perm = {}
                            THEN /\ mem'[p][k].ppn \in Taken(n + 1)
                                 /\ L[mem'[p][k].ppn] = L[p] - 1
                                 /\ P[mem'[p][k].ppn] = Child(P[p], k)
                            ELSE p = kernel_end /\ k # 0 /\ pc \notin {"map", "direct"}
          <6>1. pc' = pc /\ kernel_end' = kernel_end /\ Taken(n + 1)' = Taken(n + 1)
            BY <1>4, <1>5, <4>2 DEF kernel_end
          <6> QED
            BY <3>7, <3>d, <6>1 DEF Levels
        <5>1. CASE p = new
          BY <4>4, <5>1 DEF ZeroPage, ZeroPTE
        <5>2. CASE p = ptb /\ k = i
          <6>1. mem'[p][k] = Entry(new, {})
            BY <2>2, <4>4, <5>2 DEF TInv, TypeOK
          <6>2. mem'[p][k].perm = {} /\ mem'[p][k].ppn = new
            BY <6>1 DEF Entry
          <6> QED
            <7>1. new \in Taken(n + 1) /\ ptb \in Taken(n)
              BY <2>2, TakenPages DEF TInv
            <7>2. /\ L[new] = level - 1 /\ L[ptb] = level
                  /\ P[new] = Child(pre[ptb], i) /\ P[ptb] = pre[ptb]
              BY <2>2, <3>6, <3>c, <7>1
            <7>3. L[new] = L[p] - 1 /\ P[new] = Child(P[p], k)
              BY <5>2, <7>2
            <7> DEFINE q == mem'[p][k].ppn
            <7>4. q = new
              BY <6>2
            <7> HIDE DEF q
            <7>5. q \in Taken(n + 1) /\ L[q] = L[p] - 1 /\ P[q] = Child(P[p], k)
              BY <7>1, <7>3, <7>4
            <7> QED
              BY <6>2, <7>5, Zenon DEF q
        <5>3. CASE p # new /\ ~(p = ptb /\ k = i)
          <6>1. mem'[p][k] = mem[p][k]
            <7>1. CASE p = ptb
              BY <2>2, <4>4, <5>3, <7>1 DEF TInv, TypeOK
            <7>2. CASE p # ptb
              BY <4>4, <5>3, <7>2
            <7> QED
              BY <7>1, <7>2
          <6>2. p \in Taken(n) /\ lev[p] > 0 /\ L[p] = lev[p]
            BY <3>6, <5>3, TakenPages DEF TInv
          <6>3. IF mem[p][k].perm = {}
                THEN /\ mem[p][k].ppn \in Taken(n) /\ lev[mem[p][k].ppn] = lev[p] - 1
                     /\ pre[mem[p][k].ppn] = Child(pre[p], k)
                ELSE p = kernel_end /\ k # 0 /\ pc \notin {"map", "direct"}
            BY <1>2, <6>1, <6>2 DEF Building, Levels
          <6> QED
            BY <3>6, <3>c, <6>1, <6>2, <6>3, TakenPages DEF TInv
        <5> QED
          BY <5>1, <5>2, <5>3
      <4>8. AtLevel(n + 1, L, P)'
        <5>1. Prefix(va, level - 1) = Child(Prefix(va, level), i)
          BY <3>5 DEF Prefix
        <5> QED
          BY <1>5, <2>2, <3>1, <3>6, <3>c, <4>2, <4>6, <5>1, TakenPages DEF TInv, AtLevel
      <4>10. Leaves(n + 1, L, P)'
        <5> SUFFICES ASSUME NEW p \in Taken(n + 1) \cap RamPages, L[p] = 0,
                            NEW k \in Index, mem'[p][k].valid
                     PROVE  \E t \in mapped :
                              Prefix(t[1], 0) = P[p] /\ va_get_index(t[1], 0) = k
          BY <1>5, <3>1 DEF Leaves
        <5>1. p # new
          BY <4>4 DEF ZeroPage, ZeroPTE
        <5>2. p \in Taken(n) /\ L[p] = lev[p] /\ P[p] = pre[p]
          BY <3>6, <3>c, <5>1, TakenPages DEF TInv
        <5>3. p # ptb
          BY <2>2, <3>5, <5>2
        <5>4. mem'[p] = mem[p]
          BY <4>4, <5>1, <5>3
        <5> QED
          BY <1>2, <5>2, <5>4 DEF Building, Leaves
      <4>9. Building(n + 1, L, P)'
        BY <1>4, <2>2, <3>3, <4>2, <4>7, <4>8, <4>10 DEF Building, kernel_end
      <4> QED
        BY <1>1, <1>4, <1>5, <3>2, <3>6, <3>c, <4>2, <4>5, <4>9, BuildingIsBoot
    <3> QED
      BY <3>8, <3>9
  <2> QED
    BY <2>3, <2>4
<1>9. CASE MapDescend
  <2>1. Table # NoPage /\ level > 0 /\ Pte.valid
    BY <1>9 DEF MapDescend, pte_valid
  <2>2. /\ Table = ptb /\ ptb \in RamPages /\ ptb \in Taken(n) /\ lev[ptb] = level
        /\ pre[ptb] = Prefix(va, level) /\ va_get_index(va, level) \in Index
        /\ kernel_root_ptb = kernel_end /\ EarlyList(n)
        /\ pc \in {"map", "direct", "move"} /\ (pc = "move" => va = 0)
    BY <1>1, <1>2, <2>1, LoopFacts
  <2>3. /\ UNCHANGED <<list, next, mem, pc, va, mapped>>
        /\ ptb' = pte_next_ptb(Pte) /\ level' = level - 1
    BY <1>9 DEF MapDescend, allocVars
  <2>4. Pte.perm = {}
    <3>1. va_get_index(0, level) = 0
      BY <1>1, Sizes, MmAssumption DEF va_get_index, Loop, InLoop, PTB_LEVELS
    <3> QED
      BY <1>2, <2>1, <2>2, <3>1 DEF Building, Levels, Pte
  <2>5. /\ Pte.ppn \in Taken(n) /\ lev[Pte.ppn] = level - 1
        /\ pre[Pte.ppn] = Child(pre[ptb], va_get_index(va, level))
    BY <1>2, <2>1, <2>2, <2>4 DEF Building, Levels, Pte
  <2>6. ptb' = Pte.ppn
    BY <2>3, <2>5, TakenPages DEF TInv, pte_next_ptb, pte_get_ppn
  <2>7. KernelNotOverwritten'
    BY <1>3, <1>4, <2>3 DEF KernelNotOverwritten
  <2>8. EarlyList(n)' /\ Levels(n, lev, pre)' /\ Leaves(n, lev, pre)'
    BY <1>2, <1>4, <1>5, <2>2, <2>3 DEF Building, EarlyList, Levels, Leaves, kernel_end
  <2>9. AtLevel(n, lev, pre)'
    <3>1. Prefix(va, level - 1) = Child(Prefix(va, level), va_get_index(va, level))
      BY <1>1, <2>1 DEF Prefix, Loop, InLoop, PTB_LEVELS
    <3> QED
      BY <1>5, <2>2, <2>3, <2>5, <2>6, <3>1 DEF AtLevel
  <2>10. Building(n, lev, pre)'
    BY <1>2, <1>4, <2>3, <2>8, <2>9 DEF Building, kernel_end
  <2> QED
    BY <1>1, <1>4, <1>5, <2>3, <2>7, <2>10, BuildingIsBoot
<1> QED
  BY <1>6, <1>7, <1>8, <1>9 DEF vm_map_page

(* The other steps of vm_init(). *)
LEMMA InitStepBoot == ASSUME TInv, BootInv, FirstBoot, vm_init PROVE BootInv'
<1>1. ~InLoop /\ kmap' = kmap /\ level \notin 0..2
  <2>1. ~InLoop
    BY DEF vm_init, EarlyAlloc, RootTable, MapNext, vm_init_kernel_direct_map, MapNull,
           MoveAlloc, WriteSatp, Step
  <2>2. kmap' = kmap
    BY DEF vm_init, EarlyAlloc, RootTable, MapNext, vm_init_kernel_direct_map, MapNull,
           MoveAlloc, WriteSatp
  <2> QED
    BY <2>1, <2>2 DEF InLoop, PTB_LEVELS
<1>2. KernelNotOverwritten
  BY DEF BootInv
<1>3. kernel_end' = kernel_end /\ \A m : Taken(m)' = Taken(m)
  BY <1>1 DEF Taken, kernel_end
<1>4. CASE EarlyAlloc
  <2>1. /\ pc = "alloc_init" /\ pc' = "root" /\ initialized' = TRUE
        /\ mem' = mem /\ kernel_root_ptb' = kernel_root_ptb
        /\ list' = [k \in ListIndex |-> kernel_end + k]
    BY <1>4 DEF EarlyAlloc, Step, alloc_init
  <2>2. KernelNotOverwritten'
    BY <1>1, <1>2, <2>1 DEF KernelNotOverwritten
  <2>3. initialized' = (pc' # "alloc_init")
    BY <2>1
  <2>4. mem' = [p \in RamPages |-> ZeroPage] /\ kernel_root_ptb' = 0
    BY <2>1 DEF BootInv
  <2>5. (ListIndex' = ListIndex) /\ \A k \in ListIndex : list'[k] = kernel_end' + k
    BY <1>3, <2>1 DEF ListIndex
  <2> QED
    BY <2>1, <2>2, <2>3, <2>4, <2>5 DEF BootInv
<1>5. CASE RootTable
  <2>1. /\ pc = "root" /\ pc' = "map" /\ mem' = mem /\ alloc_get_page
        /\ kernel_root_ptb' = FreePage /\ UNCHANGED <<level, initialized>>
    BY <1>5 DEF RootTable, Step, mapVars, alloc_get_page
  <2>2. next = 0 /\ \A k \in ListIndex : list[k] = kernel_end + k
    BY <2>1 DEF TInv, BootInv
  <2>3. initialized'
    BY <2>1, Zenon DEF BootInv
  <2>4. KernelNotOverwritten'
    BY <1>1, <1>2, <2>1 DEF KernelNotOverwritten
  <2>5. kernel_end \in Nat /\ ALLOC_LIST_SIZE \in Nat /\ ALLOC_LIST_SIZE > 1
    BY KernelPlace, AllocAssumption, MmAssumption DEF TInv
  <2>6. kernel_root_ptb' = kernel_end
    BY <2>1, <2>2, <2>5 DEF FreePage, ListIndex
  <2>7. EarlyList(1)'
    BY <1>3, <2>1, <2>2, <2>5
    DEF EarlyList, alloc_get_page, ListIndex, TInv, TypeOK, AllocTypeOK
  <2>8. Taken(1) = {kernel_end}
    BY <2>5 DEF Taken
  <2>9. PICK L : L = [p \in Taken(1) |-> 2]
    OBVIOUS
  <2>a. PICK P : P = [p \in Taken(1) |-> 0]
    OBVIOUS
  <2>10. Levels(1, L, P)'
    <3>1. mem' = [p \in RamPages |-> ZeroPage]
      BY <2>1 DEF BootInv
    <3> QED
      BY <1>3, <2>8, <2>9, <2>a, <3>1 DEF Levels, ZeroPage, ZeroPTE
  <2>b. Leaves(1, L, P)'
    BY <1>3, <2>9 DEF Leaves
  <2>11. Building(1, L, P)'
    BY <1>1, <1>3, <2>1, <2>6, <2>7, <2>10, <2>b DEF Building, AtLevel, InLoop
  <2>12. 1 \in 1..(ALLOC_LIST_SIZE - 1) /\ L \in [Taken(1)' -> 0..2] /\ P \in [Taken(1)' -> Nat]
    BY <1>3, <2>5, <2>9, <2>a
  <2> QED
    BY <2>1, <2>3, <2>4, <2>11, <2>12, BuildingIsBoot
<1>6. CASE pc \notin {"alloc_init", "root"}
  <2>1. pc # "done" /\ initialized
    BY <1>6, Zenon DEF BootInv
  <2>2. PICK n \in 1..(ALLOC_LIST_SIZE - 1) :
           \E lev \in [Taken(n) -> 0..2], pre \in [Taken(n) -> Nat] : Building(n, lev, pre)
    BY <1>6 DEF BootInv
  <2>3. PICK lev \in [Taken(n) -> 0..2], pre \in [Taken(n) -> Nat] : Building(n, lev, pre)
    BY <2>2
  <2>4. lev \in [Taken(n)' -> 0..2] /\ pre \in [Taken(n)' -> Nat]
    BY <1>3
  <2>5. kernel_end \in Taken(n) /\ lev[kernel_end] = 2 /\ pre[kernel_end] = 0
    BY <2>3, TakenPages DEF TInv, Building, Levels
  <2>6. ASSUME NEW v, NEW p, NEW f, Call(v, p, f, TRUE),
               \/ pc = "map" /\ pc' \in {"map", "direct"}
               \/ pc = "null" /\ pc' = "move" /\ v = 0,
               UNCHANGED <<list, next, initialized, mem, kernel_root_ptb, mapped>>
        PROVE  BootInv'
    <3>1. KernelNotOverwritten'
      BY <1>1, <1>2, <2>6 DEF KernelNotOverwritten
    <3>2. EarlyList(n)'
      BY <1>3, <2>3, <2>6 DEF Building, EarlyList
    <3>3. kernel_root_ptb = kernel_end
      BY <2>3, <2>6 DEF Building
    <3>4. Levels(n, lev, pre)' /\ Leaves(n, lev, pre)'
      BY <1>3, <2>3, <2>6 DEF Building, Levels, Leaves
    <3>5. AtLevel(n, lev, pre)'
      <4>1. CASE ptb' = kernel_root_ptb /\ level' = 2 /\ va' = v
        BY <1>3, <2>5, <2>6, <3>3, <4>1 DEF AtLevel, Prefix
      <4>2. CASE level' = level
        BY <1>1, <4>2 DEF AtLevel, InLoop, PTB_LEVELS
      <4> QED
        BY <2>6, <4>1, <4>2 DEF Call, mapVars, PTB_LEVELS
    <3>6. Building(n, lev, pre)'
      BY <1>3, <2>6, <3>2, <3>3, <3>4, <3>5 DEF Building
    <3> QED
      BY <2>1, <2>4, <2>6, <3>1, <3>6, BuildingIsBoot
  <2>7. CASE MapNext
    <3>1. /\ Call(todo[1][1], todo[1][2], todo[1][3], TRUE)
          /\ pc = "map" /\ pc' \in {"map", "direct"}
          /\ UNCHANGED <<list, next, initialized, mem, kernel_root_ptb, mapped>>
      BY <2>7 DEF MapNext, Step, allocVars
    <3> QED
      BY <2>6, <3>1
  <2>8. CASE MapNull
    <3>1. /\ Call(0, 0, {}, TRUE)
          /\ pc = "null" /\ pc' = "move"
          /\ UNCHANGED <<list, next, initialized, mem, kernel_root_ptb, mapped>>
      BY <2>8 DEF MapNull, Step, allocVars
    <3> QED
      BY <2>6, <3>1
  <2>9. CASE vm_init_kernel_direct_map
    <3>1. /\ pc = "direct" /\ pc' = "null"
          /\ UNCHANGED <<list, next, initialized, kernel_root_ptb, level, ptb, va, mapped>>
      BY <2>9 DEF vm_init_kernel_direct_map, Step, allocVars, mapVars
    <3>2. kernel_root_ptb = kernel_end /\ EarlyList(n)
      BY <2>3, <3>1 DEF Building
    <3>3. /\ \A p \in RamPages \ {kernel_end} : mem'[p] = mem[p]
          /\ \A k \in Index : mem'[kernel_end][k] =
               IF k \in DirectIndexes THEN DirectEntry(k) ELSE mem[kernel_end][k]
      BY <2>9, <3>2, KernelPlace DEF vm_init_kernel_direct_map, TInv, TypeOK
    <3>4. KernelNotOverwritten'
      BY <1>1, <1>2, <3>3, KernelPlace DEF KernelNotOverwritten, KernelPages, TInv
    <3>5. EarlyList(n)'
      BY <1>3, <3>1, <3>2 DEF EarlyList
    <3>6. Levels(n, lev, pre)'
      <4> SUFFICES ASSUME NEW p \in Taken(n) \cap RamPages, lev[p] > 0,
                          NEW k \in Index, mem'[p][k].valid
                   PROVE  IF mem'[p][k].perm = {}
                          THEN /\ mem'[p][k].ppn \in Taken(n)
                               /\ lev[mem'[p][k].ppn] = lev[p] - 1
                               /\ pre[mem'[p][k].ppn] = Child(pre[p], k)
                          ELSE p = kernel_end /\ k # 0
        BY <1>3, <2>3, <3>1 DEF Building, Levels
      <4>1. CASE p = kernel_end /\ k \in DirectIndexes
        BY <3>3, <4>1, DirectEntries
      <4>2. CASE ~(p = kernel_end /\ k \in DirectIndexes)
        <5>1. mem'[p][k] = mem[p][k]
          BY <3>3, <4>2
        <5> QED
          BY <2>3, <3>1, <5>1 DEF Building, Levels
      <4> QED
        BY <4>1, <4>2
    <3>7. AtLevel(n, lev, pre)'
      BY <1>1, <3>1 DEF AtLevel, InLoop, PTB_LEVELS
    <3>9. Leaves(n, lev, pre)'
      BY <1>3, <2>3, <2>5, <3>1, <3>3 DEF Building, Leaves
    <3>8. Building(n, lev, pre)'
      BY <1>3, <3>1, <3>2, <3>5, <3>6, <3>7, <3>9 DEF Building
    <3> QED
      BY <2>1, <2>4, <3>1, <3>4, <3>8, BuildingIsBoot
  <2>10. CASE MoveAlloc
    <3>1. /\ pc = "move" /\ pc' = "satp" /\ UNCHANGED <<mem, level, mapped>>
          /\ kernel_root_ptb' = pa_to_va(kernel_root_ptb)
      BY <2>10 DEF MoveAlloc, Step, mapVars
    <3>2. kernel_root_ptb = kernel_end /\ EarlyList(n)
      BY <2>3, <3>1 DEF Building
    <3>3. KernelNotOverwritten'
      BY <1>1, <1>2, <3>1 DEF KernelNotOverwritten
    <3>4. Levels(n, lev, pre)' /\ Leaves(n, lev, pre)'
      BY <1>3, <2>3, <3>1 DEF Building, Levels, Leaves
    <3>5. AtLevel(n, lev, pre)'
      BY <1>1, <3>1 DEF AtLevel, InLoop, PTB_LEVELS
    <3>6. kernel_root_ptb' = pa_to_va(kernel_end)'
      BY <1>3, <3>1, <3>2 DEF pa_to_va
    <3>7. (EarlyList(n) \/ MovedList(n))' /\ initialized'
      <4>1. CASE GetFails
        <5>1. UNCHANGED <<list, next, initialized>>
          BY <2>10, <4>1 DEF MoveAlloc, allocVars
        <5> QED
          BY <1>3, <2>1, <3>2, <5>1 DEF EarlyList
      <4>2. CASE ~GetFails
        <5>1. alloc_init(pa_to_va(FreePage))
          BY <2>10, <4>2 DEF MoveAlloc
        <5>2. FreePage = kernel_end + n
          BY <3>2 DEF EarlyList, FreePage
        <5> QED
          BY <1>3, <5>1, <5>2 DEF alloc_init, MovedList, ListIndex, pa_to_va
      <4> QED
        BY <4>1, <4>2
    <3>8. Building(n, lev, pre)'
      BY <3>1, <3>4, <3>5, <3>6, <3>7 DEF Building
    <3> QED
      BY <2>4, <3>1, <3>3, <3>7, <3>8, BuildingIsBoot
  <2>11. CASE WriteSatp
    <3>1. pc = "satp" /\ satp' = va_to_pa(kernel_root_ptb)
      BY <2>11 DEF WriteSatp, Step
    <3>2. kernel_root_ptb = pa_to_va(kernel_end)
      BY <2>3, <3>1 DEF Building
    <3>3. satp' # 0
      BY <3>1, <3>2, DirectMapInverse, KernelPlace DEF TInv
    <3> QED
      BY <3>3 DEF BootInv, FirstBoot
  <2> QED
    BY <1>6, <2>7, <2>8, <2>9, <2>10, <2>11 DEF vm_init, EarlyAlloc, RootTable, Step
<1> QED
  <2>1. CASE pc = "alloc_init"
    BY <1>4, <2>1 DEF vm_init, RootTable, MapNext, vm_init_kernel_direct_map, MapNull,
       MoveAlloc, WriteSatp, Step
  <2>2. CASE pc = "root"
    BY <1>5, <2>2 DEF vm_init, EarlyAlloc, MapNext, vm_init_kernel_direct_map, MapNull,
       MoveAlloc, WriteSatp, Step
  <2> QED
    BY <1>6, <2>1, <2>2

(* satp is 0 until vm_init() writes it; a reset is counted. *)
SatpOK == resets \in Nat /\ (pc \notin {"done", "fault"} => satp = 0)

(* satp is zero until vm_init() writes it. *)
LEMMA SatpInvariance == Spec => []SatpOK
<1>1. Init => SatpOK
  BY DEF Init, SatpOK
<1>2. SatpOK /\ [Next]_vars => SatpOK'
  <2> SUFFICES ASSUME SatpOK, [Next]_vars PROVE SatpOK'
    OBVIOUS
  <2>1. CASE vm_map_page /\ UNCHANGED resets
    BY <2>1 DEF vm_map_page, MapFaults, MapLeaf, MapNewTable, MapDescend, SatpOK
  <2>2. CASE vm_init /\ UNCHANGED resets
    <3>1. CASE WriteSatp
      BY <2>2, <3>1 DEF WriteSatp, Step, SatpOK
    <3>2. CASE ~WriteSatp
      <4>1. satp' = satp /\ pc \notin {"done", "fault"}
        BY <2>2, <3>2 DEF vm_init, EarlyAlloc, RootTable, MapNext, vm_init_kernel_direct_map,
           MapNull, MoveAlloc, Step
      <4> QED
        BY <2>2, <4>1 DEF SatpOK
    <3> QED
      BY <3>1, <3>2
  <2>3. CASE MapLater /\ UNCHANGED resets
    BY <2>3 DEF MapLater, Step, SatpOK
  <2>4. CASE Reset
    BY <2>4 DEF Reset, SatpOK
  <2>5. CASE UNCHANGED vars
    BY <2>5 DEF vars, SatpOK
  <2> QED
    BY <2>1, <2>2, <2>3, <2>4, <2>5 DEF Next
<1> QED
  BY <1>1, <1>2, PTL DEF Spec

(* No step that does not belong to the first boot brings it back. *)
LEMMA FirstBootIsOver ==
  ASSUME SatpOK, BootInv, Next, FirstBoot' PROVE FirstBoot /\ (vm_map_page \/ vm_init)
<1>1. ~Reset
  BY DEF Reset, FirstBoot, SatpOK
<1>2. resets = 0
  BY <1>1 DEF Next, FirstBoot
<1>3. CASE vm_map_page
  BY <1>2, <1>3 DEF vm_map_page, MapFaults, MapLeaf, MapNewTable, MapDescend, FirstBoot
<1>4. CASE vm_init
  <2>1. pc \notin {"done", "fault"}
    BY <1>4 DEF vm_init, EarlyAlloc, RootTable, MapNext, vm_init_kernel_direct_map, MapNull,
       MoveAlloc, WriteSatp, Step
  <2> QED
    BY <1>2, <1>4, <2>1 DEF FirstBoot, SatpOK
<1>5. CASE MapLater
  <2>1. satp' = satp /\ pc = "done"
    BY <1>5 DEF MapLater, Step
  <2> QED
    BY <1>2, <2>1 DEF FirstBoot, BootInv
<1> QED
  BY <1>1, <1>3, <1>4, <1>5 DEF Next

(* The inductive invariant of the first boot holds. *)
LEMMA BootInvariance == ASSUME GarbagePTEs = {ZeroPTE} PROVE Spec => []BootInv
<1>1. Init => BootInv
  BY InitBoot
<1>2. TInv /\ SatpOK /\ BootInv /\ [Next]_vars => BootInv'
  <2> SUFFICES ASSUME TInv, SatpOK, BootInv, [Next]_vars, FirstBoot' PROVE BootInv'
    BY DEF BootInv
  <2>1. CASE UNCHANGED vars
    <3>1. UNCHANGED <<list, next, initialized, kmap, mem, kernel_root_ptb, satp, pc, va, level,
                      ptb, resets, mapped>>
      BY <2>1 DEF vars, allocVars, mapVars
    <3>2. FirstBoot /\ kernel_end' = kernel_end /\ \A n : Taken(n)' = Taken(n)
      BY <3>1 DEF FirstBoot, kernel_end, Taken
    <3>3. ASSUME NEW n, NEW lev, NEW pre, Building(n, lev, pre) PROVE Building(n, lev, pre)'
      <4>1. (EarlyList(n) \/ (pc = "satp" /\ MovedList(n)))'
        BY <3>1, <3>2, <3>3 DEF Building, EarlyList, MovedList, pa_to_va
      <4>2. Levels(n, lev, pre)' /\ Leaves(n, lev, pre)' /\ AtLevel(n, lev, pre)'
        BY <3>1, <3>2, <3>3 DEF Building, Levels, Leaves, AtLevel, InLoop
      <4> QED
        BY <3>1, <3>2, <3>3, <4>1, <4>2 DEF Building, pa_to_va
    <3>4. KernelNotOverwritten'
      BY <3>1, <3>2 DEF BootInv, KernelNotOverwritten
    <3>5. initialized' = (pc' # "alloc_init")
      BY <3>1, <3>2 DEF BootInv
    <3> QED
      BY <3>1, <3>2, <3>3, <3>4, <3>5 DEF BootInv
  <2> QED
    BY <2>1, FirstBootIsOver, LoopBoot, InitStepBoot
<1> QED
  BY <1>1, <1>2, TypeInvariance, SatpInvariance, PTL DEF Spec

(* The pages in the allocator's list are behind those that were taken. *)
LEMMA FreeBehindTaken ==
  ASSUME TInv, NEW n \in 1..(ALLOC_LIST_SIZE - 1), EarlyList(n) \/ MovedList(n)
  PROVE  \A f \in FreePhys : f \in Nat /\ (f = 0 \/ f >= kernel_end + n)
<1> SUFFICES ASSUME NEW k \in next..(ALLOC_LIST_SIZE - 1)
             PROVE  LET f == IF list[k] < KERNEL_DIRECT_MAP_START THEN list[k]
                             ELSE va_to_pa(list[k])
                    IN  f \in Nat /\ (f = 0 \/ f >= kernel_end + n)
  BY DEF FreePhys
<1>1. /\ kernel_end \in Nat /\ KERNEL_DIRECT_MAP_START \in Nat /\ ALLOC_LIST_SIZE \in Nat
      /\ next \in ListIndex /\ k \in ListIndex
      /\ kernel_end + ALLOC_LIST_SIZE <= KERNEL_DIRECT_MAP_START
  BY KernelPlace, AllocAssumption, Sizes, MmAssumption
  DEF TInv, TypeOK, AllocTypeOK, ListIndex, KERNEL_DIRECT_MAP_START
<1>2. CASE EarlyList(n)
  BY <1>1, <1>2 DEF EarlyList, ListIndex
<1>3. CASE MovedList(n)
  BY <1>1, <1>3 DEF MovedList, ListIndex, pa_to_va, va_to_pa
<1> QED
  BY <1>2, <1>3

(* The root table is the first page behind the kernel, in either address   *)
(* space.                                                                  *)
LEMMA RootIs ==
  ASSUME TInv, kernel_root_ptb \in {kernel_end, pa_to_va(kernel_end)} PROVE Root = kernel_end
<1>1. /\ kernel_end \in Nat /\ kernel_end \in 0..KERNEL_DIRECT_MAP_SIZE
      /\ kernel_end + ALLOC_LIST_SIZE <= KERNEL_DIRECT_MAP_START
      /\ ALLOC_LIST_SIZE \in Nat \ {0} /\ KERNEL_DIRECT_MAP_START \in Nat
  BY KernelPlace, AllocAssumption, Sizes, MmAssumption DEF TInv, KERNEL_DIRECT_MAP_START
<1>2. /\ va_to_pa(pa_to_va(kernel_end)) = kernel_end
      /\ pa_to_va(kernel_end) \in Nat /\ pa_to_va(kernel_end) >= KERNEL_DIRECT_MAP_START
  BY <1>1, DirectMapInverse, PaToVaNat
<1> QED
  BY <1>1, <1>2 DEF Root

(* All tables that can be reached from the root are pages that were taken. *)
LEMMA TablesTaken ==
  ASSUME TInv, NEW n \in 1..(ALLOC_LIST_SIZE - 1), NEW lev \in [Taken(n) -> 0..2],
         NEW pre \in [Taken(n) -> Nat], Building(n, lev, pre)
  PROVE  Tables \subseteq Taken(n)
<1>1. Root = kernel_end
  BY RootIs DEF Building
<1>2. kernel_end \in Taken(n) /\ lev[kernel_end] = 2
  BY TakenPages DEF TInv, Building, Levels
<1>3. \A t \in Taken(n) \cap RamPages : lev[t] > 0 =>
        \A k \in NonLeaf(t) : mem[t][k].ppn \in Taken(n) /\ lev[mem[t][k].ppn] = lev[t] - 1
  BY DEF Building, Levels, NonLeaf
<1>4. \A q \in NextTables({kernel_end}) : q \in Taken(n) /\ lev[q] = 1
  BY <1>2, <1>3 DEF NextTables
<1>5. \A q \in NextTables(NextTables({kernel_end})) : q \in Taken(n)
  BY <1>3, <1>4 DEF NextTables
<1> QED
  BY <1>1, <1>2, <1>4, <1>5 DEF Tables

(* Until the tables are turned on, the kernel's sections are as they were  *)
(* loaded, and the allocator's list, in either address space, holds        *)
(* neither a page table nor a page of the kernel.                          *)
LEMMA EarlyTablesSafe ==
  ASSUME TInv, BootInv, FirstBoot PROVE TablesNotFree /\ KernelNotOverwritten
<1> SUFFICES ASSUME initialized PROVE TablesNotFree
  BY DEF BootInv, FirstBoot, TablesNotFree
<1>1. kernel_end \in Nat \ {0} /\ KernelPages \subseteq 1..(kernel_end - 1)
  BY KernelPlace DEF TInv
<1>2. pc # "alloc_init"
  BY Zenon DEF BootInv
<1>3. CASE pc = "root"
  <2>1. /\ kernel_root_ptb = 0 /\ next = 0
        /\ \A k \in ListIndex : list[k] = kernel_end + k
    BY <1>3 DEF BootInv, TInv
  <2>2. FreePhys \cap (KernelPages \cup {0}) = {}
    <3>1. /\ KERNEL_DIRECT_MAP_START \in Nat /\ ALLOC_LIST_SIZE \in Nat
          /\ kernel_end + ALLOC_LIST_SIZE <= KERNEL_DIRECT_MAP_START
      BY KernelPlace, AllocAssumption, Sizes, MmAssumption
      DEF TInv, KERNEL_DIRECT_MAP_START
    <3>2. \A f \in FreePhys : f \in Nat /\ f >= kernel_end
      BY <1>1, <2>1, <3>1 DEF FreePhys, ListIndex
    <3> QED
      BY <1>1, <3>2
  <2>3. Tables = {0}
    <3>1. Root = 0
      BY <2>1, Sizes, MmAssumption DEF Root, KERNEL_DIRECT_MAP_START
    <3>2. NextTables({0}) = {}
      BY NoPageNotRam DEF NextTables, NoPage
    <3>3. NextTables({}) = {}
      BY DEF NextTables
    <3> QED
      BY <3>1, <3>2, <3>3 DEF Tables
  <2> QED
    BY <2>2, <2>3 DEF TablesNotFree, KernelPages
<1>4. CASE pc # "root"
  <2>1. PICK n \in 1..(ALLOC_LIST_SIZE - 1) :
         \E lev \in [Taken(n) -> 0..2], pre \in [Taken(n) -> Nat] : Building(n, lev, pre)
    BY <1>2, <1>4 DEF BootInv
  <2>2. PICK lev \in [Taken(n) -> 0..2], pre \in [Taken(n) -> Nat] : Building(n, lev, pre)
    BY <2>1
  <2>3. Tables \subseteq Taken(n)
    BY <2>2, TablesTaken
  <2>4. \A f \in FreePhys : f \in Nat /\ (f = 0 \/ f >= kernel_end + n)
    BY <2>2, FreeBehindTaken DEF Building
  <2>5. FreePhys \cap Taken(n) = {} /\ FreePhys \cap KernelPages = {}
    BY <1>1, <2>4 DEF Taken
  <2> QED
    BY <2>3, <2>5 DEF TablesNotFree, KernelPages
<1> QED
  BY <1>3, <1>4

-----------------------------------------------------------------------------
(* The first boot succeeds. *)

(* The calls vm_init() makes: one per page of the kernel, in the order of  *)
(* the sections, and one for the serial port; the one for the null page    *)
(* comes later.                                                            *)
KernelSize == kmap[5] - kmap[1]
CallVA(j)  == IF j <= KernelSize THEN kmap[1] + j - 1 + KERNEL_PHYS_OFFSET ELSE SERIAL
Issued     == KernelSize + 1 - Len(todo)
CallsLeft  == Len(todo) + (IF pc \in {"map", "direct", "null"} THEN 1 ELSE 0)

(* What was mapped is what the calls that have returned were for. *)
MappedOK ==
  pc \in {"map", "direct", "null"} \/ (pc = "move" /\ InLoop) =>
    \A t \in mapped : \E j \in 1..Issued :
      t[1] = CallVA(j) /\ (InLoop /\ pc # "move" => j < Issued)

(* Every call takes at most two pages from the allocator. *)
PagesOK ==
  pc # "satp" => next + 2 * CallsLeft + (IF InLoop THEN level ELSE 0) <= 2 * KernelSize + 5

(* The calls that have been made and those that are left. *)
CallsOK ==
  /\ Len(todo) <= KernelSize + 1
  /\ \A i \in 1..Len(todo) : todo[i][1] = CallVA(Issued + i)
  /\ pc # "map" => todo = <<>>
  /\ InLoop /\ pc # "move" => va = CallVA(Issued) /\ Issued >= 1

(* The inductive invariant, beside BootInv. *)
Succeeding ==
  FirstBoot =>
    /\ ~panicked /\ pc # "fault"
    /\ pc \in {"alloc_init", "root"} => mapped = {}
    /\ pc \notin {"alloc_init", "root"} => CallsOK /\ MappedOK /\ PagesOK

(* RAM and the allocator's list have room for the tables. *)
Room ==
  /\ ALLOC_LIST_SIZE > 2 * MaxKernelPages + 6
  /\ \A first \in KernelStarts : first..(first + 3 * MaxKernelPages + 5) \subseteq RamPages

(* An address is made of its indexes. *)
LEMMA Digits ==
  ASSUME NEW a \in Nat
  PROVE  /\ a = (a \div Span(3)) * Span(3)
                 + (va_get_index(a, 2) * Span(2)
                    + (va_get_index(a, 1) * PTB_ENTRY_COUNT + va_get_index(a, 0)))
         /\ a \div Span(3) \in Nat
<1> DEFINE N  == PTB_ENTRY_COUNT
           q1 == a \div N
           q2 == q1 \div N
           q3 == q2 \div N
           i0 == a % N
           i1 == q1 % N
           i2 == q2 % N
<1>1. N \in Nat \ {0} /\ N * N \in Nat \ {0}
  BY MmAssumption
<1>2. Span(1) = N /\ Span(2) = N * N /\ Span(3) = (N * N) * N /\ Span(0) = 1
  BY <1>1 DEF Span
<1>3. a = q1 * N + i0 /\ q1 \in Nat /\ i0 \in Nat
  BY <1>1, Division
<1>4. q1 = q2 * N + i1 /\ q2 \in Nat /\ i1 \in Nat
  <2>1. q1 \in Nat
    BY <1>3
  <2>2. N \in Nat \ {0}
    BY <1>1
  <2> HIDE DEF q1, N
  <2> QED
    BY <2>1, <2>2, Division
<1>5. q2 = q3 * N + i2 /\ q3 \in Nat /\ i2 \in Nat
  <2>1. q2 \in Nat
    BY <1>4
  <2>2. N \in Nat \ {0}
    BY <1>1
  <2> HIDE DEF q2, N
  <2> QED
    BY <2>1, <2>2, Division
<1>6. q2 = a \div Span(2)
  BY <1>1, <1>2, DivideTwice
<1>7. q3 = a \div Span(3)
  <2>1. (a \div (N * N)) \div N = a \div ((N * N) * N)
    BY <1>1, DivideTwice
  <2> QED
    BY <1>2, <1>6, <2>1
<1>8. /\ va_get_index(a, 2) = i2 /\ va_get_index(a, 1) = i1
      /\ va_get_index(a, 0) = i0
  <2>1. a \div 1 = a
    OBVIOUS
  <2> QED
    BY <1>2, <1>6, <2>1 DEF va_get_index
<1> HIDE DEF q1, q2, q3, i0, i1, i2, N
<1>9. a = ((q3 * N + i2) * N + i1) * N + i0
  BY <1>3, <1>4, <1>5
<1>10. ((q3 * N + i2) * N + i1) * N = q3 * ((N * N) * N) + (i2 * (N * N) + i1 * N)
  BY <1>1, <1>4, <1>5
<1>11. a = q3 * ((N * N) * N) + (i2 * (N * N) + (i1 * N + i0))
  <2> DEFINE b == q3 * ((N * N) * N)  c == i2 * (N * N)  d == i1 * N
  <2>1. b \in Nat /\ c \in Nat /\ d \in Nat
    BY <1>1, <1>4, <1>5
  <2>2. a = b + (c + d) + i0
    BY <1>9, <1>10
  <2> HIDE DEF b, c, d
  <2>3. a = b + (c + (d + i0))
    BY <1>3, <2>1, <2>2
  <2> QED
    BY <2>3 DEF b, c, d
<1> QED
  BY <1>2, <1>5, <1>7, <1>8, <1>11 DEF N

(* An address below the middle of the index space is in the lower half of  *)
(* the address space, any other in the upper half.                         *)
LEMMA Halves ==
  ASSUME NEW a \in VAs
  PROVE  a \div Span(3) = IF va_get_index(a, 2) < PTB_ENTRY_COUNT \div 2
                          THEN 0 ELSE VA_SIZE \div Span(3) - 1
<1> DEFINE N  == PTB_ENTRY_COUNT
           h  == N \div 2
           S  == Span(2)
           T  == Span(3)
           m  == VA_SIZE \div T
           q  == a \div T
           i2 == va_get_index(a, 2)
           lo == va_get_index(a, 1) * N + va_get_index(a, 0)
           H  == h * S
           c  == i2 * S
<1>1. N \in Nat \ {0} /\ h \in Nat /\ N = 2 * h
  BY MmAssumption
<1>2. S \in Nat \ {0} /\ T \in Nat \ {0}
  BY Sizes
<1>3. T = N * S /\ S = N * N
  BY <1>1 DEF Span
<1>4. a \in Nat /\ HalfSpace = H /\ VA_SIZE \in Nat
      /\ (a < H \/ (a >= VA_SIZE - H /\ a < VA_SIZE))
  BY VAsNat, GigapagesFit, MmAssumption, Sizes DEF VAs
<1>5. VA_SIZE = m * T /\ m \in Nat /\ m >= 1
  <2>1. VA_SIZE = m * T + (VA_SIZE % T) /\ m \in Nat
    BY <1>2, <1>4, Division
  <2>2. VA_SIZE % T = 0 /\ VA_SIZE > T
    BY MmAssumption DEF PTB_LEVELS
  <2> HIDE DEF m, T
  <2>3. m * T \in Nat
    BY <1>2, <2>1
  <2>4. VA_SIZE = m * T
    BY <2>1, <2>2, <2>3
  <2>5. m # 0
    BY <2>4, <2>2, <1>2
  <2> QED
    BY <2>1, <2>4, <2>5
<1>6. i2 \in 0..(N - 1) /\ lo \in 0..(S - 1)
  <2>1. /\ i2 \in 0..(N - 1) /\ va_get_index(a, 1) \in 0..(N - 1)
        /\ va_get_index(a, 0) \in 0..(N - 1)
    BY <1>4, IndexInTable DEF Index
  <2> DEFINE j == va_get_index(a, 1)  k == va_get_index(a, 0)  b == j * N  e == (N - 1) * N
             g == N * N
  <2>2. b \in Nat /\ b <= e /\ e = g - N
    BY <1>1, <2>1
  <2>3. g = S
    BY <1>3
  <2> HIDE DEF b, e, g, k, S, N
  <2>4. b + k \in 0..(S - 1)
    BY <1>1, <1>2, <2>1, <2>2, <2>3 DEF k
  <2> QED
    BY <2>1, <2>4 DEF b, k
<1>7. a = q * T + (c + lo) /\ q \in Nat
  BY <1>4, Digits
<1> HIDE DEF N, h, S, T, m, q, i2, lo
<1>8. T = H + H /\ H \in Nat /\ T >= S
  BY <1>1, <1>2, <1>3
<1>9. c \in Nat
  BY <1>2, <1>6
<1>10. i2 < h => c <= H - S
  <2> SUFFICES ASSUME i2 < h PROVE c <= H - S
    OBVIOUS
  <2>1. i2 * S <= (h - 1) * S
    BY <1>1, <1>2, <1>6
  <2>2. (h - 1) * S = h * S - S
    BY <1>1, <1>2
  <2> QED
    BY <2>1, <2>2
<1>11. ~(i2 < h) => c >= H
  BY <1>1, <1>2, <1>6
<1>12. c <= T - S
  <2>1. i2 * S <= (N - 1) * S
    BY <1>1, <1>2, <1>6
  <2>2. (N - 1) * S = N * S - S
    BY <1>1, <1>2
  <2> QED
    BY <1>3, <2>1, <2>2
<1> DEFINE X == q * T
           Y == m * T
<1>13. X \in Nat /\ Y \in Nat /\ VA_SIZE = Y /\ a = X + (c + lo)
  BY <1>2, <1>5, <1>7
<1>14. (q # 0 => X >= T) /\ (q >= m => X >= Y) /\ (q < m - 1 => X <= Y - T - T)
  <2>1. q # 0 => X >= T
    BY <1>2, <1>7
  <2>2. q >= m => X >= Y
    BY <1>2, <1>5, <1>7
  <2>3. q < m - 1 => X <= Y - T - T
    <3> SUFFICES ASSUME q < m - 1 PROVE X <= Y - T - T
      OBVIOUS
    <3>1. q * T <= (m - 2) * T
      BY <1>2, <1>5, <1>7
    <3>2. (m - 2) * T = m * T - T - T
      BY <1>2, <1>5
    <3> QED
      BY <3>1, <3>2
  <2> QED
    BY <2>1, <2>2, <2>3
<1> HIDE DEF X, Y, H, c
<1>15. CASE i2 < h
  <2>1. ~(a >= VA_SIZE - H /\ a < VA_SIZE) \/ q = 0
    BY <1>2, <1>4, <1>5, <1>6, <1>7, <1>8, <1>9, <1>10, <1>13, <1>14, <1>15
  <2>2. q = 0
    BY <2>1, <1>2, <1>4, <1>6, <1>8, <1>9, <1>13, <1>14
  <2> QED
    BY <1>15, <2>2 DEF q, T, i2, h, N
<1>16. CASE ~(i2 < h)
  <2>1. a >= VA_SIZE - H /\ a < VA_SIZE
    BY <1>4, <1>6, <1>8, <1>9, <1>11, <1>13, <1>16
  <2>2. ~(q >= m)
    BY <1>6, <1>8, <1>9, <1>13, <1>14, <2>1
  <2>3. ~(q < m - 1)
    BY <1>2, <1>6, <1>8, <1>9, <1>12, <1>13, <1>14, <2>1
  <2>4. q = m - 1
    BY <1>5, <1>7, <2>2, <2>3
  <2> QED
    BY <1>16, <2>4 DEF q, m, T, i2, h, N
<1> QED
  BY <1>15, <1>16

(* Two addresses that share all their indexes are the same. *)
LEMMA IndexesTell ==
  ASSUME NEW a \in VAs, NEW b \in VAs, Prefix(a, 0) = Prefix(b, 0),
         va_get_index(a, 0) = va_get_index(b, 0)
  PROVE  a = b
<1>1. a \in Nat /\ b \in Nat
  BY VAsNat
<1>2. /\ va_get_index(a, 1) \in Index /\ va_get_index(b, 1) \in Index
      /\ va_get_index(a, 2) \in Index /\ va_get_index(b, 2) \in Index
  BY <1>1, IndexInTable
<1>3. \A x \in Index : Child(0, x) = x
  BY MmAssumption DEF Child, Index
<1>4. Child(va_get_index(a, 2), va_get_index(a, 1)) = Child(va_get_index(b, 2), va_get_index(b, 1))
  <2>1. \A x : Prefix(x, 0) = Child(Child(0, va_get_index(x, 2)), va_get_index(x, 1))
    BY DEF Prefix
  <2>2. Child(0, va_get_index(a, 2)) = va_get_index(a, 2)
        /\ Child(0, va_get_index(b, 2)) = va_get_index(b, 2)
    BY <1>2, <1>3
  <2> QED
    BY <2>1, <2>2
<1>5. \A x, y \in Index :
        Child(x, y) \div PTB_ENTRY_COUNT = x /\ Child(x, y) % PTB_ENTRY_COUNT = y
  BY MmAssumption, DivideExact DEF Child, Index
<1>6. va_get_index(a, 2) = va_get_index(b, 2) /\ va_get_index(a, 1) = va_get_index(b, 1)
  BY <1>2, <1>4, <1>5
<1>7. a \div Span(3) = b \div Span(3)
  BY <1>6, Halves
<1> QED
  <2> DEFINE A == (a \div Span(3)) * Span(3)
                  + (va_get_index(a, 2) * Span(2)
                    + (va_get_index(a, 1) * PTB_ENTRY_COUNT + va_get_index(a, 0)))
             B == (b \div Span(3)) * Span(3)
                  + (va_get_index(b, 2) * Span(2)
                    + (va_get_index(b, 1) * PTB_ENTRY_COUNT + va_get_index(b, 0)))
  <2>1. A = B
    BY <1>6, <1>7
  <2>2. a = A /\ b = B
    BY <1>1, Digits
  <2> HIDE DEF A, B
  <2> QED
    BY <2>1, <2>2

(* The addresses of the calls are canonical, not 0 and all different. *)
LEMMA CallAddresses ==
  ASSUME KmapOK
  PROVE  /\ KernelSize \in Nat /\ KernelSize <= MaxKernelPages
         /\ \A j \in 1..(KernelSize + 1) : CallVA(j) \in VAs \ {0} /\ Canonical(CallVA(j))
         /\ \A j, k \in 1..(KernelSize + 1) : CallVA(j) = CallVA(k) => j = k
<1> DEFINE G == KernelGigapages * Span(2)
<1>1. /\ kmap[1] \in Nat /\ kmap[5] \in Nat /\ kmap[1] <= kmap[5]
      /\ kmap[5] <= kmap[1] + MaxKernelPages
  BY DEF KmapOK
<1>2. kmap[1] + MaxKernelPages <= G
  BY MmAssumption DEF KmapOK, PTB_LEVELS
<1>3. G \in Nat /\ G <= HalfSpace /\ KERNEL_PHYS_OFFSET = VA_SIZE - G
  BY GigapagesFit, MmAssumption DEF KERNEL_PHYS_OFFSET, PTB_LEVELS
<1>4. /\ HalfSpace \in Nat /\ VA_SIZE \in Nat /\ HalfSpace + HalfSpace < VA_SIZE
      /\ SERIAL \in 1..(HalfSpace - 1) /\ MaxKernelPages \in Nat
  <2>1. HalfSpace = Span(3) \div 2 /\ Span(3) \in Nat /\ Span(3) < VA_SIZE /\ VA_SIZE \in Nat
    BY Sizes, MmAssumption DEF HalfSpace, PTB_LEVELS
  <2> QED
    BY <2>1, Sizes, MmAssumption
<1> HIDE DEF G
<1>5. KernelSize \in Nat /\ KernelSize <= MaxKernelPages /\ KernelSize = kmap[5] - kmap[1]
  BY <1>1, <1>4 DEF KernelSize
<1>6. \A j \in 1..KernelSize :
        /\ CallVA(j) = kmap[1] + j - 1 + (VA_SIZE - G)
        /\ CallVA(j) \in (VA_SIZE - HalfSpace)..(VA_SIZE - 1)
  BY <1>1, <1>2, <1>3, <1>4, <1>5 DEF CallVA
<1>7. CallVA(KernelSize + 1) = SERIAL
  BY <1>5 DEF CallVA
<1>8. \A j \in 1..(KernelSize + 1) : CallVA(j) \in VAs \ {0} /\ Canonical(CallVA(j))
  BY <1>4, <1>5, <1>6, <1>7 DEF VAs, Canonical
<1>9. \A j, k \in 1..(KernelSize + 1) : CallVA(j) = CallVA(k) => j = k
  BY <1>1, <1>3, <1>4, <1>5, <1>6, <1>7
<1> QED
  BY <1>5, <1>8, <1>9

(* The sections are contiguous: joined, the calls for the first s of them  *)
(* are one run of pages.                                                   *)
IsRun(seq, s) ==
  /\ seq \in Seq(Request) /\ Len(seq) = kmap[s] - kmap[1]
  /\ \A i \in 1..Len(seq) : seq[i][1] = kmap[1] + i - 1 + KERNEL_PHYS_OFFSET

(* One more section continues the run of calls. *)
LEMMA ExtendRun ==
  ASSUME KmapOK, NEW s \in 1..4, NEW seq, IsRun(seq, s)
  PROVE  IsRun(seq \o SectionPages(s), s + 1)
<1>1. kmap[1] \in Nat /\ kmap[s] \in Nat /\ kmap[s + 1] \in Nat
      /\ kmap[1] <= kmap[s] /\ kmap[s] <= kmap[s + 1]
  BY DEF KmapOK
<1>2. SectionPages(s) \in Seq(Request)
  BY SectionTypes
<1>3. /\ Len(SectionPages(s)) = kmap[s + 1] - kmap[s]
      /\ \A k \in 1..(kmap[s + 1] - kmap[s]) :
           SectionPages(s)[k][1] = kmap[s] + k - 1 + KERNEL_PHYS_OFFSET
  BY <1>1 DEF SectionPages
<1> DEFINE t == SectionPages(s)
           u == seq \o t
<1> HIDE DEF t
<1>4. /\ u \in Seq(Request) /\ Len(u) = Len(seq) + Len(t)
      /\ \A i \in 1..Len(u) : u[i] = IF i <= Len(seq) THEN seq[i] ELSE t[i - Len(seq)]
  <2>1. seq \in Seq(Request) /\ t \in Seq(Request)
    BY <1>2 DEF IsRun, t
  <2> QED
    BY <2>1, ConcatProperties
<1>5. KERNEL_PHYS_OFFSET \in Int
  BY GigapagesFit, MmAssumption DEF KERNEL_PHYS_OFFSET, PTB_LEVELS
<1> HIDE DEF u
<1>6. Len(u) = kmap[s + 1] - kmap[1]
  BY <1>1, <1>3, <1>4 DEF IsRun, t
<1>7. \A i \in 1..Len(u) : u[i][1] = kmap[1] + i - 1 + KERNEL_PHYS_OFFSET
  <2> SUFFICES ASSUME NEW i \in 1..Len(u)
               PROVE  u[i][1] = kmap[1] + i - 1 + KERNEL_PHYS_OFFSET
    OBVIOUS
  <2>1. CASE i <= Len(seq)
    BY <1>4, <2>1 DEF IsRun
  <2>2. CASE ~(i <= Len(seq))
    <3>1. Len(seq) = kmap[s] - kmap[1] /\ i \in 1..(kmap[s + 1] - kmap[1])
      BY <1>6 DEF IsRun
    <3>2. /\ i - Len(seq) \in 1..(kmap[s + 1] - kmap[s])
          /\ kmap[s] + (i - Len(seq)) - 1 + KERNEL_PHYS_OFFSET
               = kmap[1] + i - 1 + KERNEL_PHYS_OFFSET
      <4> DEFINE a == kmap[1]  b == kmap[s]  c == kmap[s + 1]
                 l == Len(seq)  o == KERNEL_PHYS_OFFSET
      <4>1. a \in Nat /\ b \in Nat /\ c \in Nat /\ o \in Int /\ l = b - a
            /\ i \in 1..(c - a) /\ ~(i <= l)
        BY <1>1, <1>5, <2>2, <3>1, Zenon
      <4> HIDE DEF a, b, c, l, o
      <4>2. i - l \in 1..(c - b) /\ b + (i - l) - 1 + o = a + i - 1 + o
        BY <4>1
      <4> QED
        BY <4>2, Zenon DEF a, b, c, l, o
    <3>3. u[i] = t[i - Len(seq)]
      BY <1>4, <2>2
    <3> QED
      BY <1>3, <3>2, <3>3 DEF t
  <2> QED
    BY <2>1, <2>2
<1> QED
  BY <1>4, <1>6, <1>7 DEF IsRun, u, t

(* The list of calls, as RootTable makes it. *)
LEMMA TodoShape ==
  ASSUME KmapOK, NEW calls,
         calls = SectionPages(1) \o SectionPages(2) \o SectionPages(3) \o SectionPages(4)
                 \o << <<SERIAL, SERIAL, {"R", "W"}>> >>
  PROVE  Len(calls) = KernelSize + 1 /\ \A i \in 1..Len(calls) : calls[i][1] = CallVA(i)
<1>1. IsRun(SectionPages(1), 2)
  <2>1. kmap[1] \in Nat /\ kmap[2] \in Nat /\ kmap[1] <= kmap[2]
    BY DEF KmapOK
  <2>2. SectionPages(1) \in Seq(Request)
    BY SectionTypes
  <2>3. SectionPages(1) = [k \in 1..(kmap[2] - kmap[1]) |->
           <<kmap[1] + k - 1 + KERNEL_PHYS_OFFSET, kmap[1] + k - 1, Sections[1]>>]
    <3>1. 1 + 1 = 2
      OBVIOUS
    <3> QED
      BY <3>1, Zenon DEF SectionPages
  <2>4. Len(SectionPages(1)) = kmap[2] - kmap[1]
    BY <2>1, <2>3
  <2>5. \A i \in 1..Len(SectionPages(1)) :
          SectionPages(1)[i][1] = kmap[1] + i - 1 + KERNEL_PHYS_OFFSET
    BY <2>3, <2>4
  <2> QED
    BY <2>2, <2>4, <2>5 DEF IsRun
<1>2. IsRun(SectionPages(1) \o SectionPages(2), 3)
  BY <1>1, ExtendRun
<1>3. IsRun(SectionPages(1) \o SectionPages(2) \o SectionPages(3), 4)
  BY <1>2, ExtendRun
<1> DEFINE all == SectionPages(1) \o SectionPages(2) \o SectionPages(3) \o SectionPages(4)
           last == <<SERIAL, SERIAL, {"R", "W"}>>
<1>4. IsRun(all, 5)
  BY <1>3, ExtendRun
<1>5. last \in Request /\ last[1] = SERIAL
  BY Sizes, MmAssumption DEF Request, Perms
<1> HIDE DEF all, last
<1>6. calls = all \o <<last>>
  BY DEF all, last
<1>7. KernelSize \in Nat /\ Len(all) = KernelSize
  BY <1>4, CallAddresses DEF IsRun, KernelSize
<1>8. /\ Len(calls) = KernelSize + 1
      /\ \A i \in 1..Len(calls) : calls[i] = IF i <= Len(all) THEN all[i] ELSE last
  <2> DEFINE one == <<last>>
  <2>1. all \in Seq(Request) /\ one \in Seq(Request) /\ Len(one) = 1 /\ one[1] = last
    BY <1>4, <1>5 DEF IsRun
  <2>2. calls = all \o one
    BY <1>6
  <2> HIDE DEF one
  <2>5. \A x, y \in Seq(Request) :
          /\ Len(x \o y) = Len(x) + Len(y)
          /\ \A i \in 1..(Len(x) + Len(y)) :
               (x \o y)[i] = IF i <= Len(x) THEN x[i] ELSE y[i - Len(x)]
    BY ConcatProperties, Zenon
  <2>3. /\ Len(calls) = Len(all) + Len(one)
        /\ \A i \in 1..(Len(all) + Len(one)) :
             calls[i] = IF i <= Len(all) THEN all[i] ELSE one[i - Len(all)]
    BY <2>1, <2>2, <2>5, Zenon
  <2>4. \A i \in 1..(KernelSize + 1) : ~(i <= KernelSize) => i - KernelSize = 1
    BY <1>7
  <2> QED
    BY <1>7, <2>1, <2>3, <2>4
<1> QED
  BY <1>4, <1>5, <1>7, <1>8, SMTT(30) DEF IsRun, CallVA

(* With Room, the tables of all the calls are pages of RAM. *)
LEMMA RoomForTables ==
  ASSUME Room, KmapOK, NEW n \in 1..(2 * KernelSize + 5) PROVE Taken(n) \subseteq RamPages
<1>1. /\ KernelSize \in Nat /\ KernelSize <= MaxKernelPages /\ MaxKernelPages \in Nat
      /\ kmap[1] \in Nat /\ kmap[5] \in Nat /\ kmap[5] = kmap[1] + KernelSize
  BY CallAddresses, MmAssumption DEF KmapOK, KernelSize
<1>2. kmap[1]..(kmap[1] + 3 * MaxKernelPages + 5) \subseteq RamPages
  BY DEF Room, KmapOK
<1>3. Taken(n) \subseteq kmap[1]..(kmap[1] + 3 * MaxKernelPages + 5)
  BY <1>1 DEF Taken, kernel_end
<1> QED
  BY <1>2, <1>3

(* What the loop of vm_map_page() finds when all is well. *)
LEMMA SucceedingLoop ==
  ASSUME Room, TInv, BootInv, Succeeding, FirstBoot, Loop
  PROVE  /\ pc \in {"map", "direct", "move"} /\ (pc = "move" => va = 0) /\ ~panicked
         /\ CallsOK /\ MappedOK
         /\ next \in Nat /\ level \in 0..2 /\ CallsLeft \in Nat /\ KernelSize \in Nat
         /\ next + 2 * CallsLeft + level <= 2 * KernelSize + 5
         /\ Table # NoPage
         /\ level = 0 => ~pte_valid(Pte)
         /\ level > 0 => ~GetFails /\ Deref(FreePage) # NoPage
<1>1. pc \notin {"alloc_init", "root", "done", "fault"} /\ level \in 0..2
  BY DEF Loop, InLoop, TInv, Done, PTB_LEVELS, BootInv
<1>2. initialized /\ ~panicked
  BY <1>1, Zenon DEF BootInv, Succeeding
<1>3. CallsOK /\ MappedOK /\ PagesOK
  BY <1>1 DEF Succeeding
<1>a. PICK n \in 1..(ALLOC_LIST_SIZE - 1) :
           \E lev \in [Taken(n) -> 0..2], pre \in [Taken(n) -> Nat] : Building(n, lev, pre)
  BY <1>1 DEF BootInv
<1>4. PICK lev \in [Taken(n) -> 0..2], pre \in [Taken(n) -> Nat] : Building(n, lev, pre)
  BY <1>a
<1>5. /\ ptb \in Taken(n) /\ pc \in {"map", "direct", "move"} /\ (pc = "move" => va = 0)
      /\ lev[ptb] = level /\ pre[ptb] = Prefix(va, level)
  BY <1>4 DEF Building, AtLevel, Loop
<1>6. EarlyList(n) /\ next = n
  BY <1>4, <1>5 DEF Building, EarlyList
<1>7. /\ KernelSize \in Nat /\ KernelSize <= MaxKernelPages /\ MaxKernelPages \in Nat
      /\ ALLOC_LIST_SIZE \in Nat /\ n \in Nat /\ n >= 1
  BY CallAddresses, MmAssumption, AllocAssumption DEF TInv
<1>8. CallsLeft \in Nat
  <2>1. Len(todo) \in Nat
    BY DEF TInv
  <2> QED
    BY <2>1 DEF CallsLeft
<1>9. n + 2 * CallsLeft + level <= 2 * KernelSize + 5
  BY <1>3, <1>5, <1>6 DEF PagesOK, Loop
<1>10. Table # NoPage
  <2>1. ptb \in RamPages
    BY <1>1, <1>5, <1>7, <1>8, <1>9, RoomForTables DEF TInv
  <2> QED
    BY <2>1, EarlyDeref, NoPageNotRam DEF Table, FirstBoot
<1>11. ASSUME level = 0, pte_valid(Pte) PROVE FALSE
  <2>1. Table = ptb /\ ptb \in RamPages /\ va_get_index(va, 0) \in Index
    BY <1>4, <1>10, <1>11, LoopFacts
  <2>2. mem[ptb][va_get_index(va, 0)].valid
    BY <1>11, <2>1 DEF pte_valid, Pte
  <2>3. PICK t \in mapped : /\ Prefix(t[1], 0) = Prefix(va, 0)
                            /\ va_get_index(t[1], 0) = va_get_index(va, 0)
    BY <1>4, <1>5, <1>11, <2>1, <2>2 DEF Building, Leaves
  <2>4. PICK j \in 1..Issued : t[1] = CallVA(j) /\ (pc # "move" => j < Issued)
    BY <1>3, <1>5 DEF MappedOK, Loop
  <2>5. Issued \in Int /\ Issued <= KernelSize + 1
    <3>1. Len(todo) \in Nat
      BY DEF TInv
    <3> QED
      BY <1>7, <3>1 DEF Issued
  <2>6. j \in 1..(KernelSize + 1)
    BY <1>7, <2>5
  <2>7. t[1] \in VAs \ {0}
    BY <2>4, <2>6, CallAddresses DEF TInv
  <2>8. t[1] = va
    BY <2>3, <2>7, IndexesTell DEF TInv, TypeOK
  <2>9. CASE pc = "move"
    BY <1>5, <2>7, <2>8, <2>9
  <2>10. CASE pc # "move"
    <3>1. va = CallVA(Issued) /\ j < Issued
      BY <1>3, <2>4, <2>10 DEF CallsOK, Loop
    <3>2. Issued \in 1..(KernelSize + 1)
      BY <1>7, <2>5, <2>6, <3>1
    <3>3. CallVA(j) = CallVA(Issued)
      BY <2>4, <2>8, <3>1
    <3>4. j = Issued
      BY <2>6, <3>2, <3>3, CallAddresses DEF TInv
    <3> QED
      BY <2>5, <3>1, <3>4
  <2> QED
    BY <2>9, <2>10
<1>12. ASSUME level > 0 PROVE ~GetFails /\ Deref(FreePage) # NoPage
  <2>1. n <= 2 * KernelSize + 4
    BY <1>1, <1>7, <1>8, <1>9, <1>12
  <2>2. n < ALLOC_LIST_SIZE - 1
    BY <1>7, <2>1 DEF Room
  <2>3. ~GetFails
    BY <1>2, <1>6, <1>7, <2>2 DEF GetFails, Exhausted
  <2>4. FreePage = kernel_end + n
    BY <1>6, <1>7, <2>2 DEF EarlyList, FreePage
  <2>5. n + 1 \in 1..(2 * KernelSize + 5)
    BY <1>7, <2>1
  <2>6. kernel_end + n \in RamPages
    BY <2>5, RoomForTables, TakenPages DEF TInv
  <2> QED
    BY <2>3, <2>4, <2>6, EarlyDeref, NoPageNotRam DEF FirstBoot
<1> QED
  BY <1>1, <1>2, <1>3, <1>5, <1>6, <1>7, <1>8, <1>9, <1>10, <1>11, <1>12

(* The loop goes on to its end. *)
LEMMA LoopSucceeds ==
  ASSUME Room, TInv, BootInv, Succeeding, FirstBoot, vm_map_page PROVE Succeeding'
<1>1. Loop
  BY DEF vm_map_page, MapFaults, MapLeaf, MapNewTable, MapDescend
<1>2. /\ pc \in {"map", "direct", "move"} /\ (pc = "move" => va = 0) /\ ~panicked
      /\ CallsOK /\ MappedOK
      /\ next \in Nat /\ level \in 0..2 /\ CallsLeft \in Nat /\ KernelSize \in Nat
      /\ next + 2 * CallsLeft + level <= 2 * KernelSize + 5
      /\ Table # NoPage
      /\ level = 0 => ~pte_valid(Pte)
      /\ level > 0 => ~GetFails /\ Deref(FreePage) # NoPage
  BY <1>1, SucceedingLoop
<1>3. ~MapFaults
  BY <1>2 DEF MapFaults
<1>4. /\ pc' = pc /\ todo' = todo /\ va' = va /\ kmap' = kmap /\ panicked' = panicked
  BY <1>2, <1>3 DEF vm_map_page, MapLeaf, MapNewTable, MapDescend, bugVars
<1>5. /\ KernelSize' = KernelSize /\ Issued' = Issued /\ CallsLeft' = CallsLeft
      /\ \A j : CallVA(j)' = CallVA(j)
  BY <1>4 DEF KernelSize, Issued, CallsLeft, CallVA
<1>6. CASE MapLeaf
  <2>1. level' = Done /\ next' = next /\ mapped' = mapped \cup {<<va, pa, flags>>} /\ level = 0
    BY <1>2, <1>6 DEF MapLeaf, allocVars
  <2>2. ~InLoop'
    BY <2>1 DEF InLoop, Done, PTB_LEVELS
  <2>3. CallsOK'
    BY <1>2, <1>4, <1>5, <2>2 DEF CallsOK
  <2>4. MappedOK'
    <3> SUFFICES ASSUME pc # "move", NEW t \in mapped' PROVE \E j \in 1..Issued : t[1] = CallVA(j)
      BY <1>4, <1>5, <2>2 DEF MappedOK
    <3>1. CASE t \in mapped
      BY <1>2, <3>1 DEF MappedOK
    <3>2. CASE t = <<va, pa, flags>>
      <4>1. va = CallVA(Issued) /\ Issued >= 1 /\ Issued \in Int
        <5>1. Len(todo) \in Nat
          BY DEF TInv
        <5> QED
          BY <1>1, <1>2, <5>1 DEF CallsOK, Loop, Issued
      <4> QED
        BY <3>2, <4>1
    <3> QED
      BY <2>1, <3>1, <3>2
  <2>5. PagesOK'
    BY <1>2, <1>5, <2>1, <2>2 DEF PagesOK
  <2> QED
    BY <1>2, <1>4, <2>3, <2>4, <2>5 DEF Succeeding
<1>7. CASE MapNewTable \/ MapDescend
  <2>1. level > 0 /\ level' = level - 1 /\ mapped' = mapped
    BY <1>2, <1>7 DEF MapNewTable, MapDescend
  <2>2. next' \in {next, next + 1}
    BY <1>2, <1>7 DEF MapNewTable, MapDescend, allocVars, alloc_get_page
  <2>3. InLoop' /\ InLoop
    BY <1>1, <1>2, <2>1 DEF InLoop, Loop, PTB_LEVELS
  <2>4. CallsOK' /\ MappedOK'
    BY <1>2, <1>4, <1>5, <2>1, <2>3 DEF CallsOK, MappedOK
  <2>5. PagesOK'
    <3>2. \A x, c, l, k \in Nat : \A y \in {x, x + 1} :
            x + 2 * c + l <= 2 * k + 5 => y + 2 * c + (l - 1) <= 2 * k + 5
      OBVIOUS
    <3>3. /\ next \in Nat /\ CallsLeft \in Nat /\ level \in Nat /\ KernelSize \in Nat
          /\ next + 2 * CallsLeft + level <= 2 * KernelSize + 5
      BY <1>2
    <3>1. next' + 2 * CallsLeft' + level' <= 2 * KernelSize + 5
      <4>1. next' + 2 * CallsLeft + (level - 1) <= 2 * KernelSize + 5
        BY <2>2, <3>2, <3>3
      <4> QED
        BY <1>5, <2>1, <4>1
    <3> QED
      BY <1>5, <2>3, <3>1 DEF PagesOK
  <2> QED
    BY <1>2, <1>4, <2>4, <2>5 DEF Succeeding
<1> QED
  BY <1>3, <1>6, <1>7 DEF vm_map_page

(* The steps between the calls succeed. *)
LEMMA InitStepSucceeds ==
  ASSUME Room, TInv, BootInv, Succeeding, FirstBoot, vm_init PROVE Succeeding'
<1>1. ~InLoop /\ kmap' = kmap /\ level = Done /\ ~panicked
  <2>1. ~InLoop
    BY DEF vm_init, EarlyAlloc, RootTable, MapNext, vm_init_kernel_direct_map, MapNull,
           MoveAlloc, WriteSatp, Step
  <2>2. kmap' = kmap
    BY DEF vm_init, EarlyAlloc, RootTable, MapNext, vm_init_kernel_direct_map, MapNull,
           MoveAlloc, WriteSatp
  <2>3. ~panicked
    BY DEF Succeeding
  <2> QED
    BY <2>1, <2>2, <2>3 DEF InLoop, PTB_LEVELS, Done, TInv, TypeOK
<1>2. KernelSize' = KernelSize /\ \A j : CallVA(j)' = CallVA(j)
  BY <1>1 DEF KernelSize, CallVA
<1>3. KernelSize \in Nat /\ KernelSize <= MaxKernelPages /\ Len(todo) \in Nat
  BY CallAddresses DEF TInv
<1>4. CASE EarlyAlloc
  BY <1>1, <1>4 DEF EarlyAlloc, Step, Succeeding, bugVars
<1>5. CASE RootTable
  <2>1. /\ pc = "root" /\ pc' = "map" /\ panicked' = panicked /\ mapped' = mapped
        /\ level' = level /\ next' = next + 1 /\ next = 0
    BY <1>5 DEF RootTable, Step, bugVars, mapVars, alloc_get_page, TInv
  <2>2. /\ Len(todo') = KernelSize + 1
        /\ \A i \in 1..Len(todo') : todo'[i][1] = CallVA(i)
    <3>1. \A calls : calls = SectionPages(1) \o SectionPages(2) \o SectionPages(3)
                             \o SectionPages(4) \o << <<SERIAL, SERIAL, {"R", "W"}>> >>
            => /\ Len(calls) = KernelSize + 1
               /\ \A i \in 1..Len(calls) : calls[i][1] = CallVA(i)
      BY TodoShape DEF TInv
    <3> QED
      BY <1>5, <3>1 DEF RootTable
  <2>3. Issued' = 0 /\ CallsLeft' = KernelSize + 2 /\ ~InLoop' /\ mapped = {}
    BY <1>1, <1>2, <1>3, <2>1, <2>2 DEF Issued, CallsLeft, InLoop, Succeeding
  <2>4. CallsOK'
    BY <1>2, <1>3, <2>1, <2>2, <2>3 DEF CallsOK
  <2>5. MappedOK' /\ PagesOK'
    BY <1>2, <1>3, <2>1, <2>3 DEF MappedOK, PagesOK
  <2> QED
    BY <1>1, <2>1, <2>4, <2>5 DEF Succeeding
<1>6. CASE pc \notin {"alloc_init", "root"}
  <2>1. CallsOK /\ MappedOK /\ PagesOK
    BY <1>6 DEF Succeeding
  <2>2. CASE MapNext
    <3>1. /\ pc = "map" /\ pc' = (IF Tail(todo) = <<>> THEN "direct" ELSE "map")
          /\ todo' = Tail(todo) /\ next' = next /\ mapped' = mapped /\ todo # <<>>
          /\ Call(todo[1][1], todo[1][2], todo[1][3], TRUE)
      BY <2>2 DEF MapNext, Step, allocVars, TInv
    <3>2. /\ Len(todo) >= 1 /\ Len(todo') = Len(todo) - 1
          /\ \A i \in 1..Len(todo') : todo'[i] = todo[i + 1]
      BY <3>1 DEF TInv
    <3>3. Issued \in Nat /\ Issued' = Issued + 1 /\ Issued + 1 <= KernelSize + 1
      BY <1>2, <1>3, <2>1, <3>2 DEF Issued, CallsOK
    <3>4. todo[1][1] = CallVA(Issued + 1) /\ Canonical(todo[1][1])
      <4>1. todo[1][1] = CallVA(Issued + 1)
        BY <2>1, <1>3, <3>2 DEF CallsOK
      <4>2. Issued + 1 \in 1..(KernelSize + 1)
        BY <1>3, <3>3
      <4> QED
        BY <4>1, <4>2, CallAddresses DEF TInv
    <3>5. va' = CallVA(Issued + 1) /\ level' = 2 /\ panicked' = panicked
      BY <3>1, <3>4 DEF Call, PTB_LEVELS
    <3>6. InLoop'
      BY <3>5 DEF InLoop, PTB_LEVELS
    <3>7. CallsOK'
      <4>1. \A i \in 1..Len(todo') : todo'[i][1] = CallVA(Issued' + i)
        <5> SUFFICES ASSUME NEW i \in 1..Len(todo') PROVE todo'[i][1] = CallVA(Issued' + i)
          OBVIOUS
        <5>1. i + 1 \in 1..Len(todo) /\ Issued' + i = Issued + (i + 1)
          BY <1>3, <3>2, <3>3
        <5>2. todo[i + 1][1] = CallVA(Issued + (i + 1))
          BY <2>1, <5>1 DEF CallsOK
        <5> QED
          BY <3>2, <5>1, <5>2
      <4>2. pc' # "map" => todo' = <<>>
        BY <3>1
      <4> QED
        BY <1>2, <1>3, <2>1, <3>2, <3>3, <3>5, <4>1, <4>2 DEF CallsOK
    <3>8. MappedOK'
      BY <1>1, <1>2, <2>1, <3>1, <3>3 DEF MappedOK
    <3>9. PagesOK'
      <4>1. CallsLeft = Len(todo) + 1 /\ CallsLeft' = Len(todo)
        BY <1>3, <3>1, <3>2 DEF CallsLeft
      <4>2. next \in Nat
        BY AllocAssumption DEF TInv, TypeOK, AllocTypeOK, ListIndex
      <4> QED
        BY <1>1, <1>2, <1>3, <2>1, <3>1, <3>5, <3>6, <4>1, <4>2 DEF PagesOK
    <3> QED
      BY <1>1, <3>1, <3>5, <3>7, <3>8, <3>9 DEF Succeeding
  <2>3. CASE vm_init_kernel_direct_map
    <3>1. /\ pc = "direct" /\ pc' = "null"
          /\ UNCHANGED <<todo, next, mapped, level, panicked>>
      BY <2>3 DEF vm_init_kernel_direct_map, Step, allocVars, mapVars, bugVars
    <3>2. Issued' = Issued /\ CallsLeft' = CallsLeft /\ ~InLoop'
      BY <1>1, <1>2, <3>1 DEF Issued, CallsLeft, InLoop
    <3>3. CallsOK'
      BY <1>2, <2>1, <3>1, <3>2 DEF CallsOK
    <3>4. MappedOK' /\ PagesOK'
      BY <1>1, <1>2, <2>1, <3>1, <3>2 DEF MappedOK, PagesOK
    <3> QED
      BY <1>1, <3>1, <3>3, <3>4 DEF Succeeding
  <2>4. CASE MapNull
    <3>1. /\ pc = "null" /\ pc' = "move" /\ Call(0, 0, {}, TRUE)
          /\ UNCHANGED <<todo, next, mapped>>
      BY <2>4 DEF MapNull, Step, allocVars
    <3>2. level' = 2 /\ panicked' = panicked
      BY <3>1, Sizes DEF Call, Canonical, PTB_LEVELS
    <3>3. InLoop' /\ Issued' = Issued
      BY <1>2, <3>1, <3>2 DEF InLoop, Issued, PTB_LEVELS
    <3>4. CallsOK'
      BY <1>2, <2>1, <3>1, <3>3 DEF CallsOK
    <3>5. MappedOK'
      BY <1>1, <1>2, <2>1, <3>1, <3>3 DEF MappedOK
    <3>6. PagesOK'
      <4>1. CallsLeft = CallsLeft' + 1 /\ CallsLeft' \in Nat
        BY <1>3, <3>1 DEF CallsLeft
      <4>2. next \in Nat
        BY AllocAssumption DEF TInv, TypeOK, AllocTypeOK, ListIndex
      <4>3. next + 2 * CallsLeft + 0 <= 2 * KernelSize + 5
        BY <1>1, <2>1, <3>1 DEF PagesOK
      <4>4. next' + 2 * CallsLeft' + level' <= 2 * KernelSize + 5
        <5> DEFINE c == CallsLeft'  d == CallsLeft
        <5>1. d = c + 1 /\ c \in Nat /\ next + 2 * d + 0 <= 2 * KernelSize + 5
          BY <4>1, <4>3
        <5> HIDE DEF c, d
        <5>2. next + 2 * c + 2 <= 2 * KernelSize + 5
          BY <1>3, <4>2, <5>1
        <5> QED
          BY <3>1, <3>2, <5>2 DEF c
      <4> QED
        BY <1>2, <3>3, <4>4 DEF PagesOK
    <3> QED
      BY <1>1, <3>1, <3>2, <3>4, <3>5, <3>6 DEF Succeeding
  <2>5. CASE MoveAlloc
    <3>1. /\ pc = "move" /\ pc' = "satp" /\ UNCHANGED <<todo, mapped, level>>
      BY <2>5 DEF MoveAlloc, Step, mapVars
    <3>2. ~GetFails
      <4>1. initialized
        BY <1>6, Zenon DEF BootInv
      <4>2. next \in Nat /\ CallsLeft \in Nat /\ ALLOC_LIST_SIZE \in Nat /\ MaxKernelPages \in Nat
        BY <1>3, AllocAssumption, MmAssumption
        DEF TInv, TypeOK, AllocTypeOK, ListIndex, CallsLeft
      <4>3. next <= 2 * KernelSize + 5
        BY <1>1, <1>3, <2>1, <3>1, <4>2 DEF PagesOK
      <4> QED
        BY <1>3, <4>1, <4>2, <4>3 DEF Room, GetFails, Exhausted
    <3>3. panicked' = panicked
      BY <2>5, <3>2 DEF MoveAlloc
    <3>4. ~InLoop' /\ Issued' = Issued
      BY <1>1, <1>2, <3>1 DEF InLoop, Issued
    <3>5. CallsOK' /\ MappedOK' /\ PagesOK'
      BY <1>2, <2>1, <3>1, <3>4 DEF CallsOK, MappedOK, PagesOK
    <3> QED
      BY <1>1, <3>1, <3>3, <3>5 DEF Succeeding
  <2>6. CASE WriteSatp
    <3>1. BootInv' /\ pc' = "done"
      BY <2>6, InitStepBoot DEF WriteSatp, Step
    <3> QED
      BY <3>1 DEF BootInv, Succeeding
  <2> QED
    BY <1>6, <2>2, <2>3, <2>4, <2>5, <2>6 DEF vm_init, EarlyAlloc, RootTable, Step
<1> QED
  <2>1. CASE pc = "alloc_init"
    BY <1>4, <2>1 DEF vm_init, RootTable, MapNext, vm_init_kernel_direct_map, MapNull,
       MoveAlloc, WriteSatp, Step
  <2>2. CASE pc = "root"
    BY <1>5, <2>2 DEF vm_init, EarlyAlloc, MapNext, vm_init_kernel_direct_map, MapNull,
       MoveAlloc, WriteSatp, Step
  <2> QED
    BY <1>6, <2>1, <2>2

(* vm_init() from power-on, RAM being zero, maps the kernel, the serial    *)
(* port and the null page without a panic or a page fault, for tables of   *)
(* any size and every layout of the sections: no page is found mapped      *)
(* already, the allocator never runs out and every table is within reach.  *)
(* The hypothesis is that RAM and the allocator's list have room for two   *)
(* tables per call of vm_map_page().                                       *)
THEOREM FirstBootGoesThrough ==
  ASSUME GarbagePTEs = {ZeroPTE}, Room PROVE Spec => []FirstBootSucceeds
<1>1. Init => Succeeding
  BY DEF Init, AllocInit, Succeeding
<1>2. TInv /\ SatpOK /\ BootInv /\ Succeeding /\ [Next]_vars => Succeeding'
  <2> SUFFICES ASSUME TInv, SatpOK, BootInv, Succeeding, [Next]_vars, FirstBoot'
               PROVE  Succeeding'
    BY DEF Succeeding
  <2>1. CASE UNCHANGED vars
    <3>1. UNCHANGED <<panicked, pc, mapped, todo, kmap, va, level, next, satp, resets>>
      BY <2>1 DEF vars, allocVars, bugVars, mapVars
    <3>2. /\ FirstBoot /\ KernelSize' = KernelSize /\ Issued' = Issued
          /\ CallsLeft' = CallsLeft /\ InLoop' = InLoop /\ \A j : CallVA(j)' = CallVA(j)
      BY <3>1 DEF FirstBoot, KernelSize, Issued, CallsLeft, InLoop, CallVA
    <3>3. CallsOK => CallsOK'
      BY <3>1, <3>2 DEF CallsOK
    <3>4. (MappedOK => MappedOK') /\ (PagesOK => PagesOK')
      BY <3>1, <3>2 DEF MappedOK, PagesOK
    <3> QED
      BY <3>1, <3>2, <3>3, <3>4 DEF Succeeding
  <2> QED
    BY <2>1, FirstBootIsOver, LoopSucceeds, InitStepSucceeds
<1>3. Succeeding => FirstBootSucceeds
  BY DEF Succeeding, FirstBoot, FirstBootSucceeds
<1> QED
  BY <1>1, <1>2, <1>3, TypeInvariance, SatpInvariance, BootInvariance, PTL DEF Spec
-----------------------------------------------------------------------------
(* Translation. *)

(* The hardware's walk in a given memory m, step by step. *)
At(p) == [kind |-> "table", page |-> p, perm |-> {}]

EntryStep(pte, v, l) ==
  IF \/ ~pte.valid \/ pte.ppn >= PPN_SIZE
     \/ pte.perm = {} /\ l = 0
     \/ pte.perm # {} /\ pte.ppn % Span(l) # 0 THEN Fault
  ELSE IF pte.perm = {} THEN At(pte.ppn)
  ELSE [kind |-> "leaf", page |-> pte.ppn + (v % Span(l)), perm |-> pte.perm]

StepIn(m, v, acc, l) ==
  IF acc.kind # "table" THEN acc
  ELSE IF acc.page \notin RamPages THEN Fault
  ELSE EntryStep(m[acc.page][va_get_index(v, l)], v, l)

Level1In(m, v) == StepIn(m, v, At(kernel_end), 2)
Level0In(m, v) == StepIn(m, v, Level1In(m, v), 1)
WalkIn(m, v)   == StepIn(m, v, Level0In(m, v), 0)

(* A step of the hardware's walk depends on the memory alone. *)
LEMMA StepIs ==
  ASSUME NEW v, NEW acc, NEW l
  PROVE  /\ WalkStep(v, acc, l) = StepIn(mem, v, acc, l)
         /\ WalkStep(v, acc, l)' = StepIn(mem', v, acc, l)
BY Zenon DEF WalkStep, StepIn, EntryStep, At, va_get_index

(* The walk of the kernel's page table, in the memory as it is. *)
LEMMA WalkIs ==
  ASSUME NEW v
  PROVE  Walk(kernel_end, v) = IF v \in VAs THEN WalkIn(mem, v) ELSE Fault
BY StepIs, Zenon DEF Walk, WalkIn, Level0In, Level1In, At

(* What a step may return. *)
LEMMA StepTable ==
  ASSUME NEW m, NEW v, NEW acc, NEW l,
         acc.kind = "table", StepIn(m, v, acc, l).kind = "table"
  PROVE  LET pte == m[acc.page][va_get_index(v, l)]
         IN  /\ acc.page \in RamPages /\ pte.valid /\ pte.perm = {} /\ l # 0
             /\ StepIn(m, v, acc, l) = At(pte.ppn)
BY DEF StepIn, EntryStep, Fault, At

(* A walk that has ended stays where it ended. *)
LEMMA StepStops ==
  ASSUME NEW m, NEW v, NEW acc, NEW l, acc.kind # "table"
  PROVE  StepIn(m, v, acc, l) = acc
BY DEF StepIn

(* Memories that agree on the entry read give the same step. *)
LEMMA StepSame ==
  ASSUME NEW m, NEW w, NEW v, NEW acc, NEW l,
         acc.kind = "table" /\ acc.page \in RamPages =>
           w[acc.page][va_get_index(v, l)] = m[acc.page][va_get_index(v, l)]
  PROVE  StepIn(w, v, acc, l) = StepIn(m, v, acc, l)
BY DEF StepIn

(* An entry that is not valid ends the walk in a fault. *)
LEMMA StepInvalid ==
  ASSUME NEW m, NEW v, NEW p, NEW l, ~m[p][va_get_index(v, l)].valid
  PROVE  StepIn(m, v, At(p), l) = Fault
BY DEF StepIn, EntryStep, At

(* The tables the walk goes through are those of the address. *)
LEMMA Reached ==
  ASSUME TInv, NEW n \in 1..(ALLOC_LIST_SIZE - 1), NEW lev \in [Taken(n) -> 0..2],
         NEW pre \in [Taken(n) -> Nat], Levels(n, lev, pre), NEW v \in VAs
  PROVE  /\ LET q == Level1In(mem, v)
            IN  q.kind = "table" =>
                  /\ q = At(q.page) /\ q.page \in Taken(n)
                  /\ lev[q.page] = 1 /\ pre[q.page] = Prefix(v, 1)
         /\ LET q == Level0In(mem, v)
            IN  q.kind = "table" =>
                  /\ q = At(q.page) /\ q.page \in Taken(n)
                  /\ lev[q.page] = 0 /\ pre[q.page] = Prefix(v, 0)
<1>1. va_get_index(v, 2) \in Index /\ va_get_index(v, 1) \in Index
  BY IndexInTable, VAsNat
<1>2. kernel_end \in Taken(n) /\ lev[kernel_end] = 2 /\ pre[kernel_end] = 0
  BY TakenPages DEF TInv, Levels
<1>3. At(kernel_end).kind = "table" /\ At(kernel_end).page = kernel_end
  BY DEF At
<1> DEFINE q1 == Level1In(mem, v)
           q0 == Level0In(mem, v)
<1>4. ASSUME q1.kind = "table"
      PROVE  /\ q1 = At(q1.page) /\ q1.page \in Taken(n)
             /\ lev[q1.page] = 1 /\ pre[q1.page] = Prefix(v, 1)
  <2> DEFINE e == mem[kernel_end][va_get_index(v, 2)]
  <2>1. kernel_end \in RamPages /\ e.valid /\ e.perm = {} /\ q1 = At(e.ppn)
    BY <1>3, <1>4, StepTable DEF Level1In
  <2>2. e.ppn \in Taken(n) /\ lev[e.ppn] = 2 - 1 /\ pre[e.ppn] = Child(0, va_get_index(v, 2))
    BY <1>1, <1>2, <2>1 DEF Levels
  <2>3. q1.page = e.ppn
    BY <2>1 DEF At
  <2> QED
    BY <2>1, <2>2, <2>3 DEF Prefix
<1>5. ASSUME q0.kind = "table"
      PROVE  /\ q0 = At(q0.page) /\ q0.page \in Taken(n)
             /\ lev[q0.page] = 0 /\ pre[q0.page] = Prefix(v, 0)
  <2> DEFINE e == mem[q1.page][va_get_index(v, 1)]
  <2>0. q1.kind = "table"
    BY <1>5, StepStops DEF Level0In
  <2>1. q1.page \in RamPages /\ e.valid /\ e.perm = {} /\ q0 = At(e.ppn)
    BY <1>5, <2>0, StepTable DEF Level0In
  <2>4. q1.page \in Taken(n) /\ lev[q1.page] = 1 /\ pre[q1.page] = Prefix(v, 1)
    BY <1>4, <2>0
  <2> HIDE DEF q1
  <2>2. e.ppn \in Taken(n) /\ lev[e.ppn] = 1 - 1
        /\ pre[e.ppn] = Child(Prefix(v, 1), va_get_index(v, 1))
    BY <1>1, <2>1, <2>4 DEF Levels
  <2>3. q0.page = e.ppn
    BY <2>1 DEF At
  <2> QED
    BY <2>1, <2>2, <2>3 DEF Prefix
<1> QED
  BY <1>4, <1>5

(* The memory w is mem but for the entry i of the table q, and the new     *)
(* table.                                                                  *)
EntryWritten(w, q, i, e) ==
  /\ w[q][i] = e /\ \A k \in Index \ {i} : w[q][k] = mem[q][k]
  /\ \A p \in RamPages \ {q} : w[p] = mem[p]
TableWritten(w, q, i, e, new) ==
  /\ w[new] = ZeroPage /\ w[q][i] = e /\ \A k \in Index \ {i} : w[q][k] = mem[q][k]
  /\ \A p \in RamPages \ {new, q} : w[p] = mem[p]

(* A new table leaves every translation as it was: where its entry comes   *)
(* to be, the walk ended before, and it ends in the new table now.  An     *)
(* entry with a page number that is too large ends the walk itself.        *)
LEMMA NewTableWalk ==
  ASSUME TInv, NEW n \in 1..(ALLOC_LIST_SIZE - 1), NEW lev \in [Taken(n) -> 0..2],
         NEW pre \in [Taken(n) -> Nat], Levels(n, lev, pre), NEW v \in VAs,
         NEW q \in RamPages, q \in Taken(n), lev[q] # 0, NEW i \in Index, ~mem[q][i].valid,
         NEW new \in RamPages, new \notin Taken(n), NEW a,
         a = new \/ a >= PPN_SIZE, NEW w, TableWritten(w, q, i, Entry(a, {}), new)
  PROVE  WalkIn(w, v) = WalkIn(mem, v)
<1>a. /\ w[new] = ZeroPage /\ w[q][i] = Entry(a, {}) /\ \A k \in Index \ {i} : w[q][k] = mem[q][k]
      /\ \A p \in RamPages \ {new, q} : w[p] = mem[p]
  BY DEF TableWritten
<1> DEFINE a1 == Level1In(mem, v)  a0 == Level0In(mem, v)
           b1 == Level1In(w, v)    b0 == Level0In(w, v)
<1>1. /\ va_get_index(v, 2) \in Index /\ va_get_index(v, 1) \in Index
      /\ va_get_index(v, 0) \in Index
  BY IndexInTable, VAsNat
<1>2. kernel_end \in Taken(n) /\ \A p \in Taken(n) : lev[p] = 2 <=> p = kernel_end
  BY TakenPages DEF TInv, Levels
<1>3. /\ a1.kind = "table" => a1 = At(a1.page) /\ a1.page \in Taken(n) /\ lev[a1.page] = 1
      /\ a0.kind = "table" => a0 = At(a0.page) /\ a0.page \in Taken(n) /\ lev[a0.page] = 0
  BY Reached
<1>4. \A p \in Taken(n) \cap RamPages, k \in Index :
        ~(p = q /\ k = i) => w[p][k] = mem[p][k]
  BY <1>a
<1>5. \A l \in 0..2 : StepIn(w, v, At(new), l) = Fault
  <2>1. \A l \in 0..2 : ~w[new][va_get_index(v, l)].valid
    BY <1>1, <1>a DEF ZeroPage, ZeroPTE
  <2> QED
    BY <2>1, StepInvalid
<1>6. \A l \in {1, 2} : va_get_index(v, l) = i => StepIn(w, v, At(q), l) \in {Fault, At(new)}
  <2>1. Entry(a, {}).perm = {} /\ Entry(a, {}).ppn = a
    BY DEF Entry
  <2>2. \A l \in {1, 2} : EntryStep(Entry(a, {}), v, l) \in {Fault, At(new)}
    BY <2>1 DEF EntryStep
  <2>3. \A l \in {1, 2} : va_get_index(v, l) = i =>
          StepIn(w, v, At(q), l) = EntryStep(Entry(a, {}), v, l)
    BY <1>a DEF StepIn, At
  <2> QED
    BY <2>2, <2>3
<1>7. \A l \in 0..2 : va_get_index(v, l) = i => StepIn(mem, v, At(q), l) = Fault
  BY StepInvalid
<1>8. \A m, l : StepIn(m, v, Fault, l) = Fault
  BY StepStops DEF Fault
<1>9. b1 = a1 => b0 = a0 \/ (a1 = At(q) /\ va_get_index(v, 1) = i)
  <2> SUFFICES ASSUME b1 = a1, ~(a1 = At(q) /\ va_get_index(v, 1) = i) PROVE b0 = a0
    OBVIOUS
  <2>1. a1.kind = "table" /\ a1.page \in RamPages =>
          w[a1.page][va_get_index(v, 1)] = mem[a1.page][va_get_index(v, 1)]
    BY <1>1, <1>3, <1>4
  <2>2. StepIn(w, v, a1, 1) = StepIn(mem, v, a1, 1)
    BY <2>1, StepSame
  <2> QED
    BY <2>2 DEF Level0In
<1>10. b0 = a0 => WalkIn(w, v) = WalkIn(mem, v)
  <2> SUFFICES ASSUME b0 = a0 PROVE WalkIn(w, v) = WalkIn(mem, v)
    OBVIOUS
  <2>1. a0.kind = "table" /\ a0.page \in RamPages =>
          w[a0.page][va_get_index(v, 0)] = mem[a0.page][va_get_index(v, 0)]
    BY <1>1, <1>3, <1>4
  <2>2. StepIn(w, v, a0, 0) = StepIn(mem, v, a0, 0)
    BY <2>1, StepSame
  <2> QED
    BY <2>2 DEF WalkIn
<1>11. CASE b1 # a1
  <2>1. q = kernel_end /\ va_get_index(v, 2) = i
    <3> SUFFICES ASSUME ~(kernel_end = q /\ va_get_index(v, 2) = i) PROVE b1 = a1
      BY <1>11
    <3>1. kernel_end \in RamPages =>
            w[kernel_end][va_get_index(v, 2)] = mem[kernel_end][va_get_index(v, 2)]
      BY <1>1, <1>2, <1>4
    <3> QED
      BY <3>1, StepSame DEF Level1In, At
  <2>2. a1 = Fault /\ b1 \in {Fault, At(new)}
    BY <1>6, <1>7, <2>1 DEF Level1In
  <2>3. a0 = Fault /\ b0 = Fault
    BY <1>5, <1>8, <2>2 DEF Level0In
  <2> QED
    BY <1>10, <2>3
<1>12. CASE b1 = a1 /\ b0 # a0
  <2>1. a1 = At(q) /\ va_get_index(v, 1) = i
    BY <1>9, <1>12
  <2>2. a0 = Fault /\ b0 \in {Fault, At(new)}
    BY <1>6, <1>7, <1>12, <2>1 DEF Level0In
  <2> QED
    BY <1>5, <1>8, <2>2 DEF WalkIn
<1> QED
  BY <1>10, <1>11, <1>12

(* A leaf gives the page it was made for to the address it was made for,   *)
(* which had none, and changes no other translation.                       *)
LEMMA LeafWalk ==
  ASSUME TInv, NEW n \in 1..(ALLOC_LIST_SIZE - 1), NEW lev \in [Taken(n) -> 0..2],
         NEW pre \in [Taken(n) -> Nat], Levels(n, lev, pre), NEW v \in VAs,
         NEW x \in VAs, NEW q \in RamPages, Level0In(mem, x) = At(q),
         ~mem[q][va_get_index(x, 0)].valid,
         NEW p \in 0..(PPN_SIZE - 1), NEW f, NEW w,
         EntryWritten(w, q, va_get_index(x, 0), Entry(p, f))
  PROVE  /\ v # x => WalkIn(w, v) = WalkIn(mem, v)
         /\ WalkIn(mem, x) = Fault
         /\ WalkIn(w, x) = IF f = {} THEN Fault ELSE [kind |-> "leaf", page |-> p, perm |-> f]
<1>a. /\ w[q][va_get_index(x, 0)] = Entry(p, f)
      /\ \A k \in Index \ {va_get_index(x, 0)} : w[q][k] = mem[q][k]
      /\ \A r \in RamPages \ {q} : w[r] = mem[r]
  BY DEF EntryWritten
<1>1. \A u \in VAs : /\ va_get_index(u, 2) \in Index /\ va_get_index(u, 1) \in Index
                     /\ va_get_index(u, 0) \in Index
  BY IndexInTable, VAsNat
<1>2. kernel_end \in Taken(n) /\ lev[kernel_end] = 2
  BY TakenPages DEF TInv, Levels
<1>3. q \in Taken(n) /\ lev[q] = 0 /\ pre[q] = Prefix(x, 0)
  BY Reached DEF At
<1>4. ASSUME NEW u \in VAs PROVE Level0In(w, u) = Level0In(mem, u)
  <2>1. w[kernel_end] = mem[kernel_end] \/ kernel_end \notin RamPages
    BY <1>2, <1>3, <1>a
  <2>2. Level1In(w, u) = Level1In(mem, u)
    BY <2>1, StepSame DEF Level1In, At
  <2>3. Level1In(mem, u).kind = "table" => lev[Level1In(mem, u).page] = 1
    BY Reached
  <2>4. Level1In(mem, u).kind = "table" /\ Level1In(mem, u).page \in RamPages =>
          w[Level1In(mem, u).page] = mem[Level1In(mem, u).page]
    BY <1>3, <1>a, <2>3
  <2> QED
    BY <2>2, <2>4, StepSame DEF Level0In
<1>5. v # x => WalkIn(w, v) = WalkIn(mem, v)
  <2> SUFFICES ASSUME v # x PROVE WalkIn(w, v) = WalkIn(mem, v)
    OBVIOUS
  <2> DEFINE a == Level0In(mem, v)
  <2>1. a.kind = "table" => a.page \in Taken(n) /\ pre[a.page] = Prefix(v, 0)
    BY Reached
  <2>2. a.kind = "table" /\ a.page = q => va_get_index(v, 0) # va_get_index(x, 0)
    BY <1>3, <2>1, IndexesTell
  <2>3. a.kind = "table" /\ a.page \in RamPages =>
          w[a.page][va_get_index(v, 0)] = mem[a.page][va_get_index(v, 0)]
    BY <1>1, <1>a, <2>2
  <2>4. StepIn(w, v, a, 0) = StepIn(mem, v, a, 0)
    BY <2>3, StepSame
  <2> QED
    BY <1>4, <2>4 DEF WalkIn
<1>6. WalkIn(mem, x) = Fault
  BY StepInvalid DEF WalkIn
<1>7. WalkIn(w, x) = EntryStep(Entry(p, f), x, 0)
  BY <1>4, <1>a DEF WalkIn, StepIn, At
<1>8. p \in Nat /\ ~(p >= PPN_SIZE) /\ p % 1 = 0 /\ x % 1 = 0 /\ p + 0 = p
  BY MmAssumption, VAsNat
<1>9. Span(0) = 1
  BY DEF Span
<1>10. EntryStep(Entry(p, f), x, 0)
         = IF f = {} THEN Fault ELSE [kind |-> "leaf", page |-> p, perm |-> f]
  BY <1>8, <1>9 DEF EntryStep, Entry
<1> QED
  BY <1>5, <1>6, <1>7, <1>10

(* An address by its gigapage. *)
LEMMA Gigapages ==
  ASSUME NEW v \in VAs
  PROVE  /\ v % Span(2) \in 0..(Span(2) - 1)
         /\ v = IF va_get_index(v, 2) < PTB_ENTRY_COUNT \div 2
                THEN va_get_index(v, 2) * Span(2) + (v % Span(2))
                ELSE KERNEL_DIRECT_MAP_START
                       + ((va_get_index(v, 2) - PTB_ENTRY_COUNT \div 2) * Span(2)
                          + (v % Span(2)))
<1> DEFINE N  == PTB_ENTRY_COUNT
           h  == N \div 2
           S  == Span(2)
           T  == Span(3)
           g  == v \div S
           i  == va_get_index(v, 2)
           lo == v % S
           q  == v \div T
           m  == VA_SIZE \div T
<1>1. N \in Nat \ {0} /\ h \in Nat /\ N = 2 * h
  BY MmAssumption
<1>2. S \in Nat \ {0} /\ T \in Nat \ {0} /\ T = S * N
  BY <1>1, Sizes DEF Span
<1>3. v \in Nat /\ VA_SIZE \in Nat /\ VA_SIZE > T /\ VA_SIZE % T = 0
  BY VAsNat, MmAssumption DEF PTB_LEVELS
<1>4. v = g * S + lo /\ g \in Nat /\ lo \in 0..(S - 1)
  BY <1>2, <1>3, Division
<1>5. g = (g \div N) * N + i /\ g \div N = q /\ q \in Nat /\ i \in Nat
  <2>1. i = g % N
    BY DEF va_get_index
  <2>2. g \div N = q
    BY <1>1, <1>2, <1>3, DivideTwice
  <2>3. g = (g \div N) * N + (g % N) /\ g % N \in Nat /\ g \div N \in Nat
    <3> HIDE DEF g, N
    <3>1. /\ g = (g \div N) * N + (g % N)
          /\ g \div N \in Nat /\ g % N \in 0..(N - 1)
      BY <1>1, <1>4, Division
    <3> QED
      BY <1>1, <3>1
  <2> QED
    BY <2>1, <2>2, <2>3
<1>6. VA_SIZE = m * T /\ m \in Nat
  <2>1. VA_SIZE = m * T + (VA_SIZE % T) /\ m \in Nat
    BY <1>2, <1>3, Division
  <2> HIDE DEF m, T
  <2> QED
    BY <1>2, <1>3, <2>1
<1>7. q = IF i < h THEN 0 ELSE m - 1
  BY Halves
<1>8. KERNEL_DIRECT_MAP_START = VA_SIZE - h * S
  BY GigapagesFit DEF KERNEL_DIRECT_MAP_START
<1> HIDE DEF N, h, S, T, g, i, lo, q, m
<1>9. v = (q * N + i) * S + lo
  BY <1>4, <1>5
<1>10. CASE i < h
  <2>1. q * N + i = i
    BY <1>1, <1>5, <1>7, <1>10
  <2> QED
    BY <1>4, <1>9, <1>10, <2>1 DEF N, h, S, i, lo
<1>11. CASE ~(i < h)
  <2>1. v = ((m - 1) * N + i) * S + lo
    BY <1>7, <1>9, <1>11
  <2>2. ((m - 1) * N + i) * S = m * T - T + i * S
    BY <1>1, <1>2, <1>5, <1>6
  <2>3. T = h * S + h * S /\ (i - h) * S = i * S - h * S
    BY <1>1, <1>2, <1>5
  <2> DEFINE a == m * T  b == h * S  c == i * S  d == (i - h) * S
             k == KERNEL_DIRECT_MAP_START
  <2>4. /\ a \in Int /\ b \in Int /\ c \in Int /\ d \in Int /\ lo \in Int /\ T \in Int
        /\ v = (a - T + c) + lo /\ T = b + b /\ d = c - b /\ k = a - b
    BY <1>1, <1>2, <1>4, <1>5, <1>6, <1>8, <2>1, <2>2, <2>3
  <2> HIDE DEF a, b, c, d, k
  <2>5. v = k + (d + lo)
    BY <2>4
  <2> QED
    BY <1>4, <1>11, <2>5 DEF N, h, S, i, lo, d, k
<1> QED
  BY <1>10, <1>11

(* The direct map's entries are for the addresses of the direct map, and   *)
(* lead where it says.                                                     *)
LEMMA DirectTranslation ==
  ASSUME NEW v \in VAs
  PROVE  IF v \in KERNEL_DIRECT_MAP_START..(KERNEL_DIRECT_MAP_END - 1)
         THEN /\ va_get_index(v, 2) \in DirectIndexes
              /\ EntryStep(DirectEntry(va_get_index(v, 2)), v, 2)
                   = [kind |-> "leaf", page |-> va_to_pa(v), perm |-> {"R", "W", "X"}]
         ELSE va_get_index(v, 2) \notin DirectIndexes
<1> DEFINE h  == PTB_ENTRY_COUNT \div 2
           S  == Span(2)
           K  == KERNEL_DIRECT_MAP_START
           D  == DirectGigapages
           i  == va_get_index(v, 2)
           lo == v % S
           ppn == (i - h) * S
<1>1. /\ h \in Nat /\ S \in Nat \ {0} /\ D \in Nat \ {0} /\ K \in Nat
      /\ h * S <= K /\ D * S <= PPN_SIZE /\ PPN_SIZE \in Nat
  <2>1. h * S = HalfSpace /\ D * S = KERNEL_DIRECT_MAP_SIZE
    BY GigapagesFit DEF KERNEL_DIRECT_MAP_SIZE, PTB_LEVELS
  <2> QED
    BY <2>1, SpacesFit, Sizes, MmAssumption
<1>2. lo \in 0..(S - 1) /\ v = IF i < h THEN i * S + lo ELSE K + (ppn + lo)
  BY Gigapages
<1>3. i \in Nat /\ v \in Nat
  BY IndexInTable, VAsNat, MmAssumption DEF Index
<1>4. DirectIndexes = h..(h + D - 1)
  <2>1. DirectIndexes = {h + k : k \in 0..(D - 1)}
    BY DirectIndex DEF DirectIndexes
  <2>2. \A j \in h..(h + D - 1) : j - h \in 0..(D - 1) /\ h + (j - h) = j
    BY <1>1
  <2>3. \A k \in 0..(D - 1) : h + k \in h..(h + D - 1)
    BY <1>1
  <2> HIDE DEF h, D
  <2> QED
    BY <2>1, <2>2, <2>3
<1>5. KERNEL_DIRECT_MAP_END = K + D * S
  BY DEF KERNEL_DIRECT_MAP_END, KERNEL_DIRECT_MAP_SIZE, PTB_LEVELS
<1>6. va_get_index(gigapage(0), 2) = h
  <2>1. 0 \in 0..(D - 1) /\ h + 0 = h
    BY <1>1
  <2> QED
    BY <2>1, DirectIndex
<1>7. DirectEntry(i) = Entry(ppn, {"R", "W", "X"})
  BY <1>6 DEF DirectEntry
<1>8. v \in K..(KERNEL_DIRECT_MAP_END - 1) => va_to_pa(v) = v - K
  BY <1>1, <1>5 DEF va_to_pa
<1>9. KERNEL_DIRECT_MAP_END \in Nat
  BY <1>1, <1>5
<1> HIDE DEF h, S, K, D, i, lo
<1>10. CASE i < h
  <2>1. i * S + lo < h * S
    <3>1. i * S <= (h - 1) * S
      BY <1>1, <1>3, <1>10
    <3>2. (h - 1) * S = h * S - S /\ i * S \in Nat /\ h * S \in Nat
      BY <1>1, <1>3
    <3> DEFINE a == i * S  b == h * S  c == (h - 1) * S
    <3>3. a <= c /\ c = b - S /\ a \in Nat /\ b \in Nat
      BY <3>1, <3>2
    <3> HIDE DEF a, b, c
    <3>4. a + lo < b
      BY <1>1, <1>2, <3>3
    <3> QED
      BY <3>4 DEF a, b
  <2>2. v < K
    <3> DEFINE a == i * S  b == h * S
    <3>1. v = a + lo /\ a + lo < b /\ b <= K /\ a \in Nat /\ b \in Nat
      BY <1>1, <1>2, <1>3, <1>10, <2>1
    <3> HIDE DEF a, b
    <3> QED
      BY <1>1, <1>2, <3>1
  <2>3. i \notin DirectIndexes /\ v \notin K..(KERNEL_DIRECT_MAP_END - 1)
    BY <1>1, <1>3, <1>4, <1>9, <1>10, <2>2
  <2> QED
    BY <2>3 DEF i, K
<1>11. CASE ~(i < h) /\ i < h + D
  <2>1. i - h \in 0..(D - 1)
    BY <1>1, <1>3, <1>11
  <2>2. ppn \in Nat /\ ppn % S = 0 /\ ppn <= D * S - S /\ D * S \in Nat
    <3>1. \A j \in Nat : j * S \in Nat /\ (j * S) % S = 0
      BY <1>1
    <3>2. (i - h) * S <= (D - 1) * S
      BY <1>1, <2>1
    <3>3. (D - 1) * S = D * S - S
      BY <1>1
    <3> QED
      BY <1>1, <2>1, <3>1, <3>2, <3>3
  <2> DEFINE e == D * S
  <2>3. v = K + (ppn + lo) /\ e \in Nat /\ ppn <= e - S /\ KERNEL_DIRECT_MAP_END = K + e
        /\ e <= PPN_SIZE
    BY <1>1, <1>2, <1>5, <1>11, <2>2
  <2> HIDE DEF ppn, e
  <2>4. v \in K..(KERNEL_DIRECT_MAP_END - 1) /\ ppn < PPN_SIZE /\ v - K = ppn + lo
    BY <1>1, <1>2, <2>2, <2>3
  <2>5. i \in DirectIndexes
    BY <1>1, <1>3, <1>4, <1>11
  <2>6. EntryStep(Entry(ppn, {"R", "W", "X"}), v, 2)
          = [kind |-> "leaf", page |-> ppn + lo, perm |-> {"R", "W", "X"}]
    BY <1>1, <2>2, <2>4 DEF EntryStep, Entry, S, lo
  <2> QED
    BY <1>7, <1>8, <2>4, <2>5, <2>6 DEF i, K, ppn
<1>12. CASE ~(i < h + D)
  <2>1. i - h \in Nat /\ i - h >= D
    BY <1>1, <1>3, <1>12
  <2>2. (i - h) * S >= D * S /\ D * S \in Nat /\ (i - h) * S \in Nat
    BY <1>1, <2>1
  <2> DEFINE e == D * S
  <2>5. ~(i < h)
    BY <1>1, <1>3, <1>12
  <2>6. v = K + (ppn + lo)
    BY <1>2, <2>5
  <2>3. v = K + (ppn + lo) /\ ppn >= e /\ e \in Nat /\ ppn \in Nat
        /\ KERNEL_DIRECT_MAP_END = K + e
    BY <1>5, <2>2, <2>6
  <2> HIDE DEF ppn, e
  <2>4. v \notin K..(KERNEL_DIRECT_MAP_END - 1) /\ i \notin DirectIndexes
    BY <1>1, <1>2, <1>3, <1>4, <1>12, <2>3
  <2> QED
    BY <2>4 DEF i, K
<1> QED
  BY <1>10, <1>11, <1>12
-----------------------------------------------------------------------------
(* The invariants of translation, until the machine is reset. *)

(* What vm_map_page() is called with: a page the hardware can name, and in *)
(* the lower half no page of RAM.                                          *)
Legal(t) == t[2] < PPN_SIZE /\ (t[1] < HalfSpace => t[2] \notin RamPages)
LegalCalls == {t \in Request : Legal(t) /\ t[3] # {}}

(* Only the last call, for the null page, is made without permissions. *)
MapInv ==
  resets = 0 =>
    /\ bug_behavior = "BUG_PANIC"
    /\ pc \in {"alloc_init", "root"} => mapped = {}
    /\ pc = "satp" /\ ~panicked => next = 0
    /\ todo \in Seq(LegalCalls)
    /\ satp = 0 /\ InLoop =>
         Legal(<<va, pa, flags>>) /\ (pc \in {"map", "direct"} => flags # {})
    /\ \A t \in mapped : Legal(t)
    /\ pc \in {"map", "direct", "null"} \/ (pc = "move" /\ InLoop) =>
         \A t \in mapped : t[3] # {}

(* The root's leaves lead to low addresses. *)
RootOK ==
  resets = 0 =>
    \A k \in Index : mem[kernel_end][k].perm # {} => mem[kernel_end][k].ppn < HalfSpace

(* vm_map_page() goes where the hardware goes. *)
PathOK ==
  FirstBoot /\ InLoop /\ pc # "fault" =>
    /\ level = 2 => ptb = kernel_end
    /\ level = 1 => Level1In(mem, va) = At(ptb)
    /\ level = 0 => Level0In(mem, va) = At(ptb)

(* The walk from the root gives what is wanted, unless there was no memory *)
(* for the tables.                                                         *)
TransOK ==
  resets = 0 /\ pc \notin {"alloc_init", "root"} /\ (pc = "fault" => satp # 0) =>
    \A v \in VAs : <<WalkIn(mem, v).page, WalkIn(mem, v).perm>> = Wanted(v)

(* With the new tables on, vm_map_page() reaches the root, and nothing     *)
(* beyond it: an entry is followed to a physical address.                  *)
LateInv ==
  resets = 0 /\ satp # 0 =>
    /\ pc \in {"done", "fault"}
    /\ satp = kernel_end /\ kernel_root_ptb = pa_to_va(kernel_end)
    /\ \/ /\ pc = "done" /\ (InLoop => level = 2 /\ ptb = kernel_root_ptb)
          /\ \E n \in 1..(ALLOC_LIST_SIZE - 1) :
               \E lev \in [Taken(n) -> 0..2], pre \in [Taken(n) -> Nat] :
                 MovedList(n) /\ Levels(n, lev, pre)
       \/ pc = "fault"
       \/ InLoop /\ Deref(ptb) = NoPage

TransInv == MapInv /\ RootOK /\ PathOK /\ TransOK /\ LateInv

(* Power-on: nothing is mapped. *)
LEMMA InitTrans == ASSUME GarbagePTEs = {ZeroPTE}, Init PROVE TransInv
<1>1. BootInv /\ FirstBoot /\ pc = "alloc_init" /\ TInv
  BY InitBoot, InitTypes DEF Init, FirstBoot
<1>2. mem = [p \in RamPages |-> ZeroPage]
  BY <1>1 DEF BootInv
<1>3. RootOK
  BY <1>1, <1>2, KernelPlace DEF RootOK, ZeroPage, ZeroPTE, TInv
<1>4. ~InLoop
  BY DEF Init, InLoop, Done, PTB_LEVELS
<1>5. MapInv
  <2>1. todo \in Seq(LegalCalls)
    BY DEF Init
  <2> QED
    BY <1>4, <2>1 DEF Init, AllocInit, MapInv
<1>6. PathOK /\ TransOK /\ LateInv
  BY <1>1, <1>4 DEF PathOK, TransOK, LateInv, FirstBoot
<1> QED
  BY <1>3, <1>5, <1>6 DEF TransInv

(* The steps of a walk in the next state. *)
LEMMA StepsNext ==
  ASSUME kmap' = kmap, NEW v
  PROVE  /\ Level1In(mem, v)' = Level1In(mem', v) /\ Level0In(mem, v)' = Level0In(mem', v)
         /\ WalkIn(mem, v)' = WalkIn(mem', v)
<1>1. kernel_end' = kernel_end
  BY DEF kernel_end
<1>2. \A acc, l : StepIn(mem, v, acc, l)' = StepIn(mem', v, acc, l)
  BY Zenon DEF StepIn, EntryStep
<1>3. Level1In(mem, v)' = Level1In(mem', v)
  BY <1>1 DEF Level1In, StepIn, EntryStep, At
<1>4. Level0In(mem, v)' = StepIn(mem', v, Level1In(mem, v)', 1)
  BY Zenon DEF Level0In, StepIn, EntryStep
<1>5. Level0In(mem, v)' = Level0In(mem', v)
  BY <1>3, <1>4 DEF Level0In
<1>6. WalkIn(mem, v)' = StepIn(mem', v, Level0In(mem, v)', 0)
  BY Zenon DEF WalkIn, StepIn, EntryStep
<1> QED
  BY <1>3, <1>5, <1>6 DEF WalkIn

(* The same for the address of the call under way, which the step keeps. *)
LEMMA CallStepsNext ==
  ASSUME kmap' = kmap, va' = va
  PROVE  /\ Level1In(mem, va)' = Level1In(mem', va)
         /\ Level0In(mem, va)' = Level0In(mem', va)
<1>1. kernel_end' = kernel_end
  BY DEF kernel_end
<1>2. Level1In(mem, va)' = Level1In(mem', va)
  BY <1>1 DEF Level1In, StepIn, EntryStep, At, va_get_index
<1>3. Level0In(mem, va)' = StepIn(mem', va, Level1In(mem, va)', 1)
  BY DEF Level0In, StepIn, EntryStep, va_get_index
<1> QED
  BY <1>2, <1>3 DEF Level0In

(* A step that touches neither the tables nor the mappings. *)
LEMMA TransKept ==
  ASSUME TransOK, kmap' = kmap, mem' = mem, mapped' = mapped, resets' = resets,
         pc \in {"map", "direct"} <=> pc' \in {"map", "direct"},
         pc \notin {"alloc_init", "root"}, pc = "fault" => satp # 0
  PROVE  TransOK'
<1> SUFFICES ASSUME resets = 0, NEW v \in VAs
             PROVE  <<WalkIn(mem, v)'.page, WalkIn(mem, v)'.perm>> = Wanted(v)'
  BY DEF TransOK
<1>1. WalkIn(mem, v)' = WalkIn(mem, v)
  BY StepsNext
<1>2. Wanted(v)' = Wanted(v)
  BY DEF Wanted
<1> QED
  BY <1>1, <1>2 DEF TransOK

(* The loop of vm_map_page() before the new tables are on. *)
LEMMA EarlyLoopTrans ==
  ASSUME TInv, BootInv, TransInv, FirstBoot, vm_map_page, resets' = resets PROVE TransInv'
<1>1. Loop /\ pc \notin {"alloc_init", "root", "done", "fault"}
  <2>1. Loop
    BY DEF vm_map_page, MapFaults, MapLeaf, MapNewTable, MapDescend
  <2> QED
    BY <2>1 DEF Loop, InLoop, TInv, Done, PTB_LEVELS, BootInv
<1>a. PICK n \in 1..(ALLOC_LIST_SIZE - 1) :
           \E lev \in [Taken(n) -> 0..2], pre \in [Taken(n) -> Nat] : Building(n, lev, pre)
  BY <1>1 DEF BootInv
<1>2. PICK lev \in [Taken(n) -> 0..2], pre \in [Taken(n) -> Nat] : Building(n, lev, pre)
  BY <1>a
<1>3. /\ kmap' = kmap /\ satp' = satp /\ satp = 0 /\ resets = 0
      /\ UNCHANGED <<bug_behavior, todo, va, pa, flags>>
      /\ kernel_end' = kernel_end
  BY DEF vm_map_page, MapFaults, MapLeaf, MapNewTable, MapDescend, bugVars, mapVars,
     FirstBoot, kernel_end
<1>4. LateInv' /\ LateInv
  BY <1>3 DEF LateInv
<1>5. /\ pc \in {"map", "direct", "move"} /\ (pc = "move" => va = 0)
      /\ ptb \in Taken(n) /\ lev[ptb] = level /\ pre[ptb] = Prefix(va, level)
      /\ level \in 0..2 /\ va \in VAs
  BY <1>1, <1>2 DEF Building, AtLevel, Loop, InLoop, PTB_LEVELS, TInv, TypeOK
<1>6. /\ Legal(<<va, pa, flags>>) /\ (pc \in {"map", "direct"} => flags # {})
      /\ bug_behavior = "BUG_PANIC" /\ todo \in Seq(LegalCalls)
      /\ \A t \in mapped : Legal(t) /\ t[3] # {}
  BY <1>1, <1>3, <1>5 DEF TransInv, MapInv, Loop
<1>7. ASSUME mapped' = mapped, pc' \in {pc, "fault"} PROVE MapInv'
  BY <1>3, <1>5, <1>6, <1>7 DEF MapInv, Legal
<1>8. /\ level = 2 => ptb = kernel_end
      /\ level = 1 => Level1In(mem, va) = At(ptb)
      /\ level = 0 => Level0In(mem, va) = At(ptb)
  BY <1>1 DEF TransInv, PathOK, FirstBoot, Loop
<1>9. Levels(n, lev, pre) /\ kernel_end \in RamPages /\ kernel_end \in Taken(n)
      /\ lev[kernel_end] = 2 /\ mem \in [RamPages -> [Index -> PTE]]
  BY <1>2, TakenPages, KernelPlace DEF Building, TInv, Levels, TypeOK
<1>10. ASSUME NEW v \in VAs
       PROVE  <<WalkIn(mem, v).page, WalkIn(mem, v).perm>> = Wanted(v)
  BY <1>1, <1>3 DEF TransInv, TransOK
<1>b. Level1In(mem, va)' = Level1In(mem', va) /\ Level0In(mem, va)' = Level0In(mem', va)
  BY <1>3, CallStepsNext
<1>11. CASE MapFaults
  <2>1. /\ pc' = "fault" /\ mem' = mem /\ mapped' = mapped
    BY <1>11 DEF MapFaults
  <2>2. RootOK' /\ PathOK' /\ TransOK'
    BY <1>3, <2>1 DEF TransInv, RootOK, PathOK, TransOK
  <2> QED
    BY <1>4, <1>7, <2>1, <2>2 DEF TransInv
<1>12. CASE MapDescend
  <2>1. Table # NoPage /\ level > 0 /\ Pte.valid
    BY <1>12 DEF MapDescend, pte_valid
  <2>2. Table = ptb /\ ptb \in RamPages /\ va_get_index(va, level) \in Index
    BY <1>1, <1>2, <2>1, LoopFacts
  <2>3. /\ UNCHANGED <<mem, pc, mapped>> /\ level' = level - 1 /\ ptb' = pte_next_ptb(Pte)
    BY <1>12 DEF MapDescend
  <2>4. Pte.perm = {}
    <3>1. va_get_index(0, level) = 0
      BY <1>5, Sizes, MmAssumption DEF va_get_index
    <3> QED
      BY <1>5, <1>9, <2>1, <2>2, <3>1 DEF Levels, Pte
  <2>5. Pte.ppn \in Taken(n) /\ Pte.ppn \in Nat /\ Pte.ppn < PPN_SIZE /\ ptb' = Pte.ppn
    <3>1. Pte.ppn \in Taken(n)
      BY <1>5, <1>9, <2>1, <2>2, <2>4 DEF Levels, Pte
    <3>2. Pte.ppn \in Nat /\ Pte.ppn % PPN_SIZE = Pte.ppn
      BY <3>1, TakenPages DEF TInv
    <3>3. PPN_SIZE \in Nat \ {0}
      BY MmAssumption
    <3>4. Pte.ppn % PPN_SIZE < PPN_SIZE
      BY <3>2, <3>3
    <3> QED
      BY <2>3, <3>1, <3>2, <3>4 DEF pte_next_ptb, pte_get_ppn
  <2>6. StepIn(mem, va, At(ptb), level) = At(ptb')
    <3>1. ~(Pte.ppn >= PPN_SIZE) /\ level # 0
      BY <1>5, <2>1, <2>5, MmAssumption
    <3>2. EntryStep(Pte, va, level) = At(Pte.ppn)
      BY <2>1, <2>4, <3>1 DEF EntryStep
    <3>3. StepIn(mem, va, At(ptb), level) = EntryStep(Pte, va, level)
      BY <2>2 DEF StepIn, At, Pte
    <3> QED
      BY <2>5, <3>2, <3>3
  <2>7. PathOK'
    <3>1. level = 2 => Level1In(mem, va) = At(ptb')
      BY <1>8, <2>6 DEF Level1In
    <3>2. level = 1 => Level0In(mem, va) = At(ptb')
      BY <1>8, <2>6 DEF Level0In
    <3>3. At(ptb)' = At(ptb')
      BY DEF At
    <3> QED
      BY <1>5, <1>b, <2>1, <2>3, <3>1, <3>2, <3>3 DEF PathOK
  <2>8. RootOK'
    BY <1>3, <2>3 DEF TransInv, RootOK
  <2>9. TransOK'
    BY <1>1, <1>3, <2>3, TransKept DEF TransInv
  <2> QED
    BY <1>4, <1>7, <2>3, <2>7, <2>8, <2>9 DEF TransInv
<1>13. CASE MapLeaf
  <2>1. Table # NoPage /\ level = 0 /\ pc' = pc /\ level' = Done
    BY <1>13 DEF MapLeaf
  <2>2. Table = ptb /\ ptb \in RamPages /\ va_get_index(va, 0) \in Index
    BY <1>1, <1>2, <2>1, LoopFacts
  <2>3. ~InLoop'
    BY <2>1 DEF InLoop, Done, PTB_LEVELS
  <2>4. PathOK'
    BY <2>3 DEF PathOK
  <2>5. CASE Pte.valid
    <3>1. mem' = mem /\ mapped' = mapped
      BY <1>13, <2>5 DEF MapLeaf, pte_valid
    <3>2. RootOK'
      BY <1>3, <3>1 DEF TransInv, RootOK
    <3>3. TransOK'
      BY <1>1, <1>3, <2>1, <3>1, TransKept DEF TransInv
    <3> QED
      BY <1>4, <1>7, <2>1, <2>4, <3>1, <3>2, <3>3 DEF TransInv
  <2>6. CASE ~Pte.valid
    <3> DEFINE i == va_get_index(va, 0)
    <3>1. /\ mem' = [mem EXCEPT ![ptb][i] = Entry(pa, flags)]
          /\ mapped' = mapped \cup {<<va, pa, flags>>}
      BY <1>13, <2>2, <2>6 DEF MapLeaf, pte_valid
    <3>2. MapInv'
      <4>1. \A t \in mapped' : Legal(t)
        BY <1>6, <3>1
      <4>2. pc \in {"map", "direct"} => \A t \in mapped' : t[3] # {}
        BY <1>6, <3>1
      <4>3. \A t : Legal(t)' = Legal(t)
        BY DEF Legal
      <4> QED
        BY <1>3, <1>5, <1>6, <2>1, <2>3, <4>1, <4>2, <4>3 DEF MapInv
    <3>3. ptb # kernel_end
      BY <1>5, <1>9, <2>1
    <3>4. /\ mem'[ptb][i] = Entry(pa, flags)
          /\ \A k \in Index \ {i} : mem'[ptb][k] = mem[ptb][k]
          /\ \A r \in RamPages \ {ptb} : mem'[r] = mem[r]
      BY <1>9, <2>2, <3>1
    <3>5. RootOK'
      BY <1>3, <1>9, <3>3, <3>4 DEF TransInv, RootOK
    <3>6. pa \in 0..(PPN_SIZE - 1)
      BY <1>6, MmAssumption DEF Legal, TInv, TypeOK
    <3>7. ~mem[ptb][i].valid /\ Level0In(mem, va) = At(ptb)
      BY <1>8, <2>1, <2>2, <2>6 DEF Pte
    <3>8. /\ \A v \in VAs : v # va => WalkIn(mem', v) = WalkIn(mem, v)
          /\ WalkIn(mem, va) = Fault
          /\ WalkIn(mem', va) = IF flags = {} THEN Fault
                                ELSE [kind |-> "leaf", page |-> pa, perm |-> flags]
      <4> SUFFICES ASSUME NEW v \in VAs
                   PROVE  /\ v # va => WalkIn(mem', v) = WalkIn(mem, v)
                          /\ WalkIn(mem, va) = Fault
                          /\ WalkIn(mem', va) = IF flags = {} THEN Fault
                                ELSE [kind |-> "leaf", page |-> pa, perm |-> flags]
        BY <1>5
      <4>1. PICK w : w = mem'
        OBVIOUS
      <4>2. EntryWritten(w, ptb, i, Entry(pa, flags))
        BY <3>4, <4>1 DEF EntryWritten
      <4> QED
        BY <1>5, <1>9, <2>2, <3>6, <3>7, <4>1, <4>2, LeafWalk
    <3>9. ASSUME NEW v \in VAs
          PROVE  <<WalkIn(mem', v).page, WalkIn(mem', v).perm>> = Wanted(v)'
      <4>1. CASE v # va
        <5>1. {t \in mapped' : t[1] = v} = {t \in mapped : t[1] = v}
          BY <3>1, <4>1
        <5>2. Wanted(v)' = Wanted(v)
          <6> DEFINE m == {t \in mapped : t[1] = v}
                     n1 == {t \in mapped' : t[1] = v}
                     W(s) == IF /\ pc \notin {"map", "direct"}
                                /\ v \in KERNEL_DIRECT_MAP_START..(KERNEL_DIRECT_MAP_END - 1)
                             THEN <<va_to_pa(v), {"R", "W", "X"}>>
                             ELSE IF \E t \in s : t[3] # {}
                             THEN LET t == CHOOSE t \in s : TRUE IN <<t[2], t[3]>>
                             ELSE <<0, {}>>
          <6>1. Wanted(v) = W(m)
            BY DEF Wanted
          <6>2. Wanted(v)' = W(n1)
            BY <2>1 DEF Wanted
          <6>3. m = n1
            BY <5>1
          <6> HIDE DEF m, n1
          <6> QED
            BY <6>1, <6>2, <6>3
        <5> QED
          BY <1>10, <3>8, <4>1, <5>2
      <4>2. CASE v = va
        <5>1. pc \notin {"map", "direct"} =>
                va \notin KERNEL_DIRECT_MAP_START..(KERNEL_DIRECT_MAP_END - 1)
          BY <1>5, SpacesFit
        <5>2. Wanted(va) = <<0, {}>>
          BY <1>5, <1>10, <3>8 DEF Fault
        <5>3. \A t \in mapped : t[1] # va
          <6> SUFFICES ASSUME NEW t \in mapped, t[1] = va PROVE FALSE
            OBVIOUS
          <6> DEFINE m == {u \in mapped : u[1] = va}
          <6>1. m # {} /\ \A u \in m : u[3] # {}
            BY <1>6
          <6>2. PICK c : c = CHOOSE u \in m : TRUE
            OBVIOUS
          <6>3. c \in m
            BY <6>1, <6>2
          <6>4. Wanted(va) = <<c[2], c[3]>>
            BY <5>1, <6>1, <6>2 DEF Wanted
          <6> QED
            BY <5>2, <6>1, <6>3, <6>4
        <5>4. {t \in mapped' : t[1] = va} = {<<va, pa, flags>>}
          BY <3>1, <5>3
        <5>5. (CHOOSE t \in {<<va, pa, flags>>} : TRUE) = <<va, pa, flags>>
          OBVIOUS
        <5>6. Wanted(va)' = IF flags # {} THEN <<pa, flags>> ELSE <<0, {}>>
          BY <1>3, <2>1, <5>1, <5>4, <5>5 DEF Wanted
        <5>7. Wanted(v)' = Wanted(va)'
          BY <1>3, <4>2 DEF Wanted
        <5>8. <<WalkIn(mem', va).page, WalkIn(mem', va).perm>>
                = IF flags # {} THEN <<pa, flags>> ELSE <<0, {}>>
          BY <3>8 DEF Fault
        <5> QED
          BY <4>2, <5>6, <5>7, <5>8, Zenon
      <4> QED
        BY <4>1, <4>2
    <3>10. TransOK'
      BY <1>3, <3>9, StepsNext DEF TransOK
    <3> QED
      BY <1>4, <2>4, <3>2, <3>5, <3>10 DEF TransInv
  <2> QED
    BY <2>5, <2>6
<1>14. CASE MapNewTable
  <2>1. Table # NoPage /\ level > 0 /\ ~Pte.valid /\ mapped' = mapped
    BY <1>14 DEF MapNewTable, pte_valid
  <2>2. /\ Table = ptb /\ ptb \in RamPages /\ va_get_index(va, level) \in Index
        /\ EarlyList(n)
    BY <1>1, <1>2, <2>1, LoopFacts
  <2>3. CASE GetFails
    <3>1. UNCHANGED <<mem, pc, ptb, level>>
      BY <1>14, <2>3 DEF MapNewTable
    <3>2. RootOK'
      BY <1>3, <3>1 DEF TransInv, RootOK
    <3>3. TransOK'
      BY <1>1, <1>3, <2>1, <3>1, TransKept DEF TransInv
    <3>4. PathOK'
      BY <1>8, <1>b, <1>3, <3>1 DEF PathOK, At
    <3> QED
      BY <1>4, <1>7, <2>1, <3>1, <3>2, <3>3, <3>4 DEF TransInv
  <2>4. CASE ~GetFails /\ Deref(FreePage) = NoPage
    <3>1. mem' = mem /\ pc' = "fault"
      BY <1>14, <2>4 DEF MapNewTable
    <3>2. RootOK' /\ PathOK' /\ TransOK'
      BY <1>3, <3>1 DEF TransInv, RootOK, PathOK, TransOK
    <3> QED
      BY <1>4, <1>7, <2>1, <3>1, <3>2 DEF TransInv
  <2>5. CASE ~GetFails /\ Deref(FreePage) # NoPage
    <3> DEFINE i == va_get_index(va, level)
               new == kernel_end + n
    <3>1. FreePage = new /\ n # ALLOC_LIST_SIZE - 1
      BY <2>2, <2>5, AllocAssumption DEF GetFails, Exhausted, EarlyList, FreePage
    <3>2. Deref(FreePage) = new /\ new \in RamPages
      BY <2>5, <3>1, EarlyDeref DEF FirstBoot
    <3>3. /\ mem' = [mem EXCEPT ![new] = ZeroPage, ![ptb][i] = Entry(new, {})]
          /\ ptb' = pte_next_ptb(Entry(new, {})) /\ level' = level - 1 /\ pc' = pc
      BY <1>14, <2>2, <2>5, <3>1, <3>2 DEF MapNewTable
    <3>4. new \notin Taken(n) /\ new % PPN_SIZE = new /\ new # ptb /\ new # kernel_end
      BY <1>5, <1>9, TakenPages DEF TInv
    <3>5. new \in Nat /\ PPN_SIZE \in Nat \ {0}
      BY NoPageNotRam, <3>2, MmAssumption
    <3> HIDE DEF new
    <3>6. new < PPN_SIZE
      <4>1. new % PPN_SIZE < PPN_SIZE
        BY <3>5
      <4> QED
        BY <3>4, <4>1
    <3>7. /\ mem'[new] = ZeroPage
          /\ mem'[ptb] = [mem[ptb] EXCEPT ![i] = Entry(new, {})]
          /\ \A p \in RamPages \ {new, ptb} : mem'[p] = mem[p]
      BY <1>9, <2>2, <3>2, <3>3, <3>4
    <3>8. /\ mem'[ptb][i] = Entry(new, {})
          /\ \A k \in Index \ {i} : mem'[ptb][k] = mem[ptb][k]
      BY <1>9, <2>2, <3>7
    <3>9. Entry(new, {}).perm = {} /\ Entry(new, {}).ppn = new /\ Entry(new, {}).valid
      BY DEF Entry
    <3>10. ptb' = new
      BY <3>3, <3>4, <3>9 DEF pte_next_ptb, pte_get_ppn
    <3>11. RootOK'
      <4>1. \A k \in Index : mem'[kernel_end][k] = mem[kernel_end][k]
                             \/ mem'[kernel_end][k].perm = {}
        BY <1>9, <3>4, <3>7, <3>8, <3>9
      <4> QED
        BY <1>3, <4>1 DEF TransInv, RootOK
    <3>12. \A v \in VAs : WalkIn(mem', v) = WalkIn(mem, v)
      <4>1. ~mem[ptb][i].valid /\ lev[ptb] # 0
        BY <1>5, <2>1, <2>2 DEF Pte
      <4>2. PICK w : w = mem'
        OBVIOUS
      <4>4. TableWritten(w, ptb, i, Entry(new, {}), new)
        BY <3>7, <3>8, <4>2 DEF TableWritten
      <4>5. ptb \in Taken(n) /\ ptb \in RamPages /\ new \in RamPages /\ new \notin Taken(n)
        BY <1>5, <2>2, <3>2, <3>4
      <4>6. i \in Index
        BY <2>2
      <4> HIDE DEF i
      <4>7. \A v \in VAs : WalkIn(w, v) = WalkIn(mem, v)
        <5> SUFFICES ASSUME NEW v \in VAs PROVE WalkIn(w, v) = WalkIn(mem, v)
          OBVIOUS
        <5> QED
          BY <1>9, <4>1, <4>4, <4>5, <4>6, NewTableWalk
      <4> QED
        BY <4>2, <4>7
    <3>13. TransOK'
      <4>1. \A v : Wanted(v)' = Wanted(v)
        BY <2>1, <3>3 DEF Wanted
      <4> QED
        BY <1>3, <1>10, <3>12, <4>1, StepsNext DEF TransOK
    <3>14. StepIn(mem', va, At(ptb), level) = At(new)
      <4>1. ~(new >= PPN_SIZE) /\ level # 0
        BY <1>5, <2>1, <3>5, <3>6
      <4>2. EntryStep(Entry(new, {}), va, level) = At(new)
        BY <3>9, <4>1 DEF EntryStep
      <4>3. StepIn(mem', va, At(ptb), level) = EntryStep(mem'[ptb][i], va, level)
        BY <2>2 DEF StepIn, At
      <4> QED
        BY <3>8, <4>2, <4>3
    <3>15. PathOK'
      <4>1. level = 2 => Level1In(mem', va) = At(new)
        BY <1>8, <3>14 DEF Level1In
      <4>2. level = 1 => Level0In(mem', va) = At(new)
        <5> SUFFICES ASSUME level = 1 PROVE Level0In(mem', va) = At(new)
          OBVIOUS
        <5>1. mem'[kernel_end] = mem[kernel_end]
          BY <1>5, <1>9, <3>4, <3>7
        <5>2. Level1In(mem', va) = Level1In(mem, va)
          BY <5>1, StepSame DEF Level1In, At
        <5> QED
          BY <1>8, <3>14, <5>2 DEF Level0In
      <4>3. At(ptb)' = At(new)
        BY <3>10 DEF At
      <4> QED
        BY <1>5, <1>b, <2>1, <3>3, <4>1, <4>2, <4>3 DEF PathOK
    <3> QED
      BY <1>4, <1>7, <2>1, <3>3, <3>11, <3>13, <3>15 DEF TransInv
  <2> QED
    BY <2>3, <2>4, <2>5
<1> QED
  BY <1>11, <1>12, <1>13, <1>14 DEF vm_map_page

(* The calls vm_init() has to make are legal: the kernel's own pages are   *)
(* mapped in the upper half.                                               *)
LEMMA TodoLegal ==
  ASSUME KmapOK
  PROVE  SectionPages(1) \o SectionPages(2) \o SectionPages(3) \o SectionPages(4)
           \o << <<SERIAL, SERIAL, {"R", "W"}>> >> \in Seq(LegalCalls)
<1> DEFINE serial == << <<SERIAL, SERIAL, {"R", "W"}>> >>
<1>1. ASSUME NEW s \in 1..4 PROVE SectionPages(s) \in Seq(LegalCalls)
  <2>1. /\ kmap[s] \in Nat /\ kmap[s + 1] \in Nat /\ kmap[s] <= kmap[s + 1]
        /\ kmap[s + 1] <= kernel_end
    BY DEF KmapOK, kernel_end
  <2>2. /\ kernel_end \in Nat /\ kernel_end + ALLOC_LIST_SIZE <= PPN_SIZE
        /\ ALLOC_LIST_SIZE \in Nat /\ PPN_SIZE \in Nat
    BY KernelPlace, AllocAssumption, MmAssumption
  <2>3. KERNEL_PHYS_OFFSET \in Nat /\ KERNEL_PHYS_OFFSET >= HalfSpace /\ HalfSpace \in Nat
    <3>1. KernelGigapages * Span(2) \in Nat /\ KernelGigapages * Span(2) <= HalfSpace
      BY GigapagesFit
    <3>2. KERNEL_PHYS_OFFSET = VA_SIZE - KernelGigapages * Span(2)
      BY DEF KERNEL_PHYS_OFFSET, PTB_LEVELS
    <3> DEFINE G == KernelGigapages * Span(2)
    <3>3. G \in Nat /\ G <= HalfSpace /\ KERNEL_PHYS_OFFSET = VA_SIZE - G
      BY <3>1, <3>2
    <3> HIDE DEF G
    <3> QED
      BY <3>3, SpacesFit
  <2>4. Sections[s] # {}
    BY DEF Sections
  <2>5. SectionPages(s) \in Seq(Request) /\ Len(SectionPages(s)) = kmap[s + 1] - kmap[s]
    <3>1. SectionPages(s) \in Seq(Request)
      BY SectionTypes
    <3>2. DOMAIN SectionPages(s) = 1..(kmap[s + 1] - kmap[s])
      BY DEF SectionPages
    <3>3. kmap[s + 1] - kmap[s] \in Nat
      BY <2>1
    <3>4. DOMAIN SectionPages(s) = 1..Len(SectionPages(s)) /\ Len(SectionPages(s)) \in Nat
      BY <3>1
    <3> QED
      BY <3>1, <3>2, <3>3, <3>4
  <2>6. \A k \in 1..(kmap[s + 1] - kmap[s]) : SectionPages(s)[k] \in LegalCalls
    <3> SUFFICES ASSUME NEW k \in 1..(kmap[s + 1] - kmap[s])
                 PROVE  SectionPages(s)[k] \in LegalCalls
      OBVIOUS
    <3> DEFINE p == kmap[s] + k - 1
    <3>1. p \in Nat /\ p < PPN_SIZE /\ ~(p + KERNEL_PHYS_OFFSET < HalfSpace)
      BY <2>1, <2>2, <2>3
    <3>2. SectionPages(s)[k] = <<p + KERNEL_PHYS_OFFSET, p, Sections[s]>>
      BY DEF SectionPages
    <3>3. SectionPages(s)[k] \in Request
      BY <2>1, <2>5
    <3> HIDE DEF p
    <3> QED
      BY <2>4, <3>1, <3>2, <3>3 DEF LegalCalls, Legal
  <2> QED
    BY <2>1, <2>5, <2>6
<1>2. serial \in Seq(LegalCalls)
  <2>1. <<SERIAL, SERIAL, {"R", "W"}>> \in Request
    BY Sizes, MmAssumption DEF Request, Perms
  <2>2. SERIAL < PPN_SIZE /\ SERIAL \notin RamPages
    BY SpacesFit, MmAssumption
  <2> QED
    BY <2>1, <2>2 DEF LegalCalls, Legal
<1> HIDE DEF serial
<1>3. \A a, b \in Seq(LegalCalls) : a \o b \in Seq(LegalCalls)
  OBVIOUS
<1>4. SectionPages(1) \o SectionPages(2) \in Seq(LegalCalls)
  BY <1>1, <1>3
<1>5. SectionPages(1) \o SectionPages(2) \o SectionPages(3) \in Seq(LegalCalls)
  BY <1>1, <1>3, <1>4
<1>6. SectionPages(1) \o SectionPages(2) \o SectionPages(3) \o SectionPages(4)
        \in Seq(LegalCalls)
  BY <1>1, <1>3, <1>5
<1> QED
  BY <1>2, <1>3, <1>6 DEF serial

(* The direct map gives its addresses what it says, and leaves all others  *)
(* as they were.                                                           *)
LEMMA DirectWalk ==
  ASSUME TInv, NEW n \in 1..(ALLOC_LIST_SIZE - 1), NEW lev \in [Taken(n) -> 0..2],
         NEW pre \in [Taken(n) -> Nat], Levels(n, lev, pre), NEW v \in VAs, NEW w,
         \A p \in RamPages \ {kernel_end} : w[p] = mem[p],
         \A k \in Index : w[kernel_end][k] =
           IF k \in DirectIndexes THEN DirectEntry(k) ELSE mem[kernel_end][k]
  PROVE  WalkIn(w, v) = IF v \in KERNEL_DIRECT_MAP_START..(KERNEL_DIRECT_MAP_END - 1)
                        THEN [kind |-> "leaf", page |-> va_to_pa(v), perm |-> {"R", "W", "X"}]
                        ELSE WalkIn(mem, v)
<1> DEFINE i == va_get_index(v, 2)
           direct == v \in KERNEL_DIRECT_MAP_START..(KERNEL_DIRECT_MAP_END - 1)
           leaf == [kind |-> "leaf", page |-> va_to_pa(v), perm |-> {"R", "W", "X"}]
<1>1. i \in Index
  BY IndexInTable, VAsNat
<1>2. kernel_end \in RamPages /\ kernel_end \in Taken(n)
      /\ \A p \in Taken(n) : lev[p] = 2 <=> p = kernel_end
  BY TakenPages, KernelPlace DEF TInv, Levels
<1>3. CASE direct
  <2>1. i \in DirectIndexes /\ EntryStep(DirectEntry(i), v, 2) = leaf
    BY <1>3, DirectTranslation
  <2>2. Level1In(w, v) = EntryStep(w[kernel_end][i], v, 2)
    BY <1>2 DEF Level1In, StepIn, At
  <2>3. Level1In(w, v) = leaf
    BY <1>1, <2>1, <2>2
  <2>4. leaf.kind # "table"
    OBVIOUS
  <2>5. Level0In(w, v) = leaf
    BY <2>3, <2>4, StepStops DEF Level0In
  <2> QED
    BY <1>3, <2>4, <2>5, StepStops DEF WalkIn
<1>4. CASE ~direct
  <2>1. i \notin DirectIndexes
    BY <1>4, DirectTranslation
  <2>2. Level1In(w, v) = Level1In(mem, v)
    BY <1>1, <2>1, StepSame DEF Level1In, At
  <2>3. /\ Level1In(mem, v).kind = "table" => Level1In(mem, v).page # kernel_end
        /\ Level0In(mem, v).kind = "table" => Level0In(mem, v).page # kernel_end
    BY <1>2, Reached
  <2>4. Level0In(w, v) = Level0In(mem, v)
    BY <2>2, <2>3, StepSame DEF Level0In
  <2> QED
    BY <1>4, <2>3, <2>4, StepSame DEF WalkIn
<1> QED
  BY <1>3, <1>4

(* The direct map's leaves lead to pages below its size. *)
LEMMA DirectEntriesLow ==
  ASSUME NEW k \in DirectIndexes PROVE DirectEntry(k).ppn < HalfSpace
<1> DEFINE h == PTB_ENTRY_COUNT \div 2
           S == Span(2)
           D == DirectGigapages
<1>1. h \in Nat /\ S \in Nat \ {0} /\ D \in Nat \ {0}
  BY Sizes, MmAssumption
<1>2. PICK j \in 0..(D - 1) : k = h + j
  BY DirectIndex DEF DirectIndexes
<1>3. va_get_index(gigapage(0), 2) = h
  <2>1. 0 \in 0..(D - 1) /\ h + 0 = h
    BY <1>1
  <2> QED
    BY <2>1, DirectIndex
<1>4. DirectEntry(k).ppn = (k - h) * S
  BY <1>3 DEF DirectEntry, Entry
<1>5. D * S <= HalfSpace /\ D * S \in Nat /\ HalfSpace \in Nat
  BY SpacesFit DEF KERNEL_DIRECT_MAP_SIZE, PTB_LEVELS
<1> HIDE DEF h, S, D
<1>6. k - h = j
  BY <1>1, <1>2
<1>7. j * S <= (D - 1) * S /\ (D - 1) * S = D * S - S /\ j * S \in Nat
  BY <1>1, <1>2
<1> DEFINE a == j * S  b == D * S  c == (D - 1) * S
<1>8. a <= c /\ c = b - S /\ b <= HalfSpace /\ a \in Nat /\ b \in Nat
  BY <1>5, <1>7
<1> HIDE DEF a, b, c
<1>9. a < HalfSpace
  BY <1>1, <1>5, <1>8
<1> QED
  BY <1>4, <1>6, <1>9 DEF a

(* An empty memory translates nothing. *)
LEMMA ZeroWalk ==
  ASSUME TInv, mem = [p \in RamPages |-> ZeroPage], NEW v \in VAs
  PROVE  WalkIn(mem, v) = Fault
<1>1. ~mem[kernel_end][va_get_index(v, 2)].valid
  BY KernelPlace, IndexInTable, VAsNat DEF TInv, ZeroPage, ZeroPTE
<1>2. Level1In(mem, v) = Fault
  BY <1>1, StepInvalid DEF Level1In
<1>3. Fault.kind # "table"
  BY DEF Fault
<1> QED
  BY <1>2, <1>3, StepStops DEF WalkIn, Level0In

(* The steps of vm_init() between the calls. *)
LEMMA InitStepTrans ==
  ASSUME TInv, BootInv, TransInv, FirstBoot, vm_init, resets' = resets PROVE TransInv'
<1>1. /\ ~InLoop /\ kmap' = kmap /\ kernel_end' = kernel_end /\ resets = 0 /\ satp = 0
      /\ pc \notin {"done", "fault"} /\ ~panicked
  <2>1. ~InLoop /\ ~panicked
    BY DEF vm_init, EarlyAlloc, RootTable, MapNext, vm_init_kernel_direct_map, MapNull,
           MoveAlloc, WriteSatp, Step
  <2>2. kmap' = kmap
    BY DEF vm_init, EarlyAlloc, RootTable, MapNext, vm_init_kernel_direct_map, MapNull,
           MoveAlloc, WriteSatp
  <2>3. pc \notin {"done", "fault"}
    BY DEF vm_init, EarlyAlloc, RootTable, MapNext, vm_init_kernel_direct_map, MapNull,
           MoveAlloc, WriteSatp, Step
  <2> QED
    BY <2>1, <2>2, <2>3 DEF kernel_end, FirstBoot
<1>2. MapInv /\ RootOK /\ TransOK
  BY DEF TransInv
<1>3. bug_behavior = "BUG_PANIC" /\ todo \in Seq(LegalCalls) /\ \A t \in mapped : Legal(t)
  BY <1>1, <1>2 DEF MapInv
<1>4. \A t : Legal(t)' = Legal(t)
  BY DEF Legal
<1>5. mem' = mem => RootOK'
  BY <1>1, <1>2 DEF RootOK
<1>6. satp' = 0 => LateInv'
  BY DEF LateInv
<1>7. CASE EarlyAlloc
  <2>1. /\ pc' = "root" /\ pc = "alloc_init" /\ mem' = mem /\ satp' = 0
        /\ UNCHANGED <<bug_behavior, todo, mapped, va, pa, flags, level>>
    BY <1>1, <1>7 DEF EarlyAlloc, Step, bugVars, mapVars
  <2>2. ~InLoop' /\ mapped = {}
    BY <1>1, <1>2, <2>1 DEF InLoop, MapInv
  <2>3. MapInv' /\ PathOK' /\ TransOK'
    BY <1>3, <1>4, <2>1, <2>2 DEF MapInv, PathOK, TransOK
  <2> QED
    BY <1>5, <1>6, <2>1, <2>3 DEF TransInv
<1>8. CASE RootTable
  <2>1. /\ pc' = "map" /\ pc = "root" /\ mem' = mem /\ satp' = 0
        /\ UNCHANGED <<bug_behavior, mapped, va, pa, flags, level>>
    BY <1>1, <1>8 DEF RootTable, Step, bugVars, mapVars
  <2>2. ~InLoop' /\ mapped = {} /\ todo' \in Seq(LegalCalls)
    BY <1>1, <1>2, <1>8, <2>1, TodoLegal DEF InLoop, MapInv, RootTable, TInv
  <2>3. MapInv' /\ PathOK'
    BY <1>3, <2>1, <2>2 DEF MapInv, PathOK
  <2>4. \A v \in VAs : WalkIn(mem, v) = Fault
    BY <2>1, ZeroWalk DEF BootInv
  <2>5. \A v \in VAs : Wanted(v)' = <<0, {}>>
    BY <2>1, <2>2 DEF Wanted
  <2>6. TransOK'
    BY <1>1, <2>1, <2>4, <2>5, StepsNext DEF TransOK, Fault
  <2> QED
    BY <1>5, <1>6, <2>1, <2>3, <2>6 DEF TransInv
<1>9. CASE pc \notin {"alloc_init", "root"}
  <2>a. PICK n \in 1..(ALLOC_LIST_SIZE - 1) :
             \E lev \in [Taken(n) -> 0..2], pre \in [Taken(n) -> Nat] : Building(n, lev, pre)
    BY <1>9 DEF BootInv
  <2>1. PICK lev \in [Taken(n) -> 0..2], pre \in [Taken(n) -> Nat] : Building(n, lev, pre)
    BY <2>a
  <2>2. ASSUME kernel_root_ptb = kernel_end, NEW v, NEW p, NEW f, Call(v, p, f, TRUE)
        PROVE  /\ \/ va' = v /\ pa' = p /\ flags' = f /\ level' = 2 /\ ptb' = kernel_end
                  \/ ~InLoop'
    <3>1. CASE Canonical(v)
      BY <2>2, <3>1 DEF Call, PTB_LEVELS
    <3>2. CASE ~Canonical(v)
      BY <1>1, <2>2, <3>2 DEF Call, mapVars, InLoop
    <3> QED
      BY <3>1, <3>2
  <2>3. CASE MapNext
    <3>1. /\ pc = "map" /\ pc' \in {"map", "direct"} /\ satp' = 0
          /\ Call(todo[1][1], todo[1][2], todo[1][3], TRUE)
          /\ UNCHANGED <<bug_behavior, mem, mapped>>
          /\ todo' = Tail(todo) /\ todo # <<>>
      BY <1>1, <2>3 DEF MapNext, Step, TInv
    <3>2. todo[1] \in LegalCalls /\ todo' \in Seq(LegalCalls)
      BY <1>3, <3>1
    <3>3. \/ /\ va' = todo[1][1] /\ pa' = todo[1][2] /\ flags' = todo[1][3]
             /\ level' = 2 /\ ptb' = kernel_end
          \/ ~InLoop'
      BY <2>1, <2>2, <3>1 DEF Building
    <3>4. InLoop' => Legal(<<va, pa, flags>>)' /\ flags' # {}
      BY <3>2, <3>3 DEF LegalCalls, Legal
    <3>5. MapInv'
      BY <1>1, <1>2, <1>3, <1>4, <3>1, <3>2, <3>4 DEF MapInv
    <3>6. PathOK'
      BY <1>1, <3>3 DEF PathOK
    <3>7. TransOK'
      BY <1>1, <1>2, <3>1, TransKept
    <3> QED
      BY <1>5, <1>6, <3>1, <3>5, <3>6, <3>7 DEF TransInv
  <2>4. CASE vm_init_kernel_direct_map
    <3>1. /\ pc = "direct" /\ pc' = "null" /\ satp' = 0
          /\ UNCHANGED <<bug_behavior, mapped, todo, level, va, pa, flags>>
      BY <1>1, <2>4 DEF vm_init_kernel_direct_map, Step, bugVars, mapVars
    <3>2. kernel_root_ptb = kernel_end /\ Levels(n, lev, pre)
      BY <2>1, <3>1 DEF Building
    <3>3. /\ \A p \in RamPages \ {kernel_end} : mem'[p] = mem[p]
          /\ \A k \in Index : mem'[kernel_end][k] =
               IF k \in DirectIndexes THEN DirectEntry(k) ELSE mem[kernel_end][k]
      BY <2>4, <3>2, KernelPlace DEF vm_init_kernel_direct_map, TInv, TypeOK
    <3>4. ~InLoop'
      BY <1>1, <3>1 DEF InLoop
    <3>5. MapInv' /\ PathOK'
      BY <1>1, <1>2, <1>3, <1>4, <3>1, <3>4 DEF MapInv, PathOK
    <3>6. RootOK'
      <4>1. ASSUME NEW k \in DirectIndexes PROVE DirectEntry(k).ppn < HalfSpace
        BY DirectEntriesLow
      <4> QED
        BY <1>1, <1>2, <3>3, <4>1 DEF RootOK
    <3>7. ASSUME NEW v \in VAs
          PROVE  <<WalkIn(mem', v).page, WalkIn(mem', v).perm>> = Wanted(v)'
      <4> DEFINE direct == v \in KERNEL_DIRECT_MAP_START..(KERNEL_DIRECT_MAP_END - 1)
      <4>1. WalkIn(mem', v)
              = IF direct THEN [kind |-> "leaf", page |-> va_to_pa(v), perm |-> {"R", "W", "X"}]
                ELSE WalkIn(mem, v)
        BY <3>2, <3>3, DirectWalk
      <4>2. CASE direct
        <5>1. Wanted(v)' = <<va_to_pa(v), {"R", "W", "X"}>>
          BY <3>1, <4>2 DEF Wanted
        <5> QED
          BY <4>1, <4>2, <5>1
      <4>3. CASE ~direct
        <5>1. Wanted(v)' = Wanted(v)
          BY <3>1, <4>3 DEF Wanted
        <5>2. <<WalkIn(mem, v).page, WalkIn(mem, v).perm>> = Wanted(v)
          BY <1>1, <1>2, <3>1 DEF TransOK
        <5> QED
          BY <4>1, <4>3, <5>1, <5>2
      <4> QED
        BY <4>2, <4>3
    <3>8. TransOK'
      BY <1>1, <3>7, StepsNext DEF TransOK
    <3> QED
      BY <1>6, <3>1, <3>5, <3>6, <3>8 DEF TransInv
  <2>5. CASE MapNull
    <3>1. /\ pc = "null" /\ pc' = "move" /\ satp' = 0 /\ Call(0, 0, {}, TRUE)
          /\ UNCHANGED <<bug_behavior, mem, mapped, todo>>
      BY <1>1, <2>5 DEF MapNull, Step
    <3>2. \/ va' = 0 /\ pa' = 0 /\ flags' = {} /\ level' = 2 /\ ptb' = kernel_end
          \/ ~InLoop'
      BY <2>1, <2>2, <3>1 DEF Building
    <3>3. InLoop' => Legal(<<va, pa, flags>>)'
      BY <3>2, MmAssumption, NoPageNotRam DEF Legal, NoPage
    <3>4. MapInv'
      BY <1>1, <1>2, <1>3, <1>4, <3>1, <3>3 DEF MapInv
    <3>5. PathOK'
      BY <1>1, <3>2 DEF PathOK
    <3>6. TransOK'
      BY <1>1, <1>2, <3>1, TransKept
    <3> QED
      BY <1>5, <1>6, <3>1, <3>4, <3>5, <3>6 DEF TransInv
  <2>6. CASE MoveAlloc
    <3>1. /\ pc = "move" /\ pc' = "satp" /\ satp' = 0
          /\ UNCHANGED <<bug_behavior, mem, mapped, todo, va, pa, flags, level>>
      BY <1>1, <2>6 DEF MoveAlloc, Step, mapVars
    <3>2. panicked' \/ next' = 0
      BY <1>3, <2>6 DEF MoveAlloc, BUG, alloc_init
    <3>3. ~InLoop'
      BY <1>1, <3>1 DEF InLoop
    <3>4. MapInv'
      BY <1>1, <1>3, <1>4, <3>1, <3>2, <3>3 DEF MapInv
    <3>5. PathOK'
      BY <3>3 DEF PathOK
    <3>6. TransOK'
      BY <1>1, <1>2, <3>1, TransKept
    <3> QED
      BY <1>5, <1>6, <3>1, <3>4, <3>5, <3>6 DEF TransInv
  <2>7. CASE WriteSatp
    <3>1. /\ pc = "satp" /\ pc' = "done" /\ satp' = va_to_pa(kernel_root_ptb)
          /\ UNCHANGED <<bug_behavior, list, next, mem, mapped, todo, va, pa, flags, level,
                         kernel_root_ptb>>
      BY <1>1, <2>7 DEF WriteSatp, Step, allocVars, bugVars, mapVars
    <3>2. kernel_root_ptb = pa_to_va(kernel_end)
      BY <2>1, <3>1 DEF Building
    <3>3. satp' = kernel_end /\ kernel_end # 0
      BY <3>1, <3>2, DirectMapInverse, KernelPlace DEF TInv
    <3>4. ~InLoop' /\ next = 0
      BY <1>1, <1>2, <3>1 DEF InLoop, MapInv
    <3>5. MovedList(n) /\ Levels(n, lev, pre)
      <4>1. ~EarlyList(n)
        BY <3>4 DEF EarlyList
      <4> QED
        BY <2>1, <4>1 DEF Building
    <3>6. Taken(n)' = Taken(n)
      BY <1>1 DEF Taken
    <3>7. MovedList(n)'
      BY <1>1, <3>1, <3>5 DEF MovedList, pa_to_va, ListIndex
    <3>8. Levels(n, lev, pre)'
      BY <1>1, <3>1, <3>5, <3>6 DEF Levels
    <3>9. LateInv'
      <4>1. kernel_root_ptb' = pa_to_va(kernel_end)'
        BY <1>1, <3>1, <3>2 DEF pa_to_va
      <4> QED
        BY <1>1, <3>1, <3>3, <3>4, <3>6, <3>7, <3>8, <4>1 DEF LateInv
    <3>10. MapInv' /\ PathOK'
      BY <1>1, <1>3, <1>4, <3>1, <3>4 DEF MapInv, PathOK
    <3>11. TransOK'
      BY <1>1, <1>2, <3>1, TransKept
    <3> QED
      BY <1>5, <3>1, <3>9, <3>10, <3>11 DEF TransInv
  <2> QED
    BY <1>9, <2>3, <2>4, <2>5, <2>6, <2>7 DEF vm_init, EarlyAlloc, RootTable, Step
<1> QED
  <2>1. CASE pc = "alloc_init"
    BY <1>7, <2>1 DEF vm_init, RootTable, MapNext, vm_init_kernel_direct_map, MapNull,
       MoveAlloc, WriteSatp, Step
  <2>2. CASE pc = "root"
    BY <1>8, <2>2 DEF vm_init, EarlyAlloc, MapNext, vm_init_kernel_direct_map, MapNull,
       MoveAlloc, WriteSatp, Step
  <2> QED
    BY <1>9, <2>1, <2>2

(* The new tables are on. *)

(* A pointer into the direct map reaches the page it stands for; a low     *)
(* address reaches no RAM.                                                 *)
LEMMA LateDeref ==
  ASSUME TInv, TransInv, resets = 0, satp # 0
  PROVE  /\ \A x \in 0..(KERNEL_DIRECT_MAP_SIZE - 1) :
              Deref(pa_to_va(x)) = IF x \in RamPages THEN x ELSE NoPage
         /\ \A a \in 0..(HalfSpace - 1) : Deref(a) = NoPage
<1>1. /\ satp = kernel_end /\ pc \in {"done", "fault"} /\ \A t \in mapped : Legal(t)
      /\ \A v \in VAs : <<WalkIn(mem, v).page, WalkIn(mem, v).perm>> = Wanted(v)
  BY DEF TransInv, LateInv, MapInv, TransOK
<1>2. /\ KERNEL_DIRECT_MAP_SIZE \in Nat /\ KERNEL_DIRECT_MAP_SIZE <= HalfSpace
      /\ KERNEL_DIRECT_MAP_START \in Nat /\ HalfSpace <= KERNEL_DIRECT_MAP_START
      /\ KERNEL_DIRECT_MAP_START = VA_SIZE - HalfSpace
      /\ HalfSpace \in Nat /\ VA_SIZE \in Nat
      /\ KERNEL_DIRECT_MAP_END = KERNEL_DIRECT_MAP_START + KERNEL_DIRECT_MAP_SIZE
  BY SpacesFit DEF KERNEL_DIRECT_MAP_END
<1>3. ASSUME NEW a \in VAs, NEW page, NEW perm, Wanted(a) = <<page, perm>>
      PROVE  Deref(a) = IF "W" \in perm /\ page \in RamPages THEN page ELSE NoPage
  <2>1. Walk(satp, a) = WalkIn(mem, a)
    BY <1>1, WalkIs
  <2>2. Walk(satp, a).page = page /\ Walk(satp, a).perm = perm
    BY <1>1, <1>3, <2>1
  <2> QED
    BY <2>2, NoPageNotRam DEF Deref
<1>4. ASSUME NEW x \in 0..(KERNEL_DIRECT_MAP_SIZE - 1)
      PROVE  Deref(pa_to_va(x)) = IF x \in RamPages THEN x ELSE NoPage
  <2> DEFINE a == pa_to_va(x)
  <2>1. a \in KERNEL_DIRECT_MAP_START..(KERNEL_DIRECT_MAP_END - 1) /\ a \in VAs
    BY <1>2 DEF pa_to_va, VAs
  <2>2. va_to_pa(a) = x
    BY <1>2, DirectMapInverse
  <2> HIDE DEF a
  <2>3. Wanted(a) = <<x, {"R", "W", "X"}>>
    BY <1>1, <2>1, <2>2 DEF Wanted
  <2>4. Deref(a) = IF "W" \in {"R", "W", "X"} /\ x \in RamPages THEN x ELSE NoPage
    BY <1>3, <2>1, <2>3
  <2> QED
    BY <2>4 DEF a
<1>5. ASSUME NEW a \in 0..(HalfSpace - 1) PROVE Deref(a) = NoPage
  <2>1. a \in VAs /\ a \notin KERNEL_DIRECT_MAP_START..(KERNEL_DIRECT_MAP_END - 1)
        /\ a < HalfSpace
    BY <1>2 DEF VAs
  <2> DEFINE m == {t \in mapped : t[1] = a}
  <2>2. CASE \E t \in m : t[3] # {}
    <3>1. PICK c : c = CHOOSE t \in m : TRUE
      OBVIOUS
    <3>2. c \in m
      BY <2>2, <3>1
    <3>3. Wanted(a) = <<c[2], c[3]>>
      BY <2>1, <2>2, <3>1 DEF Wanted
    <3>4. c[2] \notin RamPages
      BY <1>1, <2>1, <3>2 DEF Legal
    <3> QED
      BY <1>3, <2>1, <3>3, <3>4
  <2>3. CASE ~\E t \in m : t[3] # {}
    <3>1. Wanted(a) = <<0, {}>>
      BY <2>1, <2>3 DEF Wanted
    <3> QED
      BY <1>3, <2>1, <3>1
  <2> QED
    BY <2>2, <2>3
<1> QED
  BY <1>4, <1>5

(* Shifting an address of the direct map into a PTE and out of it again    *)
(* loses its upper bits, and what is left is no address at all.            *)
LEMMA TruncatedAddress ==
  ASSUME NEW x \in 0..(KERNEL_DIRECT_MAP_SIZE - 1)
  PROVE  /\ pa_to_va(x) \in Nat /\ pa_to_va(x) >= PPN_SIZE
         /\ pa_to_va(x) % PPN_SIZE \notin VAs /\ pa_to_va(x) % PPN_SIZE \in Nat
<1> DEFINE P == PPN_SIZE  V == VA_SIZE  H == HalfSpace  q == VA_SIZE \div PPN_SIZE
           r == P - H + x
<1>1. /\ P \in Nat \ {0} /\ V \in Nat /\ H \in Nat \ {0}
      /\ 2 * H <= P /\ 2 * P <= V /\ x \in Nat /\ x < H
      /\ KERNEL_DIRECT_MAP_START = V - H
  BY SpacesFit
<1>2. V = q * P + (V % P) /\ q \in Nat /\ V % P = 0
  BY <1>1, Division, MmAssumption
<1>3. pa_to_va(x) = x + (V - H)
  BY <1>1 DEF pa_to_va
<1>4. VAs = 0..(H - 1) \cup (V - H)..(V - 1)
  BY DEF VAs
<1> HIDE DEF P, V, H, q
<1>5. r \in 0..(P - 1) /\ r \notin VAs
  BY <1>1, <1>4
<1>6. q >= 1
  <2>1. q # 0
    BY <1>1, <1>2
  <2> QED
    BY <1>2, <2>1
<1>7. (q - 1) * P = q * P - P /\ q * P \in Nat
  BY <1>1, <1>2
<1>8. pa_to_va(x) = (q - 1) * P + r
  <2> DEFINE a == q * P  b == (q - 1) * P
  <2>1. V = a /\ b = a - P /\ a \in Nat
    BY <1>2, <1>7
  <2> HIDE DEF a, b
  <2>2. x + (V - H) = b + (P - H + x)
    BY <1>1, <2>1
  <2> QED
    BY <1>3, <2>2 DEF b
<1>9. pa_to_va(x) % P = r
  <2>1. q - 1 \in Nat
    BY <1>2, <1>6
  <2> HIDE DEF r
  <2> QED
    BY <1>1, <1>5, <1>8, <2>1, DivideExact
<1>10. pa_to_va(x) \in Nat /\ pa_to_va(x) >= P
  BY <1>1, <1>3
<1> QED
  BY <1>5, <1>9, <1>10 DEF P

(* The allocator hands out neither tables nor pages of the kernel, and the *)
(* kernel is as it was loaded.                                             *)
Safe == resets = 0 => TablesNotFree /\ KernelNotOverwritten

(* A step that leaves the pages and the allocator alone. *)
LEMMA SafeKept ==
  ASSUME Safe, resets' = resets,
         UNCHANGED <<list, next, initialized, kmap, mem, kernel_root_ptb>>
  PROVE  Safe'
<1>1. Root' = Root
  BY DEF Root
<1>2. \A t : NonLeaf(t)' = NonLeaf(t)
  BY DEF NonLeaf
<1>3. Tables' = Tables
  BY <1>1, <1>2 DEF Tables, NextTables
<1>4. FreePhys' = FreePhys
  BY DEF FreePhys
<1> QED
  BY <1>3, <1>4 DEF Safe, TablesNotFree, KernelNotOverwritten

(* Once the tables are on, the first new table is the last thing           *)
(* vm_map_page() makes: it is zeroed through the direct map, its entry is  *)
(* none for the hardware, and the address it is entered by is none at all. *)
LEMMA LateNewTable ==
  ASSUME TInv, TransInv, Safe, resets = 0, satp # 0, MapNewTable, resets' = resets,
         NEW n \in 1..(ALLOC_LIST_SIZE - 1), NEW lev \in [Taken(n) -> 0..2],
         NEW pre \in [Taken(n) -> Nat], MovedList(n), Levels(n, lev, pre),
         Table = kernel_end, level = 2, pc = "done", ~GetFails
  PROVE  TransInv' /\ Safe'
<1> DEFINE x == kernel_end + n
           i == va_get_index(va, 2)
<1>1. /\ UNCHANGED <<bug_behavior, kmap, kernel_root_ptb, satp, todo, va, pa, flags, mapped>>
      /\ ~mem[kernel_end][i].valid /\ alloc_get_page /\ kernel_end' = kernel_end
  BY DEF MapNewTable, pte_valid, Pte, kernel_end
<1>2. /\ satp = kernel_end /\ kernel_root_ptb = pa_to_va(kernel_end)
      /\ bug_behavior = "BUG_PANIC" /\ todo \in Seq(LegalCalls) /\ \A t \in mapped : Legal(t)
      /\ \A v \in VAs : <<WalkIn(mem, v).page, WalkIn(mem, v).perm>> = Wanted(v)
  BY DEF TransInv, LateInv, MapInv, TransOK
<1>3. x \in 0..(KERNEL_DIRECT_MAP_SIZE - 1) /\ x \in Nat /\ kernel_end \in Nat \ {0}
      /\ ALLOC_LIST_SIZE \in Nat /\ n \in Nat
  BY KernelPlace, AllocAssumption, SpacesFit DEF TInv
<1>4. next = 0 /\ FreePage = pa_to_va(x)
  <2>1. pa_to_va(x) \in Nat
    BY <1>3, PaToVaNat
  <2>2. next = 0 /\ list[0] = pa_to_va(x) + 0
    BY <1>3, MmAssumption DEF MovedList, ListIndex
  <2> QED
    BY <2>1, <2>2 DEF FreePage
<1>5. Deref(FreePage) = IF x \in RamPages THEN x ELSE NoPage
  BY <1>3, <1>4, LateDeref
<1>6. /\ kernel_end \in RamPages /\ kernel_end \in Taken(n) /\ lev[kernel_end] = 2
      /\ x \notin Taken(n) /\ x # kernel_end /\ x \notin KernelPages
      /\ kernel_end \notin KernelPages /\ KernelPages \subseteq RamPages
      /\ i \in Index /\ mem \in [RamPages -> [Index -> PTE]]
  BY TakenPages, KernelPlace, IndexInTable, VAsNat DEF TInv, TypeOK, Levels
<1>7. FreePhys' \subseteq FreePhys
  <2>1. /\ next' = 1
        /\ \A k \in 1..(ALLOC_LIST_SIZE - 1) : list'[k] = list[k]
    BY <1>1, <1>3, <1>4 DEF alloc_get_page, TInv, TypeOK, AllocTypeOK, ListIndex
  <2>2. 1..(ALLOC_LIST_SIZE - 1) \subseteq 0..(ALLOC_LIST_SIZE - 1)
    BY <1>3
  <2> QED
    BY <1>4, <2>1, <2>2 DEF FreePhys
<1>8. MapInv' \/ pc' \notin {"done", "fault"}
  <2>1. \A t : Legal(t)' = Legal(t)
    BY DEF Legal
  <2> QED
    BY <1>1, <1>2, <2>1 DEF MapInv
<1>9. PathOK'
  BY <1>1 DEF PathOK, FirstBoot
<1>10. CASE x \notin RamPages
  <2>1. pc' = "fault" /\ mem' = mem
    BY <1>5, <1>10 DEF MapNewTable
  <2>2. RootOK'
    BY <1>1, <2>1 DEF TransInv, RootOK
  <2>3. TransOK'
    BY <1>1, <2>1, TransKept DEF TransInv
  <2>4. LateInv'
    BY <1>1, <1>2, <2>1 DEF LateInv, pa_to_va
  <2>5. Safe'
    <3>1. Root' = Root /\ \A t : NonLeaf(t)' = NonLeaf(t)
      BY <1>1, <2>1 DEF Root, NonLeaf
    <3>2. Tables' = Tables
      BY <2>1, <3>1 DEF Tables, NextTables
    <3>3. initialized' = initialized
      BY <1>1 DEF alloc_get_page
    <3> QED
      BY <1>1, <1>7, <2>1, <3>2, <3>3 DEF Safe, TablesNotFree, KernelNotOverwritten
  <2> QED
    BY <1>8, <1>9, <2>1, <2>2, <2>3, <2>4, <2>5 DEF TransInv
<1>11. CASE x \in RamPages
  <2>0. NoPage # x
    BY <1>11, NoPageNotRam
  <2>1. /\ mem' = [mem EXCEPT ![x] = ZeroPage, ![kernel_end][i] = Entry(pa_to_va(x), {})]
        /\ ptb' = pte_next_ptb(Entry(pa_to_va(x), {})) /\ level' = 1 /\ pc' = pc
    BY <1>4, <1>5, <1>11, <2>0 DEF MapNewTable
  <2>2. /\ mem'[x] = ZeroPage
        /\ mem'[kernel_end] = [mem[kernel_end] EXCEPT ![i] = Entry(pa_to_va(x), {})]
        /\ \A p \in RamPages \ {x, kernel_end} : mem'[p] = mem[p]
    BY <1>6, <1>11, <2>1
  <2>3. /\ mem'[kernel_end][i] = Entry(pa_to_va(x), {})
        /\ \A k \in Index \ {i} : mem'[kernel_end][k] = mem[kernel_end][k]
    BY <1>6, <2>2
  <2>4. /\ pa_to_va(x) \in Nat /\ pa_to_va(x) >= PPN_SIZE
        /\ pa_to_va(x) % PPN_SIZE \notin VAs
    BY <1>3, TruncatedAddress
  <2>5. Entry(pa_to_va(x), {}).ppn = pa_to_va(x) /\ Entry(pa_to_va(x), {}).perm = {}
    BY DEF Entry
  <2> HIDE DEF x, i
  <2>6. RootOK'
    <3>1. \A k \in Index : mem'[kernel_end][k] = mem[kernel_end][k]
                           \/ mem'[kernel_end][k].perm = {}
      BY <2>3, <2>5
    <3> QED
      BY <1>1, <3>1 DEF TransInv, RootOK
  <2>7. TransOK'
    <3>1. PICK w : w = mem'
      OBVIOUS
    <3>2. TableWritten(w, kernel_end, i, Entry(pa_to_va(x), {}), x)
      BY <2>2, <2>3, <3>1 DEF TableWritten
    <3>3. \A v \in VAs : WalkIn(w, v) = WalkIn(mem, v)
      <4> SUFFICES ASSUME NEW v \in VAs PROVE WalkIn(w, v) = WalkIn(mem, v)
        OBVIOUS
      <4>1. lev[kernel_end] # 0
        BY <1>6
      <4> QED
        BY <1>1, <1>6, <1>11, <2>4, <3>2, <4>1, NewTableWalk
    <3>4. \A v : Wanted(v)' = Wanted(v)
      BY <1>1, <2>1 DEF Wanted
    <3> QED
      BY <1>1, <1>2, <3>1, <3>3, <3>4, StepsNext DEF TransOK
  <2>8. LateInv'
    <3>1. ptb' \notin VAs
      BY <2>1, <2>4, <2>5 DEF pte_next_ptb, pte_get_ppn
    <3>2. Walk(satp, ptb)' = Fault
      BY <3>1 DEF Walk
    <3>3. Deref(ptb)' = NoPage
      BY <1>1, <3>2, NoPageNotRam DEF Deref, Fault
    <3>4. InLoop'
      BY <2>1 DEF InLoop, PTB_LEVELS
    <3> QED
      BY <1>1, <1>2, <2>1, <3>3, <3>4 DEF LateInv, pa_to_va
  <2>9. KernelNotOverwritten'
    <3>1. \A p \in KernelPages : mem'[p] = mem[p]
      BY <1>6, <2>2
    <3> QED
      BY <1>1, <3>1 DEF Safe, KernelNotOverwritten, KernelPages
  <2>10. TablesNotFree'
    <3>1. \A f \in FreePhys : f \in Nat /\ (f = 0 \/ f >= kernel_end + n)
      BY FreeBehindTaken
    <3>2. pa_to_va(x) \notin FreePhys
      <4>1. /\ KERNEL_DIRECT_MAP_START \in Nat /\ KERNEL_DIRECT_MAP_SIZE \in Nat
            /\ KERNEL_DIRECT_MAP_SIZE < KERNEL_DIRECT_MAP_START + 1
            /\ KERNEL_DIRECT_MAP_END = KERNEL_DIRECT_MAP_START + KERNEL_DIRECT_MAP_SIZE
        BY SpacesFit DEF KERNEL_DIRECT_MAP_END
      <4>2. \A a \in Nat : va_to_pa(a) \in 0..KERNEL_DIRECT_MAP_SIZE
        BY <4>1 DEF va_to_pa
      <4>3. x \in Nat /\ x > 0 /\ pa_to_va(x) = x + KERNEL_DIRECT_MAP_START
        BY <1>3 DEF x, pa_to_va
      <4>4. \A k \in next..(ALLOC_LIST_SIZE - 1) :
              list[k] \in Nat /\ ~(list[k] < KERNEL_DIRECT_MAP_START)
        <5>1. \A k \in ListIndex : list[k] = pa_to_va(x) + k
          BY DEF MovedList, x
        <5> QED
          BY <1>3, <1>4, <4>1, <4>3, <5>1 DEF ListIndex
      <4>5. \A f \in FreePhys : f \in 0..KERNEL_DIRECT_MAP_SIZE
        BY <4>2, <4>4 DEF FreePhys
      <4> QED
        BY <4>1, <4>3, <4>5
    <3>3. Root' = kernel_end
      <4>1. Root = kernel_end
        BY <1>2, RootIs
      <4> QED
        BY <1>1, <4>1 DEF Root
    <3>4. pa_to_va(x) \notin RamPages
      BY <2>4, SpacesFit, MmAssumption
    <3>5. \A q \in NextTables({kernel_end})' : q = pa_to_va(x) \/ (q \in Taken(n) /\ lev[q] = 1)
      <4> SUFFICES ASSUME NEW q \in NextTables({kernel_end})', q # pa_to_va(x)
                   PROVE  q \in Taken(n) /\ lev[q] = 1
        OBVIOUS
      <4>1. PICK k \in Index : /\ mem'[kernel_end][k].valid /\ mem'[kernel_end][k].perm = {}
                               /\ q = mem'[kernel_end][k].ppn
        BY <1>1 DEF NextTables, NonLeaf
      <4>2. k # i
        BY <2>3, <2>5, <4>1
      <4> QED
        BY <1>6, <2>3, <4>1, <4>2 DEF Levels
    <3>6. \A q \in NextTables(NextTables({kernel_end}))' : q \in Taken(n)
      <4> SUFFICES ASSUME NEW q \in NextTables(NextTables({kernel_end}))' PROVE q \in Taken(n)
        OBVIOUS
      <4> DEFINE T == NextTables({kernel_end})
      <4>1. PICK t \in T' \cap RamPages : \E k \in Index :
              mem'[t][k].valid /\ mem'[t][k].perm = {} /\ q = mem'[t][k].ppn
        <5> HIDE DEF T
        <5> SUFFICES ASSUME NEW u \in NextTables(T)'
                     PROVE  \E t \in T' \cap RamPages : \E k \in Index :
                              mem'[t][k].valid /\ mem'[t][k].perm = {} /\ u = mem'[t][k].ppn
          BY DEF T
        <5> QED
          BY DEF NextTables, NonLeaf
      <4>2. t \in Taken(n) /\ lev[t] = 1 /\ mem'[t] = mem[t]
        BY <1>6, <2>2, <3>4, <3>5, <4>1
      <4> QED
        BY <4>1, <4>2 DEF Levels
    <3>7. Tables' \subseteq Taken(n) \cup {pa_to_va(x)}
      <4>1. Tables' = {Root'} \cup NextTables({Root})' \cup NextTables(NextTables({Root}))'
        BY DEF Tables
      <4>2. /\ NextTables({Root})' = NextTables({kernel_end})'
            /\ NextTables(NextTables({Root}))' = NextTables(NextTables({kernel_end}))'
        BY <1>1, <3>3 DEF NextTables
      <4> QED
        BY <1>6, <3>3, <3>5, <3>6, <4>1, <4>2
    <3>8. FreePhys \cap Taken(n) = {}
      BY <1>3, <3>1 DEF Taken
    <3>9. FreePhys \cap KernelPages = {}
      <4>1. KernelPages \subseteq 1..(kernel_end - 1)
        BY KernelPlace DEF TInv
      <4> QED
        BY <1>3, <3>1, <4>1
    <3>10. KernelPages' = KernelPages
      BY <1>1 DEF KernelPages
    <3> QED
      BY <1>7, <3>2, <3>7, <3>8, <3>9, <3>10 DEF TablesNotFree, KernelPages
  <2> QED
    BY <1>8, <1>9, <2>1, <2>6, <2>7, <2>8, <2>9, <2>10 DEF TransInv, Safe
<1> QED
  BY <1>10, <1>11

(* The loop of vm_map_page() after the new tables are on. *)
LEMMA LateLoop ==
  ASSUME TInv, TransInv, Safe, resets = 0, satp # 0, vm_map_page, resets' = resets
  PROVE  TransInv' /\ Safe'
<1>1. Loop /\ kmap' = kmap /\ kernel_end' = kernel_end
      /\ UNCHANGED <<bug_behavior, kernel_root_ptb, satp, todo, va, pa, flags>>
  BY DEF vm_map_page, MapFaults, MapLeaf, MapNewTable, MapDescend, bugVars, mapVars, kernel_end
<1>2. /\ satp = kernel_end /\ kernel_root_ptb = pa_to_va(kernel_end) /\ pc = "done"
      /\ bug_behavior = "BUG_PANIC" /\ todo \in Seq(LegalCalls) /\ \A t \in mapped : Legal(t)
      /\ MapInv /\ RootOK /\ TransOK /\ LateInv
  BY <1>1 DEF TransInv, LateInv, MapInv, Loop
<1>3. PathOK'
  BY <1>1 DEF PathOK, FirstBoot
<1>4. ASSUME mapped' = mapped, pc' \in {"done", "fault"} PROVE MapInv'
  <2>1. \A t : Legal(t)' = Legal(t)
    BY DEF Legal
  <2> QED
    BY <1>1, <1>2, <1>4, <2>1 DEF MapInv
<1>5. ASSUME mem' = mem, mapped' = mapped, pc' \in {"done", "fault"}
      PROVE  RootOK' /\ TransOK'
  BY <1>1, <1>2, <1>5, TransKept DEF RootOK
<1>6. CASE MapFaults
  <2>1. /\ pc' = "fault" /\ UNCHANGED <<list, next, initialized, mem, mapped>>
    BY <1>6 DEF MapFaults, allocVars
  <2>2. LateInv'
    BY <1>1, <1>2, <2>1 DEF LateInv, pa_to_va
  <2> QED
    BY <1>1, <1>3, <1>4, <1>5, <2>1, <2>2, SafeKept DEF TransInv
<1>7. CASE ~MapFaults
  <2>1. Deref(ptb) # NoPage /\ InLoop
    BY <1>1, <1>7 DEF vm_map_page, MapFaults, MapLeaf, MapNewTable, MapDescend, Table, Loop
  <2>2. level = 2 /\ ptb = kernel_root_ptb
    BY <1>2, <2>1 DEF LateInv
  <2>a. PICK n \in 1..(ALLOC_LIST_SIZE - 1) :
             \E lev \in [Taken(n) -> 0..2], pre \in [Taken(n) -> Nat] :
               MovedList(n) /\ Levels(n, lev, pre)
    BY <1>2, <2>1 DEF LateInv
  <2>3. PICK lev \in [Taken(n) -> 0..2], pre \in [Taken(n) -> Nat] :
               MovedList(n) /\ Levels(n, lev, pre)
    BY <2>a
  <2>4. Table = kernel_end /\ kernel_end \in RamPages
    <3>1. kernel_end \in 0..(KERNEL_DIRECT_MAP_SIZE - 1) /\ kernel_end \in RamPages
      BY KernelPlace, MmAssumption DEF TInv
    <3> QED
      BY <1>2, <2>2, <3>1, LateDeref DEF Table
  <2>5. ~MapLeaf
    BY <2>2 DEF MapLeaf
  <2>6. CASE MapDescend
    <3>1. /\ UNCHANGED <<list, next, initialized, mem, mapped, pc>> /\ level' = 1
          /\ ptb' = Pte.ppn % PPN_SIZE /\ Pte.valid
      BY <2>2, <2>6 DEF MapDescend, allocVars, pte_next_ptb, pte_get_ppn, pte_valid
    <3>2. va_get_index(va, 2) \in Index /\ Pte = mem[kernel_end][va_get_index(va, 2)]
          /\ Pte.ppn \in Nat
      BY <2>1, <2>2, <2>4, PteType, NoPageNotRam DEF Pte, TInv
    <3>3. Pte.ppn \in 0..(HalfSpace - 1)
      <4>1. CASE Pte.perm # {}
        BY <1>2, <3>2, <4>1, SpacesFit DEF RootOK
      <4>2. CASE Pte.perm = {}
        <5>1. Pte.ppn \in Taken(n)
          <6>1. kernel_end \in Taken(n) /\ lev[kernel_end] = 2
            BY <2>3, TakenPages DEF TInv, Levels
          <6> QED
            BY <2>3, <2>4, <3>1, <3>2, <4>2, <6>1 DEF Levels
        <5>2. /\ kernel_end + ALLOC_LIST_SIZE <= KERNEL_DIRECT_MAP_SIZE /\ kernel_end \in Nat
              /\ ALLOC_LIST_SIZE \in Nat /\ KERNEL_DIRECT_MAP_SIZE <= HalfSpace
              /\ HalfSpace \in Nat /\ KERNEL_DIRECT_MAP_SIZE \in Nat
          BY KernelPlace, AllocAssumption, SpacesFit DEF TInv
        <5> QED
          BY <5>1, <5>2 DEF Taken
      <4> QED
        BY <4>1, <4>2
    <3>4. ptb' = Pte.ppn
      <4>1. Pte.ppn < PPN_SIZE /\ PPN_SIZE \in Nat \ {0}
        BY <3>3, SpacesFit
      <4>2. \A p \in 0..(PPN_SIZE - 1) : p % PPN_SIZE = p
        BY <4>1
      <4> QED
        BY <3>1, <3>2, <4>1, <4>2
    <3>5. Deref(ptb)' = NoPage
      <4>1. PICK a : a = ptb'
        OBVIOUS
      <4>2. Deref(a) = NoPage
        BY <3>3, <3>4, <4>1, LateDeref
      <4>3. Walk(satp, ptb)' = Walk(satp, a)
        <5> DEFINE s1 == WalkStep(ptb, At(satp), 2)  s0 == WalkStep(ptb, s1, 1)
                   u1 == WalkStep(a, At(satp), 2)    u0 == WalkStep(a, u1, 1)
        <5>1. s1' = u1
          BY <1>1, <3>1, <4>1 DEF WalkStep, At
        <5> HIDE DEF s1, u1
        <5>2. s0' = u0
          BY <1>1, <3>1, <4>1, <5>1 DEF WalkStep
        <5> HIDE DEF s0, u0
        <5>3. WalkStep(ptb, s0, 0)' = WalkStep(a, u0, 0)
          BY <1>1, <3>1, <4>1, <5>2 DEF WalkStep
        <5> QED
          BY <4>1, <5>3, Zenon DEF Walk, s0, s1, u0, u1, At
      <4>4. Deref(ptb)' = Deref(a)
        BY <1>1, <4>1, <4>3 DEF Deref
      <4> QED
        BY <4>2, <4>4
    <3>6. InLoop'
      BY <3>1 DEF InLoop, PTB_LEVELS
    <3>7. LateInv'
      BY <1>1, <1>2, <3>1, <3>5, <3>6 DEF LateInv, pa_to_va
    <3> QED
      BY <1>1, <1>2, <1>3, <1>4, <1>5, <3>1, <3>7, SafeKept DEF TransInv
  <2>7. CASE MapNewTable /\ GetFails
    <3>1. UNCHANGED <<list, next, initialized, mem, mapped, pc, ptb, level>>
      BY <2>7 DEF MapNewTable, allocVars
    <3>2. Taken(n)' = Taken(n)
      BY <1>1 DEF Taken
    <3>3. MovedList(n)'
      BY <1>1, <2>3, <3>1 DEF MovedList, pa_to_va
    <3>4. Levels(n, lev, pre)'
      BY <1>1, <2>3, <3>1, <3>2 DEF Levels
    <3>5. LateInv'
      BY <1>1, <1>2, <2>2, <3>1, <3>2, <3>3, <3>4 DEF LateInv, pa_to_va
    <3> QED
      BY <1>1, <1>2, <1>3, <1>4, <1>5, <3>1, <3>5, SafeKept DEF TransInv
  <2>8. CASE MapNewTable /\ ~GetFails
    BY <1>2, <2>2, <2>3, <2>4, <2>8, LateNewTable
  <2> QED
    BY <1>7, <2>5, <2>6, <2>7, <2>8 DEF vm_map_page
<1> QED
  BY <1>6, <1>7

(* A later call starts at the root. *)
LEMMA LaterTrans ==
  ASSUME TInv, TransInv, Safe, resets = 0, satp # 0, MapLater, resets' = resets
  PROVE  TransInv' /\ Safe'
<1>1. /\ ~InLoop /\ pc = "done" /\ pc' = "done"
      /\ UNCHANGED <<list, next, initialized, bug_behavior, kmap, mem, kernel_root_ptb, satp,
                     todo, mapped>>
      /\ kernel_end' = kernel_end
  BY DEF MapLater, Step, allocVars, kernel_end
<1>2. /\ satp = kernel_end /\ kernel_root_ptb = pa_to_va(kernel_end)
      /\ MapInv /\ RootOK /\ TransOK /\ LateInv
  BY DEF TransInv, LateInv
<1>3. PICK c \in LaterCalls, b \in BOOLEAN : Call(c[1], c[2], c[3], b)
  BY DEF MapLater
<1>4. InLoop' => level' = 2 /\ ptb' = kernel_root_ptb
  <2>1. CASE b /\ Canonical(c[1])
    BY <1>3, <2>1 DEF Call, PTB_LEVELS
  <2>2. CASE ~(b /\ Canonical(c[1]))
    BY <1>1, <1>3, <2>2 DEF Call, mapVars, InLoop
  <2> QED
    BY <2>1, <2>2
<1>a. PICK n \in 1..(ALLOC_LIST_SIZE - 1) :
           \E lev \in [Taken(n) -> 0..2], pre \in [Taken(n) -> Nat] :
             MovedList(n) /\ Levels(n, lev, pre)
  BY <1>1, <1>2 DEF LateInv
<1>5. PICK lev \in [Taken(n) -> 0..2], pre \in [Taken(n) -> Nat] :
             MovedList(n) /\ Levels(n, lev, pre)
  BY <1>a
<1>6. Taken(n)' = Taken(n)
  BY <1>1 DEF Taken
<1>7. MovedList(n)' /\ Levels(n, lev, pre)'
  BY <1>1, <1>5, <1>6 DEF MovedList, Levels, pa_to_va
<1>8. LateInv'
  BY <1>1, <1>2, <1>4, <1>6, <1>7 DEF LateInv, pa_to_va
<1>9. MapInv'
  <2>1. \A t : Legal(t)' = Legal(t)
    BY DEF Legal
  <2> QED
    BY <1>1, <1>2, <2>1 DEF MapInv
<1>10. RootOK' /\ TransOK' /\ PathOK'
  BY <1>1, <1>2, TransKept DEF RootOK, PathOK, FirstBoot
<1> QED
  BY <1>1, <1>8, <1>9, <1>10, SafeKept DEF TransInv

(* The invariants of translation hold, and the tables stay safe. *)
LEMMA TransInvariance ==
  ASSUME GarbagePTEs = {ZeroPTE} PROVE Spec => [](TransInv /\ Safe)
<1>1. TInv /\ BootInv => (FirstBoot => Safe)
  BY EarlyTablesSafe DEF Safe
<1>2. Init => TransInv /\ Safe
  BY <1>1, InitTrans, InitTypes, InitBoot DEF Init, FirstBoot
<1>3. TInv /\ SatpOK /\ BootInv /\ (FirstBoot => Safe)' /\ TransInv /\ Safe /\ [Next]_vars
        => TransInv' /\ Safe'
  <2>1. CASE resets' # 0
    BY <2>1 DEF TransInv, MapInv, RootOK, PathOK, TransOK, LateInv, Safe, FirstBoot
  <2>2. CASE resets' = 0
    <3> SUFFICES ASSUME TInv, SatpOK, BootInv, (FirstBoot => Safe)', TransInv, Safe, [Next]_vars
                 PROVE  TransInv' /\ Safe'
      OBVIOUS
    <3>1. ~Reset /\ resets = 0 /\ resets' = resets
      BY <2>2 DEF Next, Reset, SatpOK, vars
    <3>2. CASE vm_map_page /\ satp = 0
      <4>1. FirstBoot /\ FirstBoot'
        BY <2>2, <3>1, <3>2
        DEF vm_map_page, MapFaults, MapLeaf, MapNewTable, MapDescend, FirstBoot
      <4> QED
        BY <3>1, <3>2, <4>1, EarlyLoopTrans
    <3>3. CASE vm_map_page /\ satp # 0
      BY <3>1, <3>3, LateLoop
    <3>4. CASE vm_init
      <4>1. FirstBoot
        <5>1. pc \notin {"done", "fault"}
          BY <3>4 DEF vm_init, EarlyAlloc, RootTable, MapNext, vm_init_kernel_direct_map,
             MapNull, MoveAlloc, WriteSatp, Step
        <5> QED
          BY <3>1, <5>1 DEF SatpOK, FirstBoot
      <4>2. TransInv'
        BY <3>1, <3>4, <4>1, InitStepTrans
      <4>3. CASE WriteSatp
        BY <3>1, <4>2, <4>3, SafeKept DEF WriteSatp, allocVars
      <4>4. CASE ~WriteSatp
        <5>1. satp' = satp
          BY <3>4, <4>4 DEF vm_init, EarlyAlloc, RootTable, MapNext, vm_init_kernel_direct_map,
             MapNull, MoveAlloc
        <5>2. FirstBoot'
          BY <2>2, <4>1, <5>1 DEF FirstBoot
        <5> QED
          BY <4>2, <5>2
      <4> QED
        BY <4>3, <4>4
    <3>5. CASE MapLater
      <4>1. satp # 0
        BY <3>1, <3>5 DEF MapLater, Step, BootInv, FirstBoot
      <4> QED
        BY <3>1, <3>5, <4>1, LaterTrans
    <3>6. CASE UNCHANGED vars
      <4>1. /\ UNCHANGED <<list, next, initialized, bug_behavior, panicked, kmap, mem,
                           kernel_root_ptb, satp, pc, todo, va, pa, flags, level, ptb, mapped>>
            /\ kernel_end' = kernel_end
        BY <3>6 DEF vars, allocVars, bugVars, mapVars, kernel_end
      <4>2. MapInv' /\ RootOK'
        <5>1. \A t : Legal(t)' = Legal(t)
          BY DEF Legal
        <5>2. Legal(<<va, pa, flags>>)' = Legal(<<va, pa, flags>>) /\ InLoop' = InLoop
          BY <4>1 DEF Legal, InLoop
        <5> QED
          BY <3>1, <4>1, <5>1, <5>2 DEF TransInv, MapInv, RootOK
      <4>3. PathOK' /\ LateInv' /\ TransOK' /\ Safe'
        <5>1. Level1In(mem, va)' = Level1In(mem, va) /\ Level0In(mem, va)' = Level0In(mem, va)
          BY <4>1, CallStepsNext
        <5>2. PathOK'
          BY <3>1, <4>1, <5>1 DEF TransInv, PathOK, FirstBoot, InLoop, At
        <5>3. TransOK'
          <6>1. CASE pc \notin {"alloc_init", "root"} /\ (pc = "fault" => satp # 0)
            BY <3>1, <4>1, <6>1, TransKept DEF TransInv
          <6>2. CASE ~(pc \notin {"alloc_init", "root"} /\ (pc = "fault" => satp # 0))
            BY <4>1, <6>2 DEF TransOK
          <6> QED
            BY <6>1, <6>2
        <5>4. Deref(ptb)' = Deref(ptb)
          <6> DEFINE s1 == WalkStep(ptb, At(satp), 2)  s0 == WalkStep(ptb, s1, 1)
          <6>1. s1' = s1
            BY <4>1 DEF WalkStep, At
          <6> HIDE DEF s1
          <6>2. s0' = s0
            BY <4>1, <6>1 DEF WalkStep
          <6> HIDE DEF s0
          <6>3. WalkStep(ptb, s0, 0)' = WalkStep(ptb, s0, 0)
            BY <4>1, <6>2 DEF WalkStep
          <6>4. Walk(satp, ptb)' = Walk(satp, ptb)
            BY <4>1, <6>3, Zenon DEF Walk, s0, s1, At
          <6> QED
            BY <4>1, <6>4 DEF Deref
        <5>5. LateInv'
          <6>1. \A n : Taken(n)' = Taken(n) /\ MovedList(n)' = MovedList(n)
            BY <4>1 DEF Taken, MovedList, pa_to_va
          <6>2. ASSUME NEW n, NEW lev, NEW pre, Levels(n, lev, pre) PROVE Levels(n, lev, pre)'
            BY <4>1, <6>1, <6>2 DEF Levels
          <6> QED
            BY <3>1, <4>1, <5>4, <6>1, <6>2 DEF TransInv, LateInv, InLoop, pa_to_va
        <5> QED
          BY <3>1, <4>1, <5>2, <5>3, <5>5, SafeKept
      <4> QED
        BY <4>2, <4>3 DEF TransInv
    <3> QED
      BY <3>1, <3>2, <3>3, <3>4, <3>5, <3>6 DEF Next
  <2> QED
    BY <2>1, <2>2
<1> QED
  BY <1>1, <1>2, <1>3, TypeInvariance, SatpInvariance, BootInvariance, PTL DEF Spec

(* On the first boot after power-on, RAM being zero, the allocator's list, *)
(* in either address space, never holds a page table or a page of the      *)
(* kernel, nor after the new tables are turned on: for every size of the   *)
(* tables, every length of the list and every layout of the sections.      *)
THEOREM TablesAreSafe ==
  ASSUME GarbagePTEs = {ZeroPTE} PROVE Spec => []TablesNotFree
<1>1. Safe => TablesNotFree
  BY DEF Safe, TablesNotFree
<1> QED
  BY <1>1, TransInvariance, PTL

(* Until the machine is reset, no page table is ever written over the      *)
(* kernel's sections, by vm_init() or by a later vm_map_page().            *)
THEOREM KernelIsKept ==
  ASSUME GarbagePTEs = {ZeroPTE} PROVE Spec => [](resets = 0 => KernelNotOverwritten)
<1>1. Safe => (resets = 0 => KernelNotOverwritten)
  BY DEF Safe
<1> QED
  BY <1>1, TransInvariance, PTL

(* What the hardware translates is what was asked for, unless a table was  *)
(* outside RAM and vm_init() faulted.                                      *)
LEMMA TranslationUntilFault ==
  ASSUME GarbagePTEs = {ZeroPTE}
  PROVE  Spec => []((pc = "fault" => satp # 0) => TranslatesAsMapped)
<1>1. TInv /\ BootInv /\ TransInv => ((pc = "fault" => satp # 0) => TranslatesAsMapped)
  <2> SUFFICES ASSUME TInv, BootInv, TransInv, pc = "fault" => satp # 0, resets = 0,
                      pc \notin {"alloc_init", "root"}, NEW v \in VAs
               PROVE  <<Walk(Root, v).page, Walk(Root, v).perm>> = Wanted(v)
    BY DEF TranslatesAsMapped
  <2>1. kernel_root_ptb \in {kernel_end, pa_to_va(kernel_end)}
    BY DEF BootInv, FirstBoot, Building, TransInv, LateInv
  <2>2. Walk(Root, v) = WalkIn(mem, v)
    BY <2>1, RootIs, WalkIs
  <2> QED
    BY <2>2 DEF TransInv, TransOK
<1> QED
  BY <1>1, TypeInvariance, BootInvariance, TransInvariance, PTL

(* At every moment until a reset the hardware translates an address        *)
(* exactly as the calls of vm_map_page() so far and the direct map say,    *)
(* and faults on any other, for tables of any size, every layout of the    *)
(* sections and every later call.  The hypotheses are those of             *)
(* FirstBootGoesThrough.                                                   *)
THEOREM TranslationIsRight ==
  ASSUME GarbagePTEs = {ZeroPTE}, Room PROVE Spec => []TranslatesAsMapped
<1>1. FirstBootSucceeds /\ ((pc = "fault" => satp # 0) => TranslatesAsMapped)
        => TranslatesAsMapped
  BY DEF FirstBootSucceeds, TranslatesAsMapped
<1> QED
  BY <1>1, FirstBootGoesThrough, TranslationUntilFault, PTL
=============================================================================
