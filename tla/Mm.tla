--------------------------------- MODULE Mm ---------------------------------
(***************************************************************************)
(* Virtual memory, src/mm.c: vm_init() builds the kernel's Sv39 page       *)
(* tables in pages from the allocator, moves the allocator to the direct   *)
(* map and turns the tables on; vm_map_page() is a loop over the levels,   *)
(* one action per iteration.                                               *)
(*                                                                         *)
(* An address is the number of its page, and VA_SIZE is 2^52.  A PTE is a  *)
(* record; its ppn is what was shifted into it, and the hardware and       *)
(* pte_get_ppn() disagree when that has more than 44 bits (PPN_SIZE is     *)
(* 2^44).  Pages that hold no page table have no contents here.            *)
(***************************************************************************)
EXTENDS Alloc, Sequences

CONSTANTS
  PTB_ENTRY_COUNT,   \* 512
  DirectGigapages,   \* root entries of the direct map, 32
  KernelGigapages,   \* root entries from KERNEL_PHYS_OFFSET on, 4
  VA_SIZE, PPN_SIZE,
  KernelStarts,      \* physical pages at which .text may start
  MaxKernelPages,    \* bound: pages of .text, .bss, .rodata and .data
  SERIAL,            \* the page of the serial port
  RamPages,          \* physical pages that are RAM
  GarbagePTEs,       \* what an entry of a page that was never written may be
  LaterCalls,        \* <<va, pa, flags>> of calls of vm_map_page() after vm_init()
  MaxResets          \* bound: times the machine is reset

PTB_LEVELS == 3
Index == 0..(PTB_ENTRY_COUNT - 1)

(* Pages that an entry of a table of this level spans. *)
Span(l) == CASE l = 0 -> 1
             [] l = 1 -> PTB_ENTRY_COUNT
             [] l = 2 -> PTB_ENTRY_COUNT * PTB_ENTRY_COUNT
             [] l = 3 -> PTB_ENTRY_COUNT * PTB_ENTRY_COUNT * PTB_ENTRY_COUNT
HalfSpace   == Span(PTB_LEVELS) \div 2

KERNEL_DIRECT_MAP_START == VA_SIZE - HalfSpace
KERNEL_DIRECT_MAP_SIZE  == DirectGigapages * Span(PTB_LEVELS - 1)
KERNEL_DIRECT_MAP_END   == KERNEL_DIRECT_MAP_START + KERNEL_DIRECT_MAP_SIZE
KERNEL_PHYS_OFFSET      == VA_SIZE - KernelGigapages * Span(PTB_LEVELS - 1)

ASSUME MmAssumption ==
  /\ ALLOC_LIST_SIZE > 1
  /\ PTB_ENTRY_COUNT \in Nat /\ PTB_ENTRY_COUNT >= 4 /\ PTB_ENTRY_COUNT % 2 = 0
  /\ DirectGigapages \in Nat \ {0} /\ KernelGigapages \in Nat \ {0}
  /\ DirectGigapages + KernelGigapages <= PTB_ENTRY_COUNT \div 2
  /\ VA_SIZE \in Nat /\ VA_SIZE > Span(PTB_LEVELS) /\ VA_SIZE % Span(PTB_LEVELS) = 0
  /\ PPN_SIZE \in Nat \ {0} /\ PPN_SIZE >= Span(PTB_LEVELS)
  /\ VA_SIZE > PPN_SIZE /\ VA_SIZE % PPN_SIZE = 0
  /\ RamPages \subseteq 1..(KERNEL_DIRECT_MAP_SIZE - 1) /\ KernelStarts \subseteq RamPages
  /\ SERIAL \in 1..(HalfSpace - 1) /\ SERIAL \notin RamPages
  /\ MaxResets \in Nat /\ MaxKernelPages \in Nat
  /\ \A first \in KernelStarts :
       /\ first..(first + MaxKernelPages) \subseteq RamPages
       /\ first + MaxKernelPages <= KernelGigapages * Span(PTB_LEVELS - 1)
       /\ first + MaxKernelPages + ALLOC_LIST_SIZE <= KERNEL_DIRECT_MAP_SIZE
       /\ first + MaxKernelPages + ALLOC_LIST_SIZE <= PPN_SIZE

VARIABLES
  kmap,              \* first and last + 1 page (physical) of the sections
  mem,               \* contents of RAM, as page tables
  kernel_root_ptb, satp,
  pc, todo,          \* where vm_init() is, and the pages it has yet to map
  va, pa, flags, level, ptb,   \* vm_map_page()'s arguments and locals
  mapped,            \* history: the mappings vm_map_page() made
  resets

mapVars == <<va, pa, flags, level, ptb>>
vars == <<allocVars, bugVars, kmap, mem, kernel_root_ptb, satp, pc, todo, mapVars, mapped,
          resets>>

-----------------------------------------------------------------------------
(* Page table entries. *)

PTE == [valid : BOOLEAN, ppn : Nat, perm : SUBSET {"R", "W", "X"}]
ASSUME GarbageAssumption == GarbagePTEs # {} /\ GarbagePTEs \subseteq PTE

ASSUME LaterAssumption ==
  LaterCalls \subseteq (0..(VA_SIZE - 1)) \X Nat \X (SUBSET {"R", "W", "X"})

ZeroPTE  == [valid |-> FALSE, ppn |-> 0, perm |-> {}]
ZeroPage == [k \in Index |-> ZeroPTE]

pte_valid(pte) == pte.valid
pte_leaf(pte)  == pte.perm # {}
pte_get_ppn(pte)  == pte.ppn % PPN_SIZE
pte_next_ptb(pte) == pte_get_ppn(pte)
Entry(ppn, perm)  == [valid |-> TRUE, ppn |-> ppn, perm |-> perm]

(* Mutant: the mask of an index is one bit short. *)
va_get_index_NarrowMask(addr, l) == (addr \div Span(l)) % (PTB_ENTRY_COUNT \div 2)

va_get_index(addr, l) == (addr \div Span(l)) % PTB_ENTRY_COUNT

pa_to_va(addr) == addr + KERNEL_DIRECT_MAP_START
va_to_pa(addr) ==
  IF addr \in KERNEL_DIRECT_MAP_START..KERNEL_DIRECT_MAP_END
  THEN addr - KERNEL_DIRECT_MAP_START ELSE 0

-----------------------------------------------------------------------------
(* The hardware: an Sv39 walk from the table in page root.  It faults on   *)
(* an address that is not sign-extended.                                   *)

VAs == 0..(HalfSpace - 1) \cup (VA_SIZE - HalfSpace)..(VA_SIZE - 1)

Fault == [kind |-> "fault", page |-> 0, perm |-> {}]

WalkStep(addr, acc, l) ==
  IF acc.kind # "table" THEN acc
  ELSE IF acc.page \notin RamPages THEN Fault
  ELSE LET pte == mem[acc.page][(addr \div Span(l)) % PTB_ENTRY_COUNT]
       IN  IF \/ ~pte.valid \/ pte.ppn >= PPN_SIZE
              \/ pte.perm = {} /\ l = 0
              \/ pte.perm # {} /\ pte.ppn % Span(l) # 0 THEN Fault
           ELSE IF pte.perm = {}
                THEN [kind |-> "table", page |-> pte.ppn, perm |-> {}]
                ELSE [kind |-> "leaf", page |-> pte.ppn + (addr % Span(l)), perm |-> pte.perm]

Walk(root, addr) ==
  IF addr \in VAs
  THEN LET start == [kind |-> "table", page |-> root, perm |-> {}]
       IN  WalkStep(addr, WalkStep(addr, WalkStep(addr, start, 2), 1), 0)
  ELSE Fault

(* The page behind the pointer addr.  Before satp is written, the tables   *)
(* of boot/init.S map the low addresses to themselves.                     *)
NoPage == 0
Deref(addr) ==
  LET page == IF satp = 0 THEN addr
              ELSE IF "W" \in Walk(satp, addr).perm THEN Walk(satp, addr).page ELSE NoPage
  IN  IF page \in RamPages THEN page ELSE NoPage

-----------------------------------------------------------------------------
(* vm_map_page() *)

(* Mutant: any address is taken for a canonical one. *)
Canonical_Unchecked(addr) == TRUE

Canonical(addr) == addr < HalfSpace \/ addr >= VA_SIZE - HalfSpace

(* A call made at some place of the code: it is refused, or the loop       *)
(* starts at the root.                                                     *)
Call(v, p, f, aligned) ==
  IF aligned /\ Canonical(v)
  THEN /\ va' = v /\ pa' = p /\ flags' = f
       /\ level' = PTB_LEVELS - 1 /\ ptb' = kernel_root_ptb
       /\ UNCHANGED panicked
  ELSE BUG /\ UNCHANGED mapVars

InLoop == level \in 0..(PTB_LEVELS - 1)
Table  == Deref(ptb)
Pte    == mem[Table][va_get_index(va, level)]
Loop   == ~panicked /\ pc # "fault" /\ InLoop
Done   == PTB_LEVELS     \* the value of level outside the loop

(* The table cannot be read: a page fault in the kernel. *)
MapFaults ==
  /\ Loop /\ Table = NoPage
  /\ pc' = "fault"
  /\ UNCHANGED <<allocVars, bugVars, kmap, mem, kernel_root_ptb, satp, todo, mapVars, mapped>>

(* The last level: an address that is mapped already is refused. *)
MapLeaf ==
  /\ Loop /\ Table # NoPage /\ level = 0
  /\ IF pte_valid(Pte)
     THEN BUG /\ UNCHANGED <<mem, mapped>>
     ELSE /\ mem' = [mem EXCEPT ![Table][va_get_index(va, 0)] = Entry(pa, flags)]
          /\ mapped' = mapped \cup {<<va, pa, flags>>}
          /\ UNCHANGED panicked
  /\ level' = Done
  /\ UNCHANGED <<allocVars, bug_behavior, kmap, kernel_root_ptb, satp, pc, todo, va, pa, flags,
                 ptb>>

(* A missing table is created in a zeroed page.  The address is turned     *)
(* into a PTE as it came from the allocator.  Without a page the kernel    *)
(* panics; memset() may fault.                                             *)
MapNewTable ==
  /\ Loop /\ Table # NoPage /\ level > 0 /\ ~pte_valid(Pte)
  /\ IF GetFails THEN BUG /\ UNCHANGED <<allocVars, mem, pc, ptb, level>>
     ELSE /\ alloc_get_page
          /\ IF Deref(FreePage) = NoPage THEN pc' = "fault" /\ UNCHANGED <<mem, ptb, level>>
             ELSE /\ mem' = [mem EXCEPT
                       ![Deref(FreePage)] = ZeroPage,
                       ![Table][va_get_index(va, level)] = Entry(FreePage, {})]
                  /\ ptb' = pte_next_ptb(Entry(FreePage, {}))
                  /\ level' = level - 1
                  /\ UNCHANGED pc
          /\ UNCHANGED panicked
  /\ UNCHANGED <<bug_behavior, kmap, kernel_root_ptb, satp, todo, va, pa, flags, mapped>>

(* Nothing tells whether the entry is a leaf. *)
MapDescend ==
  /\ Loop /\ Table # NoPage /\ level > 0 /\ pte_valid(Pte)
  /\ ptb' = pte_next_ptb(Pte)
  /\ level' = level - 1
  /\ UNCHANGED <<allocVars, bugVars, kmap, mem, kernel_root_ptb, satp, pc, todo,
                 va, pa, flags, mapped>>

vm_map_page == MapFaults \/ MapLeaf \/ MapNewTable \/ MapDescend

-----------------------------------------------------------------------------
(* vm_init() *)

Sections == <<{"R", "X"}, {"R", "W"}, {"R"}, {"R", "W"}>>   \* text bss rodata data

(* The calls for the section of kmap with number s, page by page. *)
SectionPages(s) ==
  [k \in 1..(kmap[s + 1] - kmap[s]) |->
     <<kmap[s] + k - 1 + KERNEL_PHYS_OFFSET, kmap[s] + k - 1, Sections[s]>>]

Layouts ==
  {[s \in 1..5 |-> IF s = 1 THEN first ELSE first + ends[s]] :
     first \in KernelStarts,
     ends \in {e \in [2..5 -> 0..MaxKernelPages] : \A s \in 2..4 : e[s] <= e[s + 1]}}

(* Mutant: kernel_end comes before .data. *)
kernel_end_BeforeData == kmap[4]

(* The first page after the kernel.  What linker.ld places between .data   *)
(* and _end, which vm_init() does not map, is left out.                    *)
kernel_end == kmap[5]

Init ==
  /\ AllocInit
  /\ kmap \in Layouts
  /\ \E root \in [Index -> GarbagePTEs] :
       mem = [p \in RamPages |-> IF p = kernel_end THEN root ELSE ZeroPage]
  /\ kernel_root_ptb = 0 /\ satp = 0
  /\ pc = "alloc_init" /\ todo = <<>>
  /\ va = 0 /\ pa = 0 /\ flags = {} /\ level = Done /\ ptb = 0
  /\ mapped = {} /\ resets = 0

(* The machine is reset and the same kernel loaded again: its sections are *)
(* as they were, and the RAM behind them holds what the last run left.     *)
Reset ==
  /\ resets < MaxResets /\ pc # "alloc_init"
  /\ list' = [k \in ListIndex |-> 0] /\ next' = 0 /\ initialized' = FALSE
  /\ bug_behavior' = "BUG_PANIC" /\ panicked' = FALSE
  /\ kernel_root_ptb' = 0 /\ satp' = 0
  /\ pc' = "alloc_init" /\ todo' = <<>>
  /\ va' = 0 /\ pa' = 0 /\ flags' = {} /\ level' = Done /\ ptb' = 0
  /\ mapped' = {} /\ resets' = resets + 1
  /\ mem' = [p \in RamPages |-> IF p \in kmap[1]..(kmap[5] - 1) THEN ZeroPage ELSE mem[p]]
  /\ UNCHANGED kmap

Step(from, to) == ~panicked /\ ~InLoop /\ pc = from /\ pc' = to

EarlyAlloc ==
  /\ Step("alloc_init", "root")
  /\ alloc_init(kernel_end)
  /\ UNCHANGED <<bugVars, kmap, mem, kernel_root_ptb, satp, todo, mapVars, mapped>>

(* The root table is not zeroed.  The calls to come are those for the      *)
(* sections and the serial port.                                           *)
RootTable ==
  /\ Step("root", "map")
  /\ alloc_get_page
  /\ kernel_root_ptb' = FreePage
  /\ todo' = SectionPages(1) \o SectionPages(2) \o SectionPages(3) \o SectionPages(4)
             \o << <<SERIAL, SERIAL, {"R", "W"}>> >>
  /\ UNCHANGED <<bugVars, kmap, mem, satp, mapVars, mapped>>

MapNext ==
  /\ Step("map", IF Tail(todo) = <<>> THEN "direct" ELSE "map")
  /\ Call(todo[1][1], todo[1][2], todo[1][3], TRUE)
  /\ todo' = Tail(todo)
  /\ UNCHANGED <<allocVars, bug_behavior, kmap, mem, kernel_root_ptb, satp, mapped>>

(* The root's entries for the gigapages of the direct map. *)
gigapage(k)   == KERNEL_DIRECT_MAP_START + k * Span(2)
DirectIndexes == {va_get_index(gigapage(k), 2) : k \in 0..(DirectGigapages - 1)}
DirectEntry(idx) ==
  Entry((idx - va_get_index(gigapage(0), 2)) * Span(2), {"R", "W", "X"})

vm_init_kernel_direct_map ==
  /\ Step("direct", "null")
  /\ mem' = [mem EXCEPT ![kernel_root_ptb] =
                [idx \in Index |-> IF idx \in DirectIndexes THEN DirectEntry(idx) ELSE @[idx]]]
  /\ UNCHANGED <<allocVars, bugVars, kmap, kernel_root_ptb, satp, todo, mapVars, mapped>>

MapNull ==
  /\ Step("null", "move")
  /\ Call(0, 0, {}, TRUE)
  /\ UNCHANGED <<allocVars, bug_behavior, kmap, mem, kernel_root_ptb, satp, todo, mapped>>

(* Mutant: the allocator starts again behind the kernel. *)
MoveAlloc_FromKernelEnd ==
  /\ Step("move", "satp")
  /\ kernel_root_ptb' = pa_to_va(kernel_root_ptb)
  /\ alloc_init(pa_to_va(kernel_end))
  /\ UNCHANGED <<bugVars, kmap, mem, satp, todo, mapVars, mapped>>

(* freemem is the page alloc_get_page() returns. *)
MoveAlloc ==
  /\ Step("move", "satp")
  /\ kernel_root_ptb' = pa_to_va(kernel_root_ptb)
  /\ IF GetFails THEN BUG /\ UNCHANGED allocVars
                 ELSE alloc_init(pa_to_va(FreePage)) /\ UNCHANGED panicked
  /\ UNCHANGED <<bug_behavior, kmap, mem, satp, todo, mapVars, mapped>>

WriteSatp ==
  /\ Step("satp", "done")
  /\ satp' = va_to_pa(kernel_root_ptb)
  /\ UNCHANGED <<allocVars, bugVars, kmap, mem, kernel_root_ptb, todo, mapVars, mapped>>

(* A later call of vm_map_page(): any of LaterCalls, aligned or not. *)
MapLater ==
  /\ Step("done", "done")
  /\ \E c \in LaterCalls, aligned \in BOOLEAN : Call(c[1], c[2], c[3], aligned)
  /\ UNCHANGED <<allocVars, bug_behavior, kmap, mem, kernel_root_ptb, satp, todo, mapped>>

vm_init ==
  \/ EarlyAlloc \/ RootTable \/ MapNext \/ vm_init_kernel_direct_map \/ MapNull
  \/ MoveAlloc \/ WriteSatp

Next == \/ (vm_map_page \/ vm_init \/ MapLater) /\ UNCHANGED resets
        \/ Reset

Spec == Init /\ [][Next]_vars

-----------------------------------------------------------------------------
Root == IF kernel_root_ptb < KERNEL_DIRECT_MAP_START THEN kernel_root_ptb
        ELSE va_to_pa(kernel_root_ptb)

(* The type invariant; vm_map_page() works on canonical addresses only. *)
TypeOK ==
  /\ AllocTypeOK
  /\ mem \in [RamPages -> [Index -> PTE]]
  /\ kernel_root_ptb \in Nat /\ satp \in Nat
  /\ pc \in {"alloc_init", "root", "map", "direct", "null", "move", "satp", "done", "fault"}
  /\ va \in VAs /\ pa \in Nat /\ flags \subseteq {"R", "W", "X"}
  /\ level \in 0..Done /\ ptb \in Nat

(* The page and the permissions that the calls of vm_map_page() so far and *)
(* the direct map give to an address.                                      *)
Wanted(v) ==
  LET m == {t \in mapped : t[1] = v}
  IN  IF /\ pc \notin {"map", "direct"}
         /\ v \in KERNEL_DIRECT_MAP_START..(KERNEL_DIRECT_MAP_END - 1)
      THEN <<va_to_pa(v), {"R", "W", "X"}>>
      ELSE IF \E t \in m : t[3] # {} THEN LET t == CHOOSE t \in m : TRUE IN <<t[2], t[3]>>
      ELSE <<0, {}>>

(* At every moment the hardware translates an address exactly as the calls *)
(* of vm_map_page() so far and the direct map say, and faults on any       *)
(* other: no call disturbs a mapping made before, or makes another one.    *)
TranslatesAsMapped ==
  resets = 0 /\ pc \notin {"alloc_init", "root"} =>
    \A v \in VAs : <<Walk(Root, v).page, Walk(Root, v).perm>> = Wanted(v)

(* The pages that hold page tables, by level. *)
NonLeaf(t) == {k \in Index : mem[t][k].valid /\ mem[t][k].perm = {}}
NextTables(T) == UNION {{mem[t][k].ppn : k \in NonLeaf(t)} : t \in T \cap RamPages}
Tables == {Root} \cup NextTables({Root}) \cup NextTables(NextTables({Root}))

FreePhys == {IF list[k] < KERNEL_DIRECT_MAP_START THEN list[k] ELSE va_to_pa(list[k]) :
               k \in next..(ALLOC_LIST_SIZE - 1)}

(* Before and after the allocator moves to the direct map, the pages it    *)
(* may hand out are neither page tables nor pages of the kernel's own      *)
(* sections.                                                               *)
TablesNotFree ==
  resets = 0 /\ initialized => FreePhys \cap (Tables \cup kmap[1]..(kmap[5] - 1)) = {}

(* Page tables are never written over the kernel's sections.  This holds   *)
(* on the first boot for every kernel, and after a reset, when the root    *)
(* holds the old entries, for a kernel within one last-level table.        *)
KernelNotOverwritten ==
  \A p \in kmap[1]..(kmap[5] - 1) : mem[p] = ZeroPage

(* vm_init() maps the kernel and reaches its end without a panic, after a  *)
(* reset too.                                                              *)
BootNeverPanics == pc # "done" => ~panicked

(* From a cleared RAM the whole of vm_init(), a few dozen calls of         *)
(* vm_map_page() that share tables and take pages from the allocator, goes *)
(* through: no page is found mapped twice, none is missing, and no table   *)
(* is out of reach until the new tables are turned on.                     *)
FirstBootSucceeds == resets = 0 /\ satp = 0 => ~panicked /\ pc # "fault"

(* vm_map_page() never faults. *)
MapNeverFaults == pc # "fault"
=============================================================================
