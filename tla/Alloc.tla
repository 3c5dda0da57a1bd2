------------------------------- MODULE Alloc --------------------------------
(***************************************************************************)
(* The physical page allocator, src/alloc.c: a stack of free pages in an   *)
(* array, list[next..] being free, and the BUG() macro its error paths     *)
(* end in.  An address is represented by the number of its page, so        *)
(* PAGE_SIZE is 1; whether an address is aligned is a parameter of its     *)
(* own.  Page 0 is the null pointer.                                       *)
(***************************************************************************)
EXTENDS Naturals

CONSTANT ALLOC_LIST_SIZE     \* 32768

ASSUME AllocAssumption == ALLOC_LIST_SIZE \in Nat \ {0}

VARIABLES
  list, next, initialized,   \* struct alloc_t
  bug_behavior,              \* what BUG() does, "BUG_PANIC" or "BUG_LOG"
  panicked                   \* the kernel is in the endless loop of panic()

allocVars == <<list, next, initialized>>
bugVars   == <<bug_behavior, panicked>>

ListIndex == 0..(ALLOC_LIST_SIZE - 1)

AllocInit ==      \* cleared .bss
  /\ list = [k \in ListIndex |-> 0]
  /\ next = 0
  /\ initialized = FALSE
  /\ bug_behavior = "BUG_PANIC"
  /\ panicked = FALSE

bug_set_behavior(b) == bug_behavior' = b

BUG == panicked' = (bug_behavior = "BUG_PANIC")

-----------------------------------------------------------------------------
(* Mutant: the index is not reset when the list is filled again. *)
alloc_init_KeepsNext(start) ==
  /\ list' = [k \in ListIndex |-> start + k]
  /\ next' = next
  /\ initialized' = TRUE

alloc_init(start) ==
  /\ list' = [k \in ListIndex |-> start + k]
  /\ next' = 0
  /\ initialized' = TRUE

(* Mutant: no check that pages are left. *)
Exhausted_Never == FALSE

(* The list counts as exhausted with one page left in it. *)
Exhausted == next = ALLOC_LIST_SIZE - 1

GetFails == ~initialized \/ Exhausted

(* Mutant: the next page is taken, but stays in the list. *)
alloc_get_page_NoAdvance == UNCHANGED <<list, next, initialized>>

(* A call that does not fail returns FreePage. *)
FreePage == list[next]
alloc_get_page ==
  /\ list' = [list EXCEPT ![next] = 0]
  /\ next' = next + 1
  /\ UNCHANGED initialized

(* Mutant: off by one. *)
FreeFails_OffByOne(aligned) == ~initialized \/ ~aligned \/ next <= 1

FreeFails(aligned) == ~initialized \/ ~aligned \/ next = 0

(* The page is stored whatever it is: nothing tells whether it is free     *)
(* already.                                                                *)
alloc_free_page(pa) ==
  /\ list' = [list EXCEPT ![next - 1] = pa]
  /\ next' = next - 1
  /\ UNCHANGED initialized

AllocTypeOK ==
  /\ list \in [ListIndex -> Nat]
  /\ next \in ListIndex
  /\ initialized \in BOOLEAN
  /\ bug_behavior \in {"BUG_PANIC", "BUG_LOG"}
  /\ panicked \in BOOLEAN
=============================================================================
