---------------------------- MODULE AllocClient -----------------------------
(***************************************************************************)
(* The page allocator and the code that uses it.  The caller is the one    *)
(* the kernel and its tests are: it frees only pages it was given and has  *)
(* not freed, and (as mm_init() does when it moves the allocator to the    *)
(* direct map) it hands the allocator only memory that nobody uses.  It    *)
(* also makes the calls the allocator must refuse.                         *)
(***************************************************************************)
EXTENDS Alloc, FiniteSets

CONSTANT Starts     \* first pages of the regions alloc_init() is given

ASSUME StartsAssumption == Starts \subseteq Nat \ {0}

VARIABLES
  start,   \* the region the allocator was last given begins here
  held,    \* pages of that region that the caller holds
  kept,    \* pages the caller still uses that came from an earlier region
  error    \* why the last call failed, "none" if it did not

vars == <<allocVars, bugVars, start, held, kept, error>>

Region(s) == s..(s + ALLOC_LIST_SIZE - 1)

Init ==
  /\ AllocInit
  /\ start = 0
  /\ held = {}
  /\ kept = {}
  /\ error = "none"

(* After a panic nothing runs, and nothing after a write through the null  *)
(* pointer, which faults again and again.                                  *)
Running == ~panicked /\ error # "null write"

Fail(why) ==
  /\ BUG
  /\ error' = why
  /\ UNCHANGED <<allocVars, bug_behavior, start, held, kept>>

SetBugBehavior ==
  /\ Running
  /\ \E b \in {"BUG_PANIC", "BUG_LOG"} : bug_set_behavior(b)
  /\ error' = "none"
  /\ UNCHANGED <<allocVars, panicked, start, held, kept>>

InitAligned ==
  /\ Running
  /\ \E s \in Starts :
       /\ Region(s) \cap (held \cup kept) = {}
       /\ alloc_init(s)
       /\ start' = s
  /\ kept' = kept \cup held
  /\ held' = {}
  /\ error' = "none"
  /\ UNCHANGED bugVars

InitMisaligned ==
  /\ Running
  /\ Fail("misaligned")

GetPage ==
  /\ Running /\ ~GetFails
  /\ alloc_get_page
  /\ held' = held \cup {FreePage}
  /\ error' = "none"
  /\ UNCHANGED <<bugVars, start, kept>>

GetPageFails ==
  /\ Running /\ GetFails
  /\ Fail(IF initialized THEN "exhausted" ELSE "uninitialized")

(* alloc_zero_page() that does not fail is GetPage; contents of pages are  *)
(* left out.  If alloc_get_page() fails and BUG() returns, memset() clears *)
(* the page at the address it got, 0.                                      *)
ZeroPageFails ==
  /\ Running /\ GetFails
  /\ Fail(IF bug_behavior = "BUG_LOG" THEN "null write"
          ELSE IF initialized THEN "exhausted" ELSE "uninitialized")

FreeHeld ==
  /\ Running
  /\ \E pa \in held :
       /\ ~FreeFails(TRUE)
       /\ alloc_free_page(pa)
       /\ held' = held \ {pa}
  /\ error' = "none"
  /\ UNCHANGED <<bugVars, start, kept>>

(* The calls alloc_free_page() refuses: before alloc_init(), with a        *)
(* misaligned address, with nothing allocated.                             *)
FreeRefused ==
  /\ Running
  /\ \E aligned \in BOOLEAN :
       /\ FreeFails(aligned)
       /\ Fail(IF ~initialized THEN "uninitialized"
               ELSE IF ~aligned THEN "misaligned" ELSE "nothing allocated")

Next ==
  \/ SetBugBehavior \/ InitAligned \/ InitMisaligned
  \/ GetPage \/ GetPageFails \/ ZeroPageFails \/ FreeHeld \/ FreeRefused

Spec == Init /\ [][Next]_vars

-----------------------------------------------------------------------------
FreePages == {list[k] : k \in next..(ALLOC_LIST_SIZE - 1)}

(* The type invariant; next never leaves the list. *)
TypeOK ==
  /\ AllocTypeOK
  /\ start \in Nat
  /\ held \subseteq Nat /\ kept \subseteq Nat
  /\ error \in {"none", "uninitialized", "exhausted", "misaligned",
                "nothing allocated", "null write"}

(* No page has two owners: the free part of the list holds no page twice,  *)
(* no page the caller holds, no page kept from before the allocator was    *)
(* moved to another region, and never the null page.  So whatever the      *)
(* order of allocations and frees, alloc_get_page() returns a page nobody  *)
(* else uses.                                                              *)
NoDoubleOwner ==
  initialized =>
    /\ \A k, m \in next..(ALLOC_LIST_SIZE - 1) : k # m => list[k] # list[m]
    /\ FreePages \cap (held \cup kept \cup {0}) = {}

(* No page is lost: every page of the region is free or held, and next     *)
(* counts the held ones.                                                   *)
NoLeak ==
  initialized => /\ FreePages \cup held = Region(start)
                 /\ Cardinality(held) = next

(* A caller that gives back a page it holds is never refused. *)
HeldCanBeFreed == held # {} => ~FreeFails(TRUE)

(* alloc_zero_page() returns when it fails, and returns 0. *)
ZeroPageReturns == error # "null write"

(* alloc_get_page() says "no more free pages" only when there are none. *)
ExhaustedMeansNone == error = "exhausted" => FreePages = {}
=============================================================================
