---------------------------- MODULE AllocProofs -----------------------------
(***************************************************************************)
(* Proofs that the page allocator never gives a page to two owners and     *)
(* never loses one, for every size of the list.                            *)
(*                                                                         *)
(* That no page is given out twice needs to know where the pages of the    *)
(* list came from, that is NoLeak; that a held page can be given back      *)
(* needs next to count the held pages, which is about the cardinality of   *)
(* a set the caller changes.  The inductive invariant is the conjunction.  *)
(***************************************************************************)
EXTENDS AllocClient, TLAPS, FiniteSetTheorems

(* Before alloc_init() the list is empty and nothing is held. *)
Fresh == ~initialized => next = 0 /\ held = {} /\ kept = {}

(* What the caller holds, what it kept and the null page are different. *)
Owners == held \cap (kept \cup {0}) = {}

IInv == TypeOK /\ Fresh /\ Owners /\ IsFiniteSet(held) /\ NoDoubleOwner /\ NoLeak

USE DEF ListIndex, allocVars, bugVars, vars, Running, Region

(* A failing call changes neither the list nor who holds what. *)
LEMMA FailKeeps ==
  ASSUME IInv, NEW why \in {"uninitialized", "exhausted", "misaligned", "nothing allocated",
                     "null write"},
         Fail(why)
  PROVE  IInv'
BY DEF IInv, TypeOK, AllocTypeOK, Fresh, Owners, NoDoubleOwner, NoLeak, FreePages,
       Fail, BUG

(* alloc_init() fills the list with memory nobody uses. *)
LEMMA InitKeeps ==
  ASSUME IInv, InitAligned
  PROVE  IInv'
<1>1. PICK s \in Starts : /\ Region(s) \cap (held \cup kept) = {}
                          /\ alloc_init(s) /\ start' = s
  BY DEF InitAligned
<1>2. s \in Nat \ {0}
  BY StartsAssumption
<1>3. /\ list' = [k \in ListIndex |-> s + k] /\ next' = 0 /\ initialized'
      /\ held' = {} /\ kept' = kept \cup held /\ error' = "none" /\ UNCHANGED bugVars
  BY <1>1 DEF InitAligned, alloc_init
<1>4. TypeOK' /\ Fresh' /\ Owners'
  <2>1. list' \in [ListIndex -> Nat] /\ next' \in ListIndex
    BY <1>2, <1>3, AllocAssumption
  <2>2. /\ initialized' \in BOOLEAN /\ panicked' \in BOOLEAN
        /\ bug_behavior' \in {"BUG_PANIC", "BUG_LOG"}
    BY <1>1, <1>3 DEF alloc_init, IInv, TypeOK, AllocTypeOK
  <2>3. start' \in Nat /\ held' \subseteq Nat /\ kept' \subseteq Nat
    BY <1>1, <1>2, <1>3 DEF IInv, TypeOK
  <2>4. TypeOK'
    BY <1>3, <2>1, <2>2, <2>3 DEF TypeOK, AllocTypeOK
  <2> QED
    BY <1>3, <2>4 DEF Fresh, Owners
<1>5. \A k \in ListIndex : list'[k] = s + k
  BY <1>3
<1>6. FreePages' = Region(s)
  <2>1. ASSUME NEW p \in FreePages' PROVE p \in Region(s)
    BY <1>2, <1>3, <1>5, <2>1, AllocAssumption DEF FreePages
  <2>2. ASSUME NEW p \in Region(s) PROVE p \in FreePages'
    <3>1. p - s \in ListIndex /\ list'[p - s] = p
      BY <1>2, <1>5, <2>2, AllocAssumption
    <3> QED
      BY <1>3, <3>1 DEF FreePages
  <2> QED
    BY <2>1, <2>2
<1>7. NoDoubleOwner'
  <2>1. \A k, m \in next'..(ALLOC_LIST_SIZE - 1) : k # m => list'[k] # list'[m]
    BY <1>2, <1>3, <1>5, AllocAssumption
  <2>2. FreePages' \cap (held' \cup kept' \cup {0}) = {}
    BY <1>1, <1>2, <1>3, <1>6, AllocAssumption
  <2> QED
    BY <2>1, <2>2 DEF NoDoubleOwner
<1>8. IsFiniteSet(held') /\ Cardinality(held') = 0
  BY <1>3, FS_EmptySet
<1>9. NoLeak'
  BY <1>1, <1>3, <1>6, <1>8 DEF NoLeak
<1> QED
  BY <1>4, <1>7, <1>8, <1>9 DEF IInv

(* alloc_get_page() moves the first free page to the caller. *)
LEMMA GetKeeps ==
  ASSUME IInv, GetPage
  PROVE  IInv'
<1>1. /\ initialized /\ next \in ListIndex /\ next + 1 \in ListIndex
      /\ list' = [list EXCEPT ![next] = 0] /\ next' = next + 1 /\ initialized'
      /\ held' = held \cup {list[next]}
      /\ UNCHANGED <<bugVars, start, kept>> /\ error' = "none"
  <2>1. initialized /\ initialized'
    BY DEF GetPage, GetFails, alloc_get_page
  <2>2. next # ALLOC_LIST_SIZE - 1
    BY DEF GetPage, GetFails, Exhausted
  <2>3. next \in ListIndex
    BY DEF IInv, TypeOK, AllocTypeOK
  <2>4. next + 1 \in ListIndex
    BY <2>2, <2>3, AllocAssumption
  <2> QED
    BY <2>1, <2>3, <2>4 DEF GetPage, alloc_get_page, FreePage
<1>2. list \in [ListIndex -> Nat] /\ list' \in [ListIndex -> Nat]
  BY <1>1 DEF IInv, TypeOK, AllocTypeOK
<1>3. \A k \in (next + 1)..(ALLOC_LIST_SIZE - 1) : list'[k] = list[k] /\ list[k] # list[next]
  BY <1>1, <1>2, AllocAssumption DEF IInv, NoDoubleOwner
<1>4. list[next] \in FreePages
  BY <1>1 DEF FreePages
<1>5. FreePages' = FreePages \ {list[next]}
  BY <1>1, <1>2, <1>3, AllocAssumption DEF FreePages
<1>6. list[next] \notin held
  BY <1>1, <1>4 DEF IInv, NoDoubleOwner
<1>7. TypeOK' /\ Fresh' /\ Owners'
  <2>1. TypeOK' /\ Fresh'
    BY <1>1, <1>2 DEF IInv, TypeOK, AllocTypeOK, Fresh
  <2>2. Owners'
    BY <1>1, <1>4 DEF IInv, NoDoubleOwner, Owners
  <2> QED
    BY <2>1, <2>2
<1>8. NoDoubleOwner'
  <2>1. \A k, m \in next'..(ALLOC_LIST_SIZE - 1) : k # m => list'[k] # list'[m]
    BY <1>1, <1>2, <1>3, AllocAssumption DEF IInv, NoDoubleOwner
  <2>2. FreePages' \cap (held' \cup kept' \cup {0}) = {}
    BY <1>1, <1>5 DEF IInv, NoDoubleOwner
  <2> QED
    BY <2>1, <2>2 DEF NoDoubleOwner
<1>9. IsFiniteSet(held') /\ Cardinality(held') = Cardinality(held) + 1
  BY <1>1, <1>6, FS_AddElement DEF IInv
<1>10. NoLeak'
  BY <1>1, <1>4, <1>5, <1>9 DEF IInv, NoLeak
<1> QED
  BY <1>7, <1>8, <1>9, <1>10 DEF IInv

(* alloc_free_page() puts a page the caller holds back in front. *)
LEMMA FreeKeeps ==
  ASSUME IInv, FreeHeld
  PROVE  IInv'
<1>1. PICK pa \in held : ~FreeFails(TRUE) /\ alloc_free_page(pa) /\ held' = held \ {pa}
  BY DEF FreeHeld
<1>2. /\ initialized /\ next \in ListIndex /\ next # 0 /\ next - 1 \in ListIndex
      /\ list' = [list EXCEPT ![next - 1] = pa] /\ next' = next - 1 /\ initialized'
      /\ UNCHANGED <<bugVars, start, kept>> /\ error' = "none"
  <2>1. initialized /\ initialized'
    BY <1>1 DEF FreeFails, alloc_free_page
  <2>2. next # 0
    BY <1>1 DEF FreeFails
  <2>3. next \in ListIndex
    BY DEF IInv, TypeOK, AllocTypeOK
  <2>4. next - 1 \in ListIndex
    BY <2>2, <2>3, AllocAssumption
  <2> QED
    BY <1>1, <2>1, <2>2, <2>3, <2>4 DEF FreeHeld, alloc_free_page
<1>3. pa \in Nat /\ list \in [ListIndex -> Nat] /\ list' \in [ListIndex -> Nat]
  BY <1>1, <1>2 DEF IInv, TypeOK, AllocTypeOK
<1>4. /\ list'[next - 1] = pa
      /\ \A k \in next..(ALLOC_LIST_SIZE - 1) : list'[k] = list[k]
  BY <1>2, <1>3, AllocAssumption
<1>5. FreePages' = FreePages \cup {pa}
  <2>1. ASSUME NEW p \in FreePages' PROVE p \in FreePages \cup {pa}
    <3>1. PICK k \in (next - 1)..(ALLOC_LIST_SIZE - 1) : p = list'[k]
      BY <1>2, <2>1 DEF FreePages
    <3>2. k = next - 1 \/ k \in next..(ALLOC_LIST_SIZE - 1)
      BY <1>2, <3>1, AllocAssumption
    <3> QED
      BY <1>4, <3>1, <3>2 DEF FreePages
  <2>2. pa \in FreePages'
    BY <1>2, <1>4, AllocAssumption DEF FreePages
  <2>3. ASSUME NEW p \in FreePages PROVE p \in FreePages'
    <3>1. PICK k \in next..(ALLOC_LIST_SIZE - 1) : p = list[k]
      BY <2>3 DEF FreePages
    <3> QED
      BY <1>2, <1>4, <3>1, AllocAssumption DEF FreePages
  <2> QED
    BY <2>1, <2>2, <2>3
<1>6. pa \notin FreePages /\ pa \notin kept /\ pa # 0
  BY <1>1, <1>2 DEF IInv, NoDoubleOwner, Owners
<1>7. TypeOK' /\ Fresh' /\ Owners'
  <2>1. TypeOK' /\ Fresh'
    BY <1>1, <1>2, <1>3 DEF IInv, TypeOK, AllocTypeOK, Fresh
  <2>2. Owners'
    BY <1>1, <1>2 DEF IInv, Owners
  <2> QED
    BY <2>1, <2>2
<1>8. NoDoubleOwner'
  <2>1. \A k \in next..(ALLOC_LIST_SIZE - 1) : list[k] # pa
    BY <1>6 DEF FreePages
  <2>2. ASSUME NEW k \in next'..(ALLOC_LIST_SIZE - 1), NEW m \in next'..(ALLOC_LIST_SIZE - 1),
               k # m
        PROVE  list'[k] # list'[m]
    <3>1. CASE k = next - 1
      BY <1>2, <1>4, <2>1, <2>2, <3>1, AllocAssumption
    <3>2. CASE m = next - 1
      BY <1>2, <1>4, <2>1, <2>2, <3>2, AllocAssumption
    <3>3. CASE k \in next..(ALLOC_LIST_SIZE - 1) /\ m \in next..(ALLOC_LIST_SIZE - 1)
      BY <1>2, <1>4, <2>2, <3>3 DEF IInv, NoDoubleOwner
    <3> QED
      BY <1>2, <2>2, <3>1, <3>2, <3>3, AllocAssumption
  <2>3. FreePages' \cap (held' \cup kept' \cup {0}) = {}
    BY <1>1, <1>2, <1>5, <1>6 DEF IInv, NoDoubleOwner
  <2> QED
    BY <2>2, <2>3 DEF NoDoubleOwner
<1>9. IsFiniteSet(held') /\ Cardinality(held') = Cardinality(held) - 1
  BY <1>1, FS_RemoveElement DEF IInv
<1>10. NoLeak'
  <2>1. FreePages' \cup held' = Region(start')
    BY <1>1, <1>2, <1>5 DEF IInv, NoLeak
  <2>2. Cardinality(held') = next'
    BY <1>2, <1>9 DEF IInv, NoLeak
  <2> QED
    BY <2>1, <2>2 DEF NoLeak
<1> QED
  BY <1>7, <1>8, <1>9, <1>10 DEF IInv

(* The inductive invariant holds in every reachable state. *)
THEOREM Invariance == Spec => []IInv
<1>1. Init => IInv
  <2> SUFFICES ASSUME Init PROVE IInv
    OBVIOUS
  <2>1. TypeOK
    <3>1. list \in [ListIndex -> Nat] /\ next \in ListIndex
      BY AllocAssumption DEF Init, AllocInit
    <3>2. initialized \in BOOLEAN /\ panicked \in BOOLEAN
      BY DEF Init, AllocInit
    <3>3. start \in Nat /\ held \subseteq Nat /\ kept \subseteq Nat
      BY DEF Init
    <3> QED
      BY <3>1, <3>2, <3>3 DEF Init, AllocInit, TypeOK, AllocTypeOK
  <2>3. Fresh /\ Owners /\ NoDoubleOwner /\ NoLeak
    BY DEF Init, AllocInit, Fresh, Owners, NoDoubleOwner, NoLeak
  <2>2. IsFiniteSet(held)
    BY FS_EmptySet DEF Init
  <2> QED
    BY <2>1, <2>2, <2>3 DEF IInv
<1>2. IInv /\ [Next]_vars => IInv'
  <2> SUFFICES ASSUME IInv, [Next]_vars PROVE IInv'
    OBVIOUS
  <2>1. CASE SetBugBehavior
    BY <2>1 DEF SetBugBehavior, bug_set_behavior, IInv, TypeOK, AllocTypeOK, Fresh, Owners,
       NoDoubleOwner, NoLeak, FreePages
  <2>2. CASE InitAligned
    BY <2>2, InitKeeps
  <2>3. CASE InitMisaligned
    BY <2>3, FailKeeps DEF InitMisaligned
  <2>4. CASE GetPage
    BY <2>4, GetKeeps
  <2>5. CASE GetPageFails
    BY <2>5, FailKeeps DEF GetPageFails
  <2>9. CASE ZeroPageFails
    BY <2>9, FailKeeps DEF ZeroPageFails, GetFails
  <2>6. CASE FreeHeld
    BY <2>6, FreeKeeps
  <2>7. CASE FreeRefused
    BY <2>7, FailKeeps DEF FreeRefused
  <2>8. CASE UNCHANGED vars
    BY <2>8 DEF IInv, TypeOK, AllocTypeOK, Fresh, Owners, NoDoubleOwner, NoLeak, FreePages
  <2> QED
    BY <2>1, <2>2, <2>3, <2>4, <2>5, <2>6, <2>7, <2>8, <2>9 DEF Next
<1> QED
  BY <1>1, <1>2, PTL DEF Spec

(* next stays within the list, and every place of the list holds a page    *)
(* number, whatever calls are made and refused.                            *)
THEOREM TypeCorrect == Spec => []TypeOK
<1>1. IInv => TypeOK
  BY DEF IInv
<1> QED
  BY <1>1, Invariance, PTL

(* alloc_get_page() never returns a page somebody else uses, in whatever   *)
(* order pages are allocated and freed.                                    *)
THEOREM SingleOwner == Spec => []NoDoubleOwner
<1>1. IInv => NoDoubleOwner
  BY DEF IInv
<1> QED
  BY <1>1, Invariance, PTL

(* Every page of the region is free or held, and next counts the held.     *)
THEOREM Conservation == Spec => []NoLeak
<1>1. IInv => NoLeak
  BY DEF IInv
<1> QED
  BY <1>1, Invariance, PTL

(* alloc_free_page() accepts every page the caller holds.                  *)
THEOREM Returnable == Spec => []HeldCanBeFreed
<1>1. IInv => HeldCanBeFreed
  <2> SUFFICES ASSUME IInv, held # {} PROVE ~FreeFails(TRUE)
    BY DEF HeldCanBeFreed
  <2>1. initialized
    BY DEF IInv, Fresh
  <2>2. Cardinality(held) # 0
    BY FS_EmptySet DEF IInv
  <2> QED
    BY <2>1, <2>2 DEF IInv, NoLeak, FreeFails
<1> QED
  BY <1>1, Invariance, PTL
=============================================================================
