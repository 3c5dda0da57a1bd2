----------------------------- MODULE BootProofs -----------------------------
(***************************************************************************)
(* What entry.S leaves in memory for kmain(), for every size of .bss, of   *)
(* pages and of the stack: .bss is cleared and .rodata is not touched.     *)
(*                                                                         *)
(* The argument is about addresses.  Where the tables of init.S map kstart *)
(* to where it was loaded, they map every address behind it either to its  *)
(* physical address or nowhere, so a store reaches the word it names       *)
(* (StoreReaches); .bss starts and .rodata starts at an even word, so the  *)
(* double word that covers the end of .bss ends before .rodata (Layout).   *)
(***************************************************************************)
EXTENDS Boot, TLAPS

USE DEF vars, regs

Even(n) == \E h \in Int : n = 2 * h

(* v, an address of .bss, holds val. *)
Holds(v, val) == mem[Phys(v)] = val

(* .bss is clear from its start up to end. *)
ClearTo(end) == \A v \in bss_start..(end - 1) : v < bss_end => Holds(v, 0)

EntryInv ==
  /\ pc \in {"mret", "kstart", "bss_clear", "save_dtb", "save_hartid"} => a0 = hart
  /\ pc = "bss_clear" => /\ t5 \in Int /\ Even(t5) /\ bss_start <= t5 /\ t5 < bss_end
                         /\ ClearTo(t5)
  /\ pc = "save_dtb" => ClearTo(bss_end)
  /\ pc = "save_hartid" => \A v \in bss_start..(bss_end - 1) : v # hartid => Holds(v, 0)

IInv == bss \in Nat /\ DOMAIN mem = Image /\ RodataIntact /\ EntryInv /\ BssCleared

-----------------------------------------------------------------------------
(* Division with remainder. *)
LEMMA Division ==
  ASSUME NEW a \in Nat, NEW p \in Nat, p > 0
  PROVE  /\ a \div p \in Nat /\ a % p \in 0..(p - 1)
         /\ a = p * (a \div p) + (a % p)
OBVIOUS

(* Quotient and remainder are unique. *)
LEMMA DivisionUnique ==
  ASSUME NEW a \in Nat, NEW p \in Nat, p > 0, NEW q \in Nat, NEW r \in 0..(p - 1),
         a = q * p + r
  PROVE  a \div p = q /\ a % p = r
OBVIOUS

(* Aligning moves to the next even page boundary. *)
LEMMA Aligned ==
  ASSUME NEW a \in Nat
  PROVE  AlignPage(a) \in Nat /\ a <= AlignPage(a) /\ Even(AlignPage(a))
<1> DEFINE b == a + PAGE - 1
           q == b \div PAGE
           h == PAGE \div 2
<1>1. PAGE \in Nat /\ PAGE > 0 /\ PAGE % 2 = 0
  BY BootAssumption
<1>2. b \in Nat
  BY <1>1
<1>3. q \in Nat /\ b % PAGE \in 0..(PAGE - 1) /\ b = PAGE * q + (b % PAGE)
  BY <1>1, <1>2, Division
<1>4. h \in Nat /\ PAGE = 2 * h
  BY <1>1
<1> HIDE DEF q, h
<1>5. q * PAGE \in Nat /\ PAGE * q = q * PAGE
  BY <1>1, <1>3
<1>6. a <= q * PAGE
  BY <1>1, <1>3, <1>5
<1>7. q * h \in Nat /\ q * (2 * h) = 2 * (q * h)
  BY <1>3, <1>4
<1>8. q * PAGE = 2 * (q * h)
  BY <1>4, <1>7
<1>9. AlignPage(a) = q * PAGE
  BY DEF AlignPage, q
<1> QED
  BY <1>5, <1>6, <1>7, <1>8, <1>9 DEF Even

(* Where the gigapage of the higher half that holds the kernel starts. *)
Base == RAM_START + KERNEL_VIRT_OFFSET

(* The kernel is in the last gigapage but one, from an even word on. *)
LEMMA Addresses ==
  /\ KERNEL_VIRT_OFFSET \in Nat /\ KERNEL_VIRT_OFFSET > 0
  /\ RAM_START \in Nat /\ RAM_START = 2 * GIGAPAGE
  /\ Base \in Nat /\ Base = (ENTRIES - 2) * GIGAPAGE
  /\ kstart = Base + PAGE /\ bss_start = Base + 2 * PAGE
  /\ bss_start \in Nat /\ kstart \in Nat /\ Even(bss_start)
<1> DEFINE h == PAGE \div 2
           g == GIGAPAGE \div PAGE
           e == ENTRIES - 4
<1>1. /\ PAGE \in Nat /\ PAGE > 0 /\ GIGAPAGE \in Nat /\ GIGAPAGE > 0
      /\ e \in Nat /\ e > 0 /\ ENTRIES = e + 4
  BY BootAssumption
<1>2. h \in Nat /\ PAGE = 2 * h
  BY BootAssumption
<1>3. g \in Nat /\ GIGAPAGE = PAGE * g
  BY <1>1, BootAssumption, Division
<1> HIDE DEF h, g, e
<1>4. KERNEL_VIRT_OFFSET = e * GIGAPAGE /\ RAM_START = 2 * GIGAPAGE
  BY <1>1 DEF KERNEL_VIRT_OFFSET, RAM_START, e
<1>5. e * GIGAPAGE \in Nat /\ e * GIGAPAGE > 0
  BY <1>1
<1>6. ENTRIES - 2 = e + 2 /\ (e + 2) * GIGAPAGE = e * GIGAPAGE + 2 * GIGAPAGE
  BY <1>1
<1>7. h * g \in Nat /\ GIGAPAGE = 2 * (h * g)
  BY <1>2, <1>3
<1>8. /\ (e + 2) * (h * g) \in Nat
      /\ (e + 2) * GIGAPAGE = 2 * ((e + 2) * (h * g))
  <2> DEFINE k == h * g
  <2>1. k \in Nat /\ GIGAPAGE = 2 * k
    BY <1>7
  <2> HIDE DEF k
  <2>2. (e + 2) * k \in Nat /\ (e + 2) * (2 * k) = 2 * ((e + 2) * k)
    BY <1>1, <2>1
  <2> QED
    BY <2>1, <2>2 DEF k
<1>9. Base \in Nat /\ Base = (ENTRIES - 2) * GIGAPAGE
  BY <1>1, <1>4, <1>5, <1>6 DEF Base
<1>10. kstart = Base + PAGE /\ bss_start = Base + 2 * PAGE
  BY <1>1, <1>4, <1>5 DEF Base, kstart, bss_start
<1>11. Base = 2 * ((e + 2) * (h * g))
  BY <1>6, <1>8, <1>9
<1>12. Even(bss_start)
  <2> DEFINE m == (e + 2) * (h * g)
  <2>1. m \in Nat /\ Base = 2 * m
    BY <1>8, <1>11
  <2> HIDE DEF m
  <2>2. m + 2 * h \in Int /\ bss_start = 2 * (m + 2 * h)
    BY <1>2, <1>10, <2>1
  <2> QED
    BY <2>2 DEF Even
<1> QED
  BY <1>1, <1>4, <1>5, <1>9, <1>10, <1>12

(* .bss and .rodata in order, both from an even word on; .bss is not empty *)
(* and _hartid is in it.                                                   *)
LEMMA Layout ==
  ASSUME bss \in Nat
  PROVE  /\ hartid \in Nat /\ bss_end \in Nat /\ rodata_start \in Nat
         /\ bss_start <= hartid /\ hartid < bss_end /\ bss_end <= rodata_start
         /\ kernel_dtb = hartid /\ Even(rodata_start)
<1>1. hartid \in Nat /\ bss_end \in Nat /\ bss_start <= hartid /\ hartid < bss_end
  BY Addresses, BootAssumption DEF hartid, bss_end
<1>2. rodata_start \in Nat /\ bss_end <= rodata_start /\ Even(rodata_start)
  BY <1>1, Aligned DEF rodata_start
<1> QED
  BY <1>1, <1>2 DEF kernel_dtb

(* If kstart is reached where it was loaded, an address behind it is       *)
(* reached at its physical address or not at all.                          *)
LEMMA AccessHigh ==
  ASSUME Access(kstart) = Phys(kstart), NEW v \in Nat, v >= Base
  PROVE  Access(v) \in {NoAddr, Phys(v)}
<1>1. /\ PAGE \in Nat /\ PAGE > 0 /\ GIGAPAGE \in Nat /\ GIGAPAGE > 0
      /\ ENTRIES \in Nat /\ ENTRIES > 5
  BY BootAssumption
<1>2. Phys(kstart) # kstart /\ Phys(kstart) # NoAddr
  BY <1>1, Addresses DEF Phys, NoAddr, Base
<1>3. mode # "M" /\ csr.satp # Bare
  BY <1>2 DEF Access, Translate
<1> DEFINE g == v \div GIGAPAGE
           r == v % GIGAPAGE
<1>4. g \in Nat /\ r \in 0..(GIGAPAGE - 1) /\ v = GIGAPAGE * g + r
  BY <1>1, Division
<1> HIDE DEF g, r
<1>5. g >= ENTRIES - 2
  <2> SUFFICES ASSUME g <= ENTRIES - 3 PROVE FALSE
    BY <1>1, <1>4
  <2>1. GIGAPAGE * g <= GIGAPAGE * (ENTRIES - 3)
    BY <1>1, <1>4
  <2>2. GIGAPAGE * (ENTRIES - 3) + GIGAPAGE = (ENTRIES - 2) * GIGAPAGE
    BY <1>1
  <2>3. GIGAPAGE * (ENTRIES - 3) \in Int /\ GIGAPAGE * g \in Int
    BY <1>1, <1>4
  <2> QED
    BY <1>1, <1>4, <2>1, <2>2, <2>3, Addresses
<1>6. DOMAIN init_ptb = {0, 2, ENTRIES - 2} /\ 3 + Rep = ENTRIES - 2
  BY <1>1 DEF init_ptb, Rep
<1>7. CASE g = ENTRIES - 2
  <2>1. init_ptb[g] = 2
    BY <1>1, <1>6, <1>7 DEF init_ptb
  <2>2. g \in DOMAIN init_ptb
    BY <1>6, <1>7
  <2>3. Translate(v) = 2 * GIGAPAGE + r
    BY <1>3, <2>1, <2>2 DEF Translate, g, r
  <2>4. v = Base + r
    <3>1. GIGAPAGE * g = (ENTRIES - 2) * GIGAPAGE
      BY <1>1, <1>7
    <3> QED
      BY <1>4, <3>1, Addresses
  <2>5. Translate(v) = Phys(v)
    BY <1>1, <1>4, <2>3, <2>4, Addresses DEF Phys, Base
  <2> QED
    BY <1>3, <2>5 DEF Access
<1>8. CASE g # ENTRIES - 2
  <2>1. g \notin DOMAIN init_ptb
    BY <1>1, <1>4, <1>5, <1>6, <1>8
  <2> QED
    BY <1>3, <2>1 DEF Access, Translate, g
<1> QED
  BY <1>7, <1>8


(* Stores to addresses behind kstart that reach the image reach the words  *)
(* they name, and leave all others alone.                                  *)
LEMMA StoreReaches ==
  ASSUME bss \in Nat, Access(kstart) = Phys(kstart),
         NEW D, \A v \in D : v \in Nat /\ v >= Base /\ Access(v) \in Image
  PROVE  /\ \A v \in D : Phys(v) \in Image
         /\ \A w \in Image, v \in D : Access(v) = w <=> v = w + KERNEL_VIRT_OFFSET
<1> DEFINE K == KERNEL_VIRT_OFFSET
<1>1. /\ K \in Nat /\ Base \in Nat /\ bss_start \in Nat /\ rodata_start \in Nat
      /\ PAGE \in Nat /\ bss_start > K
  BY Addresses, Layout, BootAssumption DEF Base
<1>2. \A w \in Image : w \in Nat /\ w # NoAddr
  BY <1>1 DEF Image, Phys, NoAddr
<1>3. ASSUME NEW v \in D PROVE Access(v) = v - K /\ v \in Nat
  <2>1. Access(v) \in Image /\ v \in Nat
    OBVIOUS
  <2>2. Access(v) # NoAddr
    BY <1>2, <2>1
  <2>3. Access(v) \in {NoAddr, Phys(v)}
    BY AccessHigh
  <2> QED
    BY <2>1, <2>2, <2>3 DEF Phys
<1>4. \A v \in D : Phys(v) \in Image
  BY <1>3 DEF Phys
<1>5. ASSUME NEW w \in Image, NEW v \in D
      PROVE  Access(v) = w <=> v = w + K
  BY <1>1, <1>2, <1>3
<1> QED
  BY <1>4, <1>5

(* What a part of entry.S does to memory: it goes astray, or stores.       *)
LEMMA EntryStep ==
  ASSUME IInv, NEW from, NEW to, NEW D, NEW store,
         \A v \in D : v \in Nat /\ v >= Base, DOMAIN store = D,
         Entry(from, to, store)
  PROVE  /\ pc = from /\ UNCHANGED <<regs, mode, csr, a0>> /\ Image' = Image
         /\ DOMAIN mem' = Image
         /\ \/ pc' = "astray" /\ mem' = mem
            \/ /\ pc' = to
               /\ \A v \in D : Phys(v) \in Image
               /\ \A w \in Image :
                    mem'[w] = IF w + KERNEL_VIRT_OFFSET \in D
                              THEN store[w + KERNEL_VIRT_OFFSET] ELSE mem[w]
<1>1. pc = from /\ UNCHANGED <<regs, mode, csr, a0>>
  BY DEF Entry
<1>2. Image' = Image
  BY <1>1 DEF Image, rodata_start, bss_end, hartid, Phys
<1> DEFINE reached == {Access(w) : w \in DOMAIN store}
<1>3. CASE Access(kstart) = Phys(kstart) /\ reached \subseteq Image
  <2>1. /\ mem' = [w \in Image |->
                     IF w \in reached
                     THEN store[CHOOSE v \in DOMAIN store : Access(v) = w] ELSE mem[w]]
        /\ pc' = to
    BY <1>3, Zenon DEF Entry
  <2>2. /\ \A v \in D : Phys(v) \in Image
        /\ \A w \in Image :
              /\ w \in reached <=> w + KERNEL_VIRT_OFFSET \in D
              /\ w + KERNEL_VIRT_OFFSET \in D =>
                   store[CHOOSE v \in D : Access(v) = w] = store[w + KERNEL_VIRT_OFFSET]
    <3>1. \A v \in D : v \in Nat /\ v >= Base /\ Access(v) \in Image
      BY <1>3
    <3>2. bss \in Nat
      BY DEF IInv
    <3>3. /\ \A v \in D : Phys(v) \in Image
          /\ \A w \in Image, v \in D : Access(v) = w <=> v = w + KERNEL_VIRT_OFFSET
      BY <1>3, <3>1, <3>2, StoreReaches
    <3>4. \A w \in Image : w \in reached <=> w + KERNEL_VIRT_OFFSET \in D
      BY <3>3
    <3>5. \A w \in Image : w + KERNEL_VIRT_OFFSET \in D =>
            (CHOOSE v \in D : Access(v) = w) = w + KERNEL_VIRT_OFFSET
      BY <3>3
    <3> HIDE DEF reached
    <3> QED
      BY <3>3, <3>4, <3>5
  <2>3. DOMAIN mem' = Image
    BY <2>1
  <2>4. ASSUME NEW w \in Image
        PROVE  mem'[w] = IF w + KERNEL_VIRT_OFFSET \in D
                         THEN store[w + KERNEL_VIRT_OFFSET] ELSE mem[w]
    <3>1. mem'[w] = IF w \in reached
                    THEN store[CHOOSE v \in D : Access(v) = w] ELSE mem[w]
      BY <2>1
    <3> HIDE DEF reached
    <3> QED
      BY <2>2, <3>1
  <2> QED
    BY <1>1, <1>2, <2>1, <2>2, <2>3, <2>4
<1>4. CASE ~(Access(kstart) = Phys(kstart) /\ reached \subseteq Image)
  <2>1. pc' = "astray" /\ mem' = mem
    BY <1>4, Zenon DEF Entry
  <2> QED
    BY <1>1, <1>2, <2>1 DEF IInv
<1> QED
  BY <1>3, <1>4


(* An address of the image, and what is not in .rodata. *)
LEMMA InImage ==
  ASSUME bss \in Nat
  PROVE  /\ \A v \in bss_start..(rodata_start - 1) :
              Phys(v) \in Image /\ Phys(v) + KERNEL_VIRT_OFFSET = v
                                /\ v \in Nat /\ v >= Base
         /\ \A w \in Image : w \in Int
         /\ \A w \in Image : w >= Phys(rodata_start) <=> w + KERNEL_VIRT_OFFSET >= rodata_start
<1>1. /\ bss_start \in Nat /\ rodata_start \in Nat /\ PAGE \in Nat /\ PAGE > 0
      /\ KERNEL_VIRT_OFFSET \in Nat /\ Base \in Nat /\ bss_start = Base + 2 * PAGE
  BY Addresses, Layout, BootAssumption
<1>2. Image = (bss_start - KERNEL_VIRT_OFFSET)..(rodata_start - KERNEL_VIRT_OFFSET + PAGE - 1)
  BY DEF Image, Phys
<1>3. Phys(rodata_start) = rodata_start - KERNEL_VIRT_OFFSET
  BY DEF Phys
<1>4. ASSUME NEW v \in bss_start..(rodata_start - 1)
      PROVE  Phys(v) \in Image /\ Phys(v) + KERNEL_VIRT_OFFSET = v /\ v \in Nat /\ v >= Base
  BY <1>1, <1>2 DEF Phys
<1> QED
  BY <1>1, <1>2, <1>3, <1>4

(* Stores to .bss leave .rodata and the rest of .bss alone.                *)
LEMMA BssStore ==
  ASSUME IInv, NEW from, NEW to, NEW D, NEW store,
         D \subseteq bss_start..(rodata_start - 1), DOMAIN store = D,
         Entry(from, to, store)
  PROVE  /\ pc = from /\ UNCHANGED <<regs, mode, csr, a0>> /\ Image' = Image
         /\ DOMAIN mem' = Image
         /\ rodata_start' = rodata_start /\ bss_end' = bss_end /\ hartid' = hartid
         /\ RodataIntact'
         /\ \/ pc' = "astray"
            \/ /\ pc' = to
               /\ \A v \in bss_start..(bss_end - 1) :
                    mem'[Phys(v)] = IF v \in D THEN store[v] ELSE mem[Phys(v)]
<1>0. bss \in Nat
  BY DEF IInv
<1>1. \A v \in D : v \in Nat /\ v >= Base
  BY <1>0, InImage
<1>2. /\ pc = from /\ UNCHANGED <<regs, mode, csr, a0>> /\ Image' = Image
      /\ DOMAIN mem' = Image
      /\ \/ pc' = "astray" /\ mem' = mem
         \/ /\ pc' = to
            /\ \A v \in D : Phys(v) \in Image
            /\ \A w \in Image :
                 mem'[w] = IF w + KERNEL_VIRT_OFFSET \in D
                           THEN store[w + KERNEL_VIRT_OFFSET] ELSE mem[w]
  BY <1>1, EntryStep
<1>3. /\ rodata_start' = rodata_start /\ bss_end' = bss_end /\ hartid' = hartid
      /\ Phys(rodata_start)' = Phys(rodata_start)
  BY <1>2 DEF rodata_start, bss_end, hartid, Phys
<1>4. /\ bss_start \in Nat /\ rodata_start \in Nat /\ bss_end \in Nat
      /\ bss_end <= rodata_start
  BY <1>0, Addresses, Layout
<1>5. CASE pc' = "astray" /\ mem' = mem
  BY <1>2, <1>3, <1>5 DEF IInv, RodataIntact
<1>6. CASE /\ pc' = to
           /\ \A w \in Image :
                mem'[w] = IF w + KERNEL_VIRT_OFFSET \in D
                          THEN store[w + KERNEL_VIRT_OFFSET] ELSE mem[w]
  <2>1. ASSUME NEW w \in Image, w >= Phys(rodata_start) PROVE mem'[w] = Const
    <3>1. w + KERNEL_VIRT_OFFSET \notin D
      <4>1. w + KERNEL_VIRT_OFFSET >= rodata_start
        BY <1>0, <2>1, InImage
      <4>2. \A v \in D : ~(v >= rodata_start)
        <5>1. \A v \in bss_start..(rodata_start - 1) : ~(v >= rodata_start)
          BY <1>4
        <5> QED
          BY <5>1
      <4> QED
        BY <4>1, <4>2, Zenon
    <3>2. mem'[w] = mem[w]
      BY <1>6, <3>1
    <3> QED
      BY <2>1, <3>2 DEF IInv, RodataIntact
  <2>2. RodataIntact'
    BY <1>2, <1>3, <2>1 DEF RodataIntact, Const
  <2>3. ASSUME NEW v \in bss_start..(bss_end - 1)
        PROVE  mem'[Phys(v)] = IF v \in D THEN store[v] ELSE mem[Phys(v)]
    <3>1. v \in bss_start..(rodata_start - 1)
      BY <1>4
    <3>2. Phys(v) \in Image /\ Phys(v) + KERNEL_VIRT_OFFSET = v
      BY <1>0, <3>1, InImage
    <3> QED
      BY <1>6, <3>2
  <2> QED
    BY <1>2, <1>3, <1>6, <2>2, <2>3
<1> QED
  BY <1>2, <1>5, <1>6


(* SetStack changes no memory, and .bss is clear up to its start. *)
LEMMA SetStackStep ==
  ASSUME IInv, SetStack
  PROVE  IInv'
<1>1. Entry("kstart", "bss_clear", <<>>) /\ t5' = bss_start
  BY DEF SetStack
<1>2. DOMAIN <<>> = {} /\ {} \subseteq bss_start..(rodata_start - 1)
  OBVIOUS
<1>3. /\ pc = "kstart" /\ UNCHANGED <<regs, mode, csr, a0>> /\ Image' = Image
      /\ DOMAIN mem' = Image
      /\ rodata_start' = rodata_start /\ bss_end' = bss_end /\ hartid' = hartid
      /\ RodataIntact'
      /\ pc' \in {"astray", "bss_clear"}
  BY <1>1, <1>2, BssStore
<1>4. /\ bss_start \in Nat /\ bss_end \in Nat /\ bss_start < bss_end /\ Even(bss_start)
  BY Addresses, Layout DEF IInv
<1>5. EntryInv'
  BY <1>1, <1>3, <1>4 DEF IInv, EntryInv, ClearTo
<1>6. BssCleared'
  BY <1>3 DEF BssCleared
<1> QED
  BY <1>3, <1>5, <1>6 DEF IInv

(* A round of bss_clear clears two more words, both before .rodata. *)
LEMMA ClearStep ==
  ASSUME IInv, bss_clear
  PROVE  IInv'
<1>1. PICK t : t = t5
  OBVIOUS
<1>2. PICK to : to = IF MoreToClear(t + 2) THEN "bss_clear" ELSE "save_dtb"
  OBVIOUS
<1> DEFINE D == {t, t + 1}
           store == [w \in D |-> 0]
<1>3. Entry("bss_clear", to, store) /\ t5' = t + 2
  BY <1>1, <1>2 DEF bss_clear
<1>4. /\ bss_start \in Nat /\ bss_end \in Nat /\ rodata_start \in Nat
      /\ bss_end <= rodata_start /\ Even(rodata_start)
  BY Addresses, Layout DEF IInv
<1>5. pc = "bss_clear"
  BY DEF bss_clear, Entry
<1>6. t \in Int /\ Even(t) /\ bss_start <= t /\ t < bss_end /\ a0 = hart /\ ClearTo(t)
  BY <1>1, <1>5 DEF IInv, EntryInv
<1>7. t + 1 < rodata_start
  BY <1>4, <1>6 DEF Even
<1>8. D \subseteq bss_start..(rodata_start - 1) /\ DOMAIN store = D
  BY <1>4, <1>6, <1>7
<1> HIDE DEF D, store
<1>9. /\ pc = "bss_clear" /\ UNCHANGED <<regs, mode, csr, a0>> /\ Image' = Image
      /\ DOMAIN mem' = Image
      /\ rodata_start' = rodata_start /\ bss_end' = bss_end /\ hartid' = hartid
      /\ RodataIntact'
      /\ \/ pc' = "astray"
         \/ /\ pc' = to
            /\ \A v \in bss_start..(bss_end - 1) :
                 mem'[Phys(v)] = IF v \in D THEN store[v] ELSE mem[Phys(v)]
  BY <1>3, <1>8, BssStore
<1>10. Even(t + 2)
  BY <1>6 DEF Even
<1>11. CASE pc' = "astray"
  BY <1>9, <1>11 DEF IInv, EntryInv, BssCleared
<1>12. CASE /\ pc' = to
            /\ \A v \in bss_start..(bss_end - 1) :
                 mem'[Phys(v)] = IF v \in D THEN store[v] ELSE mem[Phys(v)]
  <2>1. ASSUME NEW v \in bss_start..(t + 1), v < bss_end
        PROVE  mem'[Phys(v)] = 0
    <3>1. v \in bss_start..(bss_end - 1)
      BY <1>4, <2>1
    <3>2. CASE v \in D
      BY <1>12, <3>1, <3>2 DEF store
    <3>3. CASE v \notin D
      <4>1. v \in bss_start..(t - 1)
        BY <1>4, <1>6, <3>1, <3>3 DEF D
      <4>2. mem[Phys(v)] = 0
        BY <1>6, <2>1, <4>1 DEF ClearTo, Holds
      <4> QED
        BY <1>12, <3>1, <3>3, <4>2
    <3> QED
      BY <3>2, <3>3
  <2>2. (t + 2) - 1 = t + 1 /\ t + 2 \in Int /\ bss_start <= t + 2
    BY <1>4, <1>6
  <2>3. ClearTo(t5)'
    BY <1>3, <1>9, <2>1, <2>2 DEF ClearTo, Holds, Phys
  <2>4. CASE MoreToClear(t + 2)
    <3>1. to = "bss_clear" /\ t + 2 < bss_end
      BY <1>2, <2>4 DEF MoreToClear
    <3>2. EntryInv'
      BY <1>3, <1>6, <1>9, <1>10, <1>12, <2>2, <2>3, <3>1 DEF EntryInv
    <3>3. BssCleared'
      BY <1>12, <3>1 DEF BssCleared
    <3> QED
      BY <1>9, <3>2, <3>3 DEF IInv
  <2>5. CASE ~MoreToClear(t + 2)
    <3>1. to = "save_dtb" /\ bss_end <= t + 2
      BY <1>2, <1>4, <1>6, <2>5 DEF MoreToClear
    <3>2. ClearTo(bss_end)'
      BY <1>4, <1>6, <1>9, <2>1, <3>1 DEF ClearTo, Holds, Phys
    <3>3. EntryInv'
      BY <1>6, <1>9, <1>12, <3>1, <3>2 DEF EntryInv
    <3>4. BssCleared'
      BY <1>12, <3>1 DEF BssCleared
    <3> QED
      BY <1>9, <3>3, <3>4 DEF IInv
  <2> QED
    BY <2>4, <2>5
<1> QED
  BY <1>9, <1>11, <1>12


(* Storing the device tree's address touches one word of .bss. *)
LEMMA SaveDtbStep ==
  ASSUME IInv, save_dtb
  PROVE  IInv'
<1>1. PICK h : h = hartid
  OBVIOUS
<1>2. PICK val : val = a1
  OBVIOUS
<1> DEFINE D == {h}
           store == [w \in D |-> val]
<1>3. Entry("save_dtb", "save_hartid", store)
  BY <1>1, <1>2 DEF save_dtb, kernel_dtb
<1>4. /\ bss_start \in Nat /\ h \in Nat /\ bss_end \in Nat /\ rodata_start \in Nat
      /\ bss_start <= h /\ h < bss_end /\ bss_end <= rodata_start
  BY <1>1, Addresses, Layout DEF IInv
<1>5. D \subseteq bss_start..(rodata_start - 1) /\ DOMAIN store = D
  BY <1>4
<1>6. \A v : v # h => v \notin D
  OBVIOUS
<1> HIDE DEF D, store
<1>7. /\ pc = "save_dtb" /\ UNCHANGED <<regs, mode, csr, a0>> /\ Image' = Image
      /\ DOMAIN mem' = Image
      /\ rodata_start' = rodata_start /\ bss_end' = bss_end /\ hartid' = hartid
      /\ RodataIntact'
      /\ \/ pc' = "astray"
         \/ /\ pc' = "save_hartid"
            /\ \A v \in bss_start..(bss_end - 1) :
                 mem'[Phys(v)] = IF v \in D THEN store[v] ELSE mem[Phys(v)]
  BY <1>3, <1>5, BssStore
<1>8. a0 = hart /\ ClearTo(bss_end)
  BY <1>7 DEF IInv, EntryInv
<1>9. pc' = "save_hartid" =>
        \A v \in bss_start..(bss_end - 1) : v # h => mem'[Phys(v)] = 0
  BY <1>4, <1>6, <1>7, <1>8 DEF ClearTo, Holds
<1>10. EntryInv'
  BY <1>1, <1>7, <1>8, <1>9 DEF EntryInv, Holds, Phys
<1>11. BssCleared'
  BY <1>7 DEF BssCleared
<1> QED
  BY <1>7, <1>10, <1>11 DEF IInv

(* Storing the hart's number gives .bss the contents kmain() finds. *)
LEMMA SaveHartidStep ==
  ASSUME IInv, save_hartid
  PROVE  IInv'
<1>1. PICK h : h = hartid
  OBVIOUS
<1>2. PICK val : val = a0
  OBVIOUS
<1> DEFINE D == {h}
           store == [w \in D |-> val]
<1>3. Entry("save_hartid", "kmain", store)
  BY <1>1, <1>2 DEF save_hartid
<1>4. /\ bss_start \in Nat /\ h \in Nat /\ bss_end \in Nat /\ rodata_start \in Nat
      /\ bss_start <= h /\ h < bss_end /\ bss_end <= rodata_start
  BY <1>1, Addresses, Layout DEF IInv
<1>5. D \subseteq bss_start..(rodata_start - 1) /\ DOMAIN store = D
  BY <1>4
<1>6. store[h] = val /\ \A v : v \in D <=> v = h
  OBVIOUS
<1> HIDE DEF D, store
<1>7. /\ pc = "save_hartid" /\ UNCHANGED <<regs, mode, csr, a0>> /\ Image' = Image
      /\ DOMAIN mem' = Image
      /\ rodata_start' = rodata_start /\ bss_end' = bss_end /\ hartid' = hartid
      /\ RodataIntact'
      /\ \/ pc' = "astray"
         \/ /\ pc' = "kmain"
            /\ \A v \in bss_start..(bss_end - 1) :
                 mem'[Phys(v)] = IF v \in D THEN store[v] ELSE mem[Phys(v)]
  BY <1>3, <1>5, BssStore
<1>8. /\ val = hart
      /\ \A v \in bss_start..(bss_end - 1) : v # h => mem[Phys(v)] = 0
  BY <1>1, <1>2, <1>7 DEF IInv, EntryInv, Holds
<1>9. pc' = "kmain" =>
        \A v \in bss_start..(bss_end - 1) : mem'[Phys(v)] = IF v = h THEN hart ELSE 0
  BY <1>6, <1>7, <1>8
<1>10. EntryInv'
  BY <1>7 DEF EntryInv
<1>11. BssCleared'
  BY <1>1, <1>7, <1>9 DEF BssCleared, Phys
<1> QED
  BY <1>7, <1>10, <1>11 DEF IInv

(* The other steps leave memory alone. *)
LEMMA RegisterStep ==
  ASSUME IInv, init \/ ReadHartId \/ mret \/ kmain \/ UNCHANGED vars
  PROVE  IInv'
<1>1. UNCHANGED <<regs, mem>>
  BY DEF init, Csr, ReadHartId, mret, kmain
<1>2. /\ Image' = Image /\ RodataIntact'
      /\ bss_end' = bss_end /\ hartid' = hartid
  BY <1>1 DEF Image, rodata_start, bss_end, hartid, Phys, RodataIntact, IInv
<1>3. CASE init
  <2>1. pc' \notin {"mret", "kstart", "bss_clear", "save_dtb", "save_hartid", "kmain", "running"}
    BY <1>3 DEF init, Csr
  <2> QED
    BY <1>1, <1>2, <2>1 DEF IInv, EntryInv, BssCleared
<1>4. CASE ReadHartId
  BY <1>1, <1>2, <1>4 DEF ReadHartId, IInv, EntryInv, BssCleared
<1>5. CASE mret
  BY <1>1, <1>2, <1>5 DEF mret, IInv, EntryInv, BssCleared
<1>6. CASE kmain
  BY <1>1, <1>2, <1>6 DEF kmain, IInv, EntryInv, BssCleared, Phys
<1>7. CASE UNCHANGED vars
  <2>1. EntryInv' = EntryInv /\ BssCleared' = BssCleared
    BY <1>2, <1>7 DEF EntryInv, BssCleared, ClearTo, Holds, Phys
  <2> QED
    BY <1>1, <1>2, <2>1 DEF IInv
<1> QED
  BY <1>3, <1>4, <1>5, <1>6, <1>7

-----------------------------------------------------------------------------
(* The initial state. *)
LEMMA InitInv == Init => IInv
<1> SUFFICES ASSUME Init PROVE IInv
  OBVIOUS
<1>1. bss \in Nat
  BY BootAssumption DEF Init
<1>2. PICK junk \in Junk :
        mem = [w \in Image |-> IF w < Phys(rodata_start) THEN junk ELSE Const]
  BY DEF Init
<1>3. DOMAIN mem = Image
  BY <1>2
<1>4. \A w \in Image : w \in Int /\ Phys(rodata_start) \in Int
  BY <1>1, InImage, Addresses, Layout DEF Phys
<1>5. RodataIntact
  BY <1>2, <1>4 DEF RodataIntact
<1>6. EntryInv /\ BssCleared
  BY DEF Init, EntryInv, BssCleared
<1> QED
  BY <1>1, <1>3, <1>5, <1>6 DEF IInv

(* The inductive invariant holds in every reachable state. *)
THEOREM Invariance == Spec => []IInv
<1>1. IInv /\ [Next]_vars => IInv'
  <2> SUFFICES ASSUME IInv, [Next]_vars PROVE IInv'
    OBVIOUS
  <2> QED
    BY SetStackStep, ClearStep, SaveDtbStep, SaveHartidStep, RegisterStep DEF Next
<1> QED
  BY <1>1, InitInv, PTL DEF Spec

(* kmain() finds .bss cleared and the hart's number in _hartid, whatever   *)
(* RAM held before and whatever the sizes of .bss, stack and pages.        *)
THEOREM BssIsCleared == Spec => []BssCleared
<1>1. IInv => BssCleared
  BY DEF IInv
<1> QED
  BY <1>1, Invariance, PTL

(* Clearing .bss in double words never reaches .rodata, also where .bss    *)
(* ends at an odd word.                                                    *)
THEOREM RodataKept == Spec => []RodataIntact
<1>1. IInv => RodataIntact
  BY DEF IInv
<1> QED
  BY <1>1, Invariance, PTL

=============================================================================
