-------------------------------- MODULE Boot --------------------------------
(***************************************************************************)
(* From reset to kmain(): boot/init.S runs in M-mode at the address the    *)
(* kernel is loaded to, sets up what S-mode may do and returns to kstart   *)
(* (entry.S) in the higher half, which clears .bss, saves what the         *)
(* firmware passed and jumps to kmain().                                   *)
(*                                                                         *)
(* An address counts words of 32 bits, the size sw writes; sd writes two.  *)
(* The address space is ENTRIES gigapages, the last of them the top of the *)
(* higher half.  Each part of the image other than .bss is one page.       *)
(***************************************************************************)
EXTENDS Integers

CONSTANTS
  ENTRIES,           \* entries of _init_ptb, 512
  GIGAPAGE, PAGE,    \* in words
  STACK, GLOBALS,    \* the 32K and the 4096 bytes of linker.ld
  BssSizes,          \* sizes .bss and .sbss may have
  Harts, Dtbs,       \* what mhartid and a1 may be
  Junk               \* what RAM may hold where the image has nothing

ASSUME BootAssumption ==
  /\ ENTRIES \in Nat /\ ENTRIES > 5
  /\ PAGE \in Nat /\ PAGE > 0 /\ PAGE % 2 = 0
  /\ GIGAPAGE \in Nat /\ GIGAPAGE > 0 /\ GIGAPAGE % PAGE = 0
  /\ STACK \in Nat /\ STACK > 0 /\ GLOBALS \in Nat
  /\ BssSizes \subseteq Nat
  /\ STACK % PAGE = 0 /\ GLOBALS % PAGE = 0
  /\ Harts \cup Dtbs \cup Junk \subseteq Nat

VARIABLES
  bss,               \* the size of .bss and .sbss in this image
  mem,               \* .bss and the page of .rodata behind it
  hart, a1,          \* which hart this is, and the address of the device tree
  mode, csr, a0, t5, pc

regs == <<hart, a1, bss>>
vars == <<regs, mem, mode, csr, a0, t5, pc>>

-----------------------------------------------------------------------------
(* linker.ld *)

RAM_START          == 2 * GIGAPAGE
KERNEL_VIRT_OFFSET == (ENTRIES - 4) * GIGAPAGE
AlignPage(addr)    == ((addr + PAGE - 1) \div PAGE) * PAGE

kstart     == RAM_START + PAGE + KERNEL_VIRT_OFFSET
bss_start  == kstart + PAGE

(* Mutant: .rodata follows .bss without alignment. *)
rodata_start_Unaligned == bss_start + bss + STACK + GLOBALS

(* Four symbols have the address at which the stack ends. *)
hartid       == bss_start + bss
kernel_dtb   == hartid
bss_end      == hartid + STACK + GLOBALS
rodata_start == AlignPage(bss_end)

Phys(addr) == addr - KERNEL_VIRT_OFFSET
Const      == -1     \* what .rodata holds
Image      == Phys(bss_start)..(Phys(rodata_start) + PAGE - 1)

-----------------------------------------------------------------------------
(* The hardware: what an access of this hart to addr reaches. *)

Bare   == "bare"
NoAddr == 0

(* The entries that .rep leaves empty. *)
Rep == ENTRIES - 5
init_ptb == [k \in {0, 2, 3 + Rep} |-> IF k = 0 THEN 0 ELSE 2]

Translate(addr) ==
  IF mode = "M" \/ csr.satp = Bare THEN addr
  ELSE IF addr \div GIGAPAGE \in DOMAIN init_ptb
  THEN init_ptb[addr \div GIGAPAGE] * GIGAPAGE + (addr % GIGAPAGE)
  ELSE NoAddr

(* U-mode may use no page of the table, and S-mode no memory without a PMP *)
(* entry.                                                                  *)
Access(addr) ==
  IF mode = "M" \/ (mode = "S" /\ csr.pmp) THEN Translate(addr) ELSE NoAddr

-----------------------------------------------------------------------------
Init ==
  /\ bss \in BssSizes /\ hart \in Harts /\ a1 \in Dtbs
  /\ \E junk \in Junk :
       mem = [w \in Image |-> IF w < Phys(rodata_start) THEN junk ELSE Const]
  /\ mode = "M" /\ pc = "init"
  /\ csr \in [satp : {Bare, "junk"}, mpp : {{}, {11}, {11, 12}}, mepc : {0},
              deleg : {FALSE}, stce : {FALSE}, tm : {FALSE}, pmp : {FALSE}]
  /\ a0 = 0 /\ t5 = 0

(* An instruction of init, which changes a CSR. *)
Csr(from, to, c) ==
  /\ pc = from /\ pc' = to /\ csr' = c
  /\ UNCHANGED <<regs, mem, mode, a0, t5>>

(* Mutant: MPP is set without being cleared. *)
SetMPP_NoClear(mpp) == mpp \cup {11}

(* The bits of mstatus.MPP. *)
SetMPP(mpp) == (mpp \ {11, 12}) \cup {11}

init ==
  \/ Csr("init", "mstatus", [csr EXCEPT !.satp = Bare])
  \/ Csr("mstatus", "medeleg", [csr EXCEPT !.mpp = SetMPP(@)])
  \/ Csr("medeleg", "menvcfg", [csr EXCEPT !.deleg = TRUE])
  \/ Csr("menvcfg", "mcounteren", [csr EXCEPT !.stce = TRUE])
  \/ Csr("mcounteren", "pmp", [csr EXCEPT !.tm = TRUE])
  \/ Csr("pmp", "mepc", [csr EXCEPT !.pmp = TRUE])
  \/ Csr("mepc", "satp", [csr EXCEPT !.mepc = kstart])
  \/ Csr("satp", "mhartid", [csr EXCEPT !.satp = "_init_ptb"])

ReadHartId ==
  /\ pc = "mhartid" /\ pc' = "mret"
  /\ a0' = hart
  /\ UNCHANGED <<regs, mem, mode, csr, t5>>

mret ==
  /\ pc = "mret"
  /\ mode' = CASE csr.mpp = {} -> "U" [] csr.mpp = {11} -> "S" [] OTHER -> "M"
  /\ pc' = IF csr.mepc = kstart THEN "kstart" ELSE "astray"
  /\ UNCHANGED <<regs, mem, csr, a0, t5>>

(* The part of entry.S that starts at from, and writes the words of store. *)
Entry(from, to, store) ==
  LET reached == {Access(w) : w \in DOMAIN store}
  IN  /\ pc = from
      /\ IF Access(kstart) = Phys(kstart) /\ reached \subseteq Image
         THEN /\ mem' = [w \in Image |->
                           IF w \in reached
                           THEN store[CHOOSE v \in DOMAIN store : Access(v) = w] ELSE mem[w]]
              /\ pc' = to
         ELSE pc' = "astray" /\ UNCHANGED mem
      /\ UNCHANGED <<regs, mode, csr, a0>>

SetStack == Entry("kstart", "bss_clear", <<>>) /\ t5' = bss_start

(* Mutant: the last double word is left out. *)
MoreToClear_Short(next) == next + 2 < bss_end

MoreToClear(next) == next < bss_end

(* The loop runs once before it looks at the end. *)
bss_clear ==
  /\ Entry("bss_clear", IF MoreToClear(t5 + 2) THEN "bss_clear" ELSE "save_dtb",
           [w \in {t5, t5 + 1} |-> 0])
  /\ t5' = t5 + 2

save_dtb    == Entry("save_dtb", "save_hartid", [w \in {kernel_dtb} |-> a1]) /\ UNCHANGED t5
save_hartid == Entry("save_hartid", "kmain", [w \in {hartid} |-> a0]) /\ UNCHANGED t5

(* kmain(): reading time and stimecmp is an illegal instruction unless     *)
(* M-mode has allowed it, and traps have to come to S-mode.                *)
kmain ==
  /\ pc = "kmain"
  /\ pc' = IF mode = "S" /\ csr.deleg /\ csr.stce /\ csr.tm THEN "running" ELSE "astray"
  /\ UNCHANGED <<regs, mem, mode, csr, a0, t5>>

Next ==
  init \/ ReadHartId \/ mret \/ SetStack \/ bss_clear \/ save_dtb \/ save_hartid \/ kmain

Spec == Init /\ [][Next]_vars
FairSpec == Spec /\ WF_vars(Next)

-----------------------------------------------------------------------------
(* Every image on every hart reaches kmain(), in S-mode and with the timer *)
(* and all of memory at its disposal: no instruction of kstart is fetched  *)
(* from, or writes to, a place the tables of init.S do not map.            *)
Boots == <>(pc = "running")

(* kmain() finds .bss cleared but for the word _hartid, which holds the    *)
(* number of this hart.                                                    *)
BssCleared ==
  pc \in {"kmain", "running"} =>
    \A v \in bss_start..(bss_end - 1) : mem[Phys(v)] = IF v = hartid THEN hart ELSE 0

(* Clearing .bss in double words does not reach .rodata, whatever the size *)
(* of .bss.                                                                *)
RodataIntact == \A w \in Image : w >= Phys(rodata_start) => mem[w] = Const

(* entry.S saves the address of the device tree for the kernel. *)
DtbSaved == pc = "running" => mem[Phys(kernel_dtb)] = a1
=============================================================================
