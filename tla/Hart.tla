-------------------------------- MODULE Hart --------------------------------
(***************************************************************************)
(* The supervisor CSRs of the one hart the kernel runs on, as far as the   *)
(* kernel's interrupt handling depends on them.  A CSR is the set of its   *)
(* bits that are 1, so csrs is a union and csrc a set difference.          *)
(*                                                                         *)
(* The functions hart_irq_* and timer_irq_* are those of src/trap.c and    *)
(* src/timer.c; TrapEnter and Sret are what the hardware does on a trap    *)
(* and on the sret that ends src/trap_entry.S.                             *)
(***************************************************************************)

VARIABLES
  sstatus,   \* "SIE": interrupts enabled; "SPIE": SIE as it was at the trap
  sie,       \* interrupt sources enabled: "STIE" timer, "SEIE" external
  sip,       \* "STIP" while the timer interrupt is pending
  stvec      \* where a trap jumps: "trap_entry", or "wild" before trap_setup

hartVars == <<sstatus, sie, sip, stvec>>

csr_set(csr, mask)   == csr \cup mask
csr_clear(csr, mask) == csr \ mask

(* kstart runs with interrupts off and no trap vector. *)
HartInit ==
  /\ sstatus = {}
  /\ sie = {}
  /\ sip \in SUBSET {"STIP"}     \* stimecmp has no defined reset value
  /\ stvec = "wild"

trap_setup == stvec' = "trap_entry"

hart_irq_enable  == sstatus' = csr_set(sstatus, {"SIE"})

(* Mutant: spin_lock() where spin_lock_irqsave() is needed. *)
hart_irq_disable_Skipped == UNCHANGED sstatus

hart_irq_disable == sstatus' = csr_clear(sstatus, {"SIE"})

(* csr_write of the whole register: every bit comes from flags. *)
hart_irq_restore(flags) == sstatus' = flags

timer_irq_enable  == sie' = csr_set(sie, {"STIE"})

(* Mutant: the handler leaves the timer interrupt enabled. *)
timer_irq_disable_Skipped == UNCHANGED sie

timer_irq_disable == sie' = csr_clear(sie, {"STIE"})

TimerIrq == {"STIE"} \subseteq sie /\ {"STIP"} \subseteq sip

(* Taking a trap clears SIE and remembers it in SPIE; sret undoes that. *)
TrapEnter == sstatus' = IF "SIE" \in sstatus THEN {"SPIE"} ELSE {}
Sret      == sstatus' = {"SPIE"} \cup (IF "SPIE" \in sstatus THEN {"SIE"} ELSE {})

HartTypeOK ==
  /\ sstatus \subseteq {"SIE", "SPIE"}
  /\ sie \subseteq {"STIE", "SEIE"}
  /\ sip \subseteq {"STIP"}
  /\ stvec \in {"trap_entry", "wild"}
=============================================================================
