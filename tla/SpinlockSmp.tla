---------------------------- MODULE SpinlockSmp -----------------------------
(***************************************************************************)
(* include/arch/spinlock.h with several harts.  On each, the kernel proper *)
(* takes the lock with spin_lock_irqsave() or spin_lock_irq(), one         *)
(* instruction on sstatus or the lock word at a time, and an interrupt     *)
(* handler, which runs with interrupts off, takes it with spin_lock(), as  *)
(* serial_irq() does.                                                      *)
(***************************************************************************)
CONSTANT Harts

ASSUME SmpAssumption == Harts # {}

(* The two contexts of a hart. *)
Contexts == {"main", "irq"}
Threads == Harts \X Contexts

VARIABLES
  lock,      \* the lock word
  SIE,       \* SIE[h]: sstatus of hart h has the bit SIE
  at,        \* at[t]: where thread t is
  call,      \* call[h]: the pair of functions that main uses
  flags,     \* flags[h]: what hart_irq_save() returned
  was        \* history: SIE[h] when main called the function

vars == <<lock, SIE, at, call, flags, was>>

main(h) == <<h, "main">>
irq(h)  == <<h, "irq">>

(* On a hart, main stands still while the handler runs. *)
Runs(t) == t[2] = "main" => at[irq(t[1])] = "out"
Goes(t, from, to) == Runs(t) /\ at[t] = from /\ at' = [at EXCEPT ![t] = to]

Init ==
  /\ lock = 0
  /\ SIE \in [Harts -> BOOLEAN]
  /\ at = [t \in Threads |-> "out"]
  /\ call = [h \in Harts |-> "irqsave"]
  /\ flags = [h \in Harts |-> FALSE] /\ was = SIE

(* Main enables or disables interrupts for reasons of its own. *)
Toggle(h) ==
  /\ Goes(main(h), "out", "out")
  /\ SIE' = [SIE EXCEPT ![h] = ~@]
  /\ UNCHANGED <<lock, call, flags, was>>

-----------------------------------------------------------------------------
(* spin_trylock(): amoswap stores 1 and gives back the old value.  An      *)
(* attempt that fails changes nothing, and spin_lock() tries again.        *)

(* Mutant: the old value is ignored. *)
spin_trylock_Always == lock' = 1

spin_trylock == lock' = 1 /\ lock = 0

spin_lock(t) == Goes(t, "spin", "critical") /\ spin_trylock /\ UNCHANGED <<SIE, call, flags, was>>

(* Mutant: the lock is not given back. *)
Released_Never == lock

Released == 0

spin_unlock(t) ==
  /\ Goes(t, "critical", "unlocked")
  /\ lock' = Released
  /\ UNCHANGED <<SIE, call, flags, was>>

(* spin_lock_irqsave() calls hart_irq_save(), which reads sstatus ...      *)
hart_irq_save(h) ==
  /\ Goes(main(h), "out", "saved")
  /\ call' = [call EXCEPT ![h] = "irqsave"]
  /\ flags' = [flags EXCEPT ![h] = SIE[h]]
  /\ was' = [was EXCEPT ![h] = SIE[h]]
  /\ UNCHANGED <<lock, SIE>>

spin_lock_irq(h) ==
  /\ Goes(main(h), "out", "saved")
  /\ call' = [call EXCEPT ![h] = "irq"]
  /\ was' = [was EXCEPT ![h] = SIE[h]]
  /\ UNCHANGED <<lock, SIE, flags>>

(* Mutant: spin_lock() where interrupts must be off. *)
Disabled_Not(h) == SIE

Disabled(h) == [SIE EXCEPT ![h] = FALSE]

(* ... and calls hart_irq_disable(), as spin_lock_irq() does. *)
hart_irq_disable(h) ==
  /\ Goes(main(h), "saved", "spin")
  /\ SIE' = Disabled(h)
  /\ UNCHANGED <<lock, call, flags, was>>

(* Mutant: spin_unlock_irq() for both. *)
StatusAfter_On(h) == TRUE

(* hart_irq_restore() of the flags, or hart_irq_enable(). *)
StatusAfter(h) == IF call[h] = "irqsave" THEN flags[h] ELSE TRUE

UnlockIrq(h) ==
  /\ Goes(main(h), "unlocked", "out")
  /\ SIE' = [SIE EXCEPT ![h] = StatusAfter(h)]
  /\ UNCHANGED <<lock, call, flags, was>>

-----------------------------------------------------------------------------
(* The hart enters the handler, which clears SIE; sret sets it again. *)
Interrupt(h) ==
  /\ SIE[h]
  /\ Goes(irq(h), "out", "spin")
  /\ SIE' = [SIE EXCEPT ![h] = FALSE]
  /\ UNCHANGED <<lock, call, flags, was>>

Sret(h) ==
  /\ Goes(irq(h), "unlocked", "out")
  /\ SIE' = [SIE EXCEPT ![h] = TRUE]
  /\ UNCHANGED <<lock, call, flags, was>>

Code(h) ==
  \/ hart_irq_disable(h) \/ UnlockIrq(h) \/ Sret(h)
  \/ \E c \in Contexts : spin_lock(<<h, c>>) \/ spin_unlock(<<h, c>>)

Next == \E h \in Harts : Toggle(h) \/ hart_irq_save(h) \/ spin_lock_irq(h) \/ Interrupt(h) \/ Code(h)

(* A hart keeps executing what it has begun; nobody has to ask for the     *)
(* lock and no interrupt has to come.                                      *)
Spec == Init /\ [][Next]_vars
FairSpec == Spec /\ \A h \in Harts : WF_vars(Code(h))

-----------------------------------------------------------------------------
(* The type invariant. *)
TypeOK ==
  /\ lock \in {0, 1}
  /\ SIE \in [Harts -> BOOLEAN] /\ flags \in [Harts -> BOOLEAN] /\ was \in [Harts -> BOOLEAN]
  /\ at \in [Threads -> {"out", "saved", "spin", "critical", "unlocked"}]
  /\ call \in [Harts -> {"irqsave", "irq"}]

(* The lock does what it is for: of all threads of all harts, handlers     *)
(* included, one at most is between spin_lock() and spin_unlock().         *)
MutualExclusion ==
  \A t, u \in Threads : at[t] = "critical" /\ at[u] = "critical" => t = u

(* The deadlock that spinlock.h warns of: a handler never spins for a lock *)
(* that the code it interrupted holds.                                     *)
NeverSpinsOnOwnHart == \A h \in Harts : ~(at[main(h)] = "critical" /\ at[irq(h)] = "spin")

(* spin_unlock_irqrestore() leaves interrupts as spin_lock_irqsave() found *)
(* them, although an interrupt may come between the read of sstatus and    *)
(* the clearing of SIE.                                                    *)
IrqStateRestored ==
  [][\A h \in Harts : UnlockIrq(h) /\ call[h] = "irqsave" => SIE'[h] = was[h]]_vars

(* While somebody spins, somebody always gets in sooner or later.  (Which  *)
(* of several is not said: the lock is not fair.)                          *)
LockIsTaken == (\E t \in Threads : at[t] = "spin") ~> (\E t \in Threads : at[t] = "critical")
=============================================================================
