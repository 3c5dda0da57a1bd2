------------------------- MODULE SpinlockSmpProofs --------------------------
(***************************************************************************)
(* What include/arch/spinlock.h promises, for any number of harts.         *)
(***************************************************************************)
EXTENDS SpinlockSmp, TLAPS

(* The lock word tells whether somebody is in the critical section. *)
LockWord == \A t \in Threads : at[t] = "critical" => lock = 1

(* A hart has interrupts off while its handler runs, and from              *)
(* hart_irq_disable() until they are restored; then no handler runs.       *)
Masked ==
  \A h \in Harts :
    /\ at[irq(h)] # "out" => ~SIE[h]
    /\ at[main(h)] \in {"spin", "critical", "unlocked"} => ~SIE[h] /\ at[irq(h)] = "out"

(* hart_irq_save() returned what sstatus was at the call. *)
FlagsKept ==
  \A h \in Harts : at[main(h)] # "out" /\ call[h] = "irqsave" => flags[h] = was[h]

(* The inductive invariant. *)
IInv == TypeOK /\ LockWord /\ MutualExclusion /\ Masked /\ FlagsKept

LEMMA ThreadTypes ==
  /\ \A h \in Harts : main(h) \in Threads /\ irq(h) \in Threads /\ main(h) # irq(h)
  /\ \A h, g \in Harts : h # g => main(h) # main(g) /\ irq(h) # irq(g)
  /\ \A h, g \in Harts : main(h) # irq(g)
BY DEF Threads, Contexts, main, irq

(* A move of one thread that neither enters nor leaves the critical        *)
(* section leaves the lock alone.                                          *)
LEMMA MoveKeepsLock ==
  ASSUME IInv, NEW t \in Threads, NEW to \in {"out", "saved", "spin", "unlocked"},
         at' = [at EXCEPT ![t] = to], UNCHANGED lock
  PROVE  LockWord' /\ MutualExclusion'
<1>1. at \in [Threads -> {"out", "saved", "spin", "critical", "unlocked"}]
  BY DEF IInv, TypeOK
<1>2. \A u \in Threads : at'[u] = "critical" => at[u] = "critical"
  BY <1>1
<1> QED
  BY <1>2 DEF IInv, LockWord, MutualExclusion

(* spin_trylock() succeeds only when nobody is in the critical section. *)
LEMMA LockKeeps ==
  ASSUME IInv, NEW t \in Threads, spin_lock(t)
  PROVE  LockWord' /\ MutualExclusion'
<1>1. at \in [Threads -> {"out", "saved", "spin", "critical", "unlocked"}]
  BY DEF IInv, TypeOK
<1>2. lock = 0 /\ lock' = 1 /\ at' = [at EXCEPT ![t] = "critical"]
  BY DEF spin_lock, spin_trylock, Goes
<1>3. \A u \in Threads : at'[u] = "critical" => u = t
  BY <1>1, <1>2 DEF IInv, LockWord
<1> QED
  BY <1>2, <1>3 DEF LockWord, MutualExclusion

(* The thread that unlocks is the one that was in the critical section. *)
LEMMA UnlockKeeps ==
  ASSUME IInv, NEW t \in Threads, spin_unlock(t)
  PROVE  LockWord' /\ MutualExclusion'
<1>1. at \in [Threads -> {"out", "saved", "spin", "critical", "unlocked"}]
  BY DEF IInv, TypeOK
<1>2. at[t] = "critical" /\ at' = [at EXCEPT ![t] = "unlocked"]
  BY DEF spin_unlock, Goes
<1>3. \A u \in Threads : at'[u] # "critical"
  BY <1>1, <1>2 DEF IInv, MutualExclusion
<1> QED
  BY <1>3 DEF LockWord, MutualExclusion

(* The steps of the kernel proper of hart h, other than on the lock. *)
LEMMA MainKeeps ==
  ASSUME IInv, NEW h \in Harts,
         \/ Toggle(h) \/ hart_irq_save(h) \/ spin_lock_irq(h)
         \/ hart_irq_disable(h) \/ UnlockIrq(h)
  PROVE  IInv'
<1>1. /\ at[irq(h)] = "out" /\ UNCHANGED lock
      /\ \E to \in {"out", "saved", "spin"} : at' = [at EXCEPT ![main(h)] = to]
  BY DEF Toggle, hart_irq_save, spin_lock_irq, hart_irq_disable, UnlockIrq, Goes, Runs,
         main, irq
<1>2. main(h) \in Threads
  BY ThreadTypes
<1>3. LockWord' /\ MutualExclusion'
  BY <1>1, <1>2, MoveKeepsLock
<1>4. TypeOK'
  <2>1. at' \in [Threads -> {"out", "saved", "spin", "critical", "unlocked"}]
    BY <1>1, <1>2 DEF IInv, TypeOK
  <2>2. SIE' \in [Harts -> BOOLEAN]
    BY DEF IInv, TypeOK, Toggle, hart_irq_save, spin_lock_irq, hart_irq_disable, UnlockIrq,
       Disabled, StatusAfter
  <2>3. /\ flags' \in [Harts -> BOOLEAN] /\ was' \in [Harts -> BOOLEAN]
        /\ call' \in [Harts -> {"irqsave", "irq"}]
    BY DEF IInv, TypeOK, Toggle, hart_irq_save, spin_lock_irq, hart_irq_disable, UnlockIrq
  <2> QED
    BY <1>1, <2>1, <2>2, <2>3 DEF IInv, TypeOK
<1>5. \A g \in Harts : /\ at'[irq(g)] = at[irq(g)]
                       /\ g # h => at'[main(g)] = at[main(g)] /\ SIE'[g] = SIE[g]
  BY <1>1, <1>2, ThreadTypes DEF IInv, TypeOK, Toggle, hart_irq_save, spin_lock_irq,
     hart_irq_disable, UnlockIrq, Disabled
<1>6. Masked'
  <2>1. at'[main(h)] \in {"spin", "critical", "unlocked"} => ~SIE'[h]
    BY <1>2 DEF IInv, TypeOK, Toggle, hart_irq_save, spin_lock_irq, hart_irq_disable,
       UnlockIrq, Disabled, Goes
  <2> QED
    BY <1>1, <1>5, <2>1 DEF IInv, Masked
<1>7. FlagsKept'
  <2>1. at'[main(h)] # "out" /\ call'[h] = "irqsave" => flags'[h] = was'[h]
    BY <1>2 DEF IInv, TypeOK, FlagsKept, Toggle, hart_irq_save, spin_lock_irq,
       hart_irq_disable, UnlockIrq, Goes
  <2>2. \A g \in Harts : g # h => /\ call'[g] = call[g] /\ flags'[g] = flags[g]
                                  /\ was'[g] = was[g]
    BY DEF IInv, TypeOK, Toggle, hart_irq_save, spin_lock_irq, hart_irq_disable, UnlockIrq
  <2> QED
    BY <1>5, <2>1, <2>2 DEF IInv, FlagsKept
<1> QED
  BY <1>3, <1>4, <1>6, <1>7 DEF IInv

(* Entering and leaving the handler of hart h. *)
LEMMA HandlerKeeps ==
  ASSUME IInv, NEW h \in Harts, Interrupt(h) \/ Sret(h)
  PROVE  IInv'
<1>1. /\ UNCHANGED <<lock, call, flags, was>>
      /\ \E to \in {"out", "spin"} : at' = [at EXCEPT ![irq(h)] = to]
  BY DEF Interrupt, Sret, Goes
<1>2. irq(h) \in Threads
  BY ThreadTypes
<1>3. LockWord' /\ MutualExclusion'
  BY <1>1, <1>2, MoveKeepsLock
<1>4. TypeOK'
  BY <1>1, <1>2 DEF IInv, TypeOK, Interrupt, Sret
<1>5. \A g \in Harts : /\ at'[main(g)] = at[main(g)]
                       /\ g # h => at'[irq(g)] = at[irq(g)] /\ SIE'[g] = SIE[g]
  BY <1>1, <1>2, ThreadTypes DEF IInv, TypeOK, Interrupt, Sret
<1>6. Masked'
  <2>1. at[main(h)] \notin {"spin", "critical", "unlocked"}
    BY DEF IInv, Masked, Interrupt, Sret, Goes
  <2>2. at'[irq(h)] # "out" => ~SIE'[h]
    BY <1>2 DEF IInv, TypeOK, Interrupt, Sret, Goes
  <2> QED
    BY <1>5, <2>1, <2>2 DEF IInv, Masked
<1>7. FlagsKept'
  BY <1>1, <1>5 DEF IInv, FlagsKept
<1> QED
  BY <1>3, <1>4, <1>6, <1>7 DEF IInv

(* Taking and releasing the lock, by any thread. *)
LEMMA SpinKeeps ==
  ASSUME IInv, NEW h \in Harts, NEW c \in Contexts,
         spin_lock(<<h, c>>) \/ spin_unlock(<<h, c>>)
  PROVE  IInv'
<1> DEFINE t == <<h, c>>
<1>1. t \in Threads
  BY DEF Threads
<1>2. LockWord' /\ MutualExclusion'
  BY <1>1, LockKeeps, UnlockKeeps
<1>3. /\ UNCHANGED <<SIE, call, flags, was>> /\ lock' \in {0, 1}
      /\ at[t] \in {"spin", "critical"}
      /\ \E to \in {"critical", "unlocked"} : at' = [at EXCEPT ![t] = to]
  BY DEF spin_lock, spin_unlock, spin_trylock, Released, Goes
<1>4. TypeOK'
  BY <1>1, <1>3 DEF IInv, TypeOK
<1>5. \A u \in Threads : \/ at'[u] = at[u]
                         \/ at[u] \in {"spin", "critical"} /\ at'[u] \in {"critical", "unlocked"}
  BY <1>1, <1>3 DEF IInv, TypeOK
<1>6. Masked' /\ FlagsKept'
  BY <1>3, <1>5, ThreadTypes DEF IInv, Masked, FlagsKept
<1> QED
  BY <1>2, <1>4, <1>6 DEF IInv

(* Every step of every hart keeps the invariant. *)
THEOREM Invariance == Spec => []IInv
<1>1. Init => IInv
  BY ThreadTypes DEF Init, IInv, TypeOK, LockWord, MutualExclusion, Masked, FlagsKept
<1>2. IInv /\ [Next]_vars => IInv'
  <2> SUFFICES ASSUME IInv, [Next]_vars PROVE IInv'
    OBVIOUS
  <2>1. CASE UNCHANGED vars
    BY <2>1 DEF vars, IInv, TypeOK, LockWord, MutualExclusion, Masked, FlagsKept
  <2>2. ASSUME NEW h \in Harts, Toggle(h) \/ hart_irq_save(h) \/ spin_lock_irq(h)
        PROVE  IInv'
    BY <2>2, MainKeeps
  <2>3. ASSUME NEW h \in Harts, Interrupt(h) PROVE IInv'
    BY <2>3, HandlerKeeps
  <2>4. ASSUME NEW h \in Harts, Code(h) PROVE IInv'
    BY <2>4, MainKeeps, HandlerKeeps, SpinKeeps DEF Code
  <2> QED
    BY <2>1, <2>2, <2>3, <2>4 DEF Next
<1> QED
  BY <1>1, <1>2, PTL DEF Spec

(* Whatever the number of harts and the interrupts, two threads are never  *)
(* in the critical section together.                                       *)
THEOREM Exclusive == Spec => []MutualExclusion
<1>1. IInv => MutualExclusion
  BY DEF IInv
<1> QED
  BY <1>1, Invariance, PTL

(* A handler never waits for the code it interrupted. *)
THEOREM NoSelfDeadlock == Spec => []NeverSpinsOnOwnHart
<1>1. IInv => NeverSpinsOnOwnHart
  BY DEF IInv, Masked, NeverSpinsOnOwnHart
<1> QED
  BY <1>1, Invariance, PTL

(* spin_unlock_irqrestore() undoes what spin_lock_irqsave() did. *)
THEOREM Restored == Spec => IrqStateRestored
<1>1. IInv /\ [Next]_vars =>
        [\A h \in Harts : UnlockIrq(h) /\ call[h] = "irqsave" => SIE'[h] = was[h]]_vars
  <2> SUFFICES ASSUME IInv, NEW h \in Harts, UnlockIrq(h), call[h] = "irqsave"
               PROVE  SIE'[h] = was[h]
    OBVIOUS
  <2>1. SIE'[h] = flags[h]
    BY DEF IInv, TypeOK, UnlockIrq, StatusAfter
  <2>2. flags[h] = was[h]
    BY DEF IInv, FlagsKept, UnlockIrq, Goes
  <2> QED
    BY <2>1, <2>2
<1> QED
  BY <1>1, Invariance, PTL DEF Spec, IrqStateRestored
=============================================================================
