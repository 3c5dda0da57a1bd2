---------------------------- MODULE RxPathProofs ----------------------------
(***************************************************************************)
(* Proofs that the receive path keeps its invariants for every buffer      *)
(* size, FIFO depth, set of interrupts and number of bytes.                *)
(*                                                                         *)
(* None of the invariants is inductive alone: that serial_irq() stores the *)
(* right byte depends on the UART holding one, which depends on the        *)
(* claim/complete handshake, which depends on which context runs, which    *)
(* depends on SIE and on the flags serial_read() saved.  IInv is the       *)
(* conjunction of these layers, each proved from the ones below it.        *)
(***************************************************************************)
EXTENDS RxPath, TLAPS, SequenceTheorems

(* Who may run: SIE, SPIE and the saved flags follow the two contexts. *)
MaskInv ==
  /\ tpc = "none" => ("SIE" \in sstatus <=> mpc \in Unmasked)
  /\ tpc # "none" => "SIE" \notin sstatus /\ "SPIE" \in sstatus /\ mpc \in Unmasked
  /\ mpc \in {"irq_disable"} \cup Masked => "SIE" \in flags
  /\ mpc # "trap_setup" => stvec = "trap_entry"

(* The lock word is 1 exactly while one of the two contexts holds it. *)
LockInv ==
  lock = 1 <=> \/ mpc \in {"copy", "reset", "spin_unlock"}
               \/ tpc \in {"store", "spin_unlock"}

(* The handshake: a request of the UART is pending, or claimed by the      *)
(* handler that is serving it, exactly as long as the UART holds a byte    *)
(* the handler has not got to.                                             *)
HandshakeInv ==
  /\ mpc \in Boot \ {"hart_irq_enable"} => ier = {} /\ pending = {} /\ enabled = {}
  /\ mpc \notin Boot \ {"hart_irq_enable"} =>
       /\ ier = {"ERBFI"} /\ "SEIE" \in sie
       /\ enabled = {IRQ_SERIAL} /\ prio[IRQ_SERIAL] = 1 /\ threshold = 0
       /\ rx # <<>> /\ tpc \notin Serving => IRQ_SERIAL \in pending
  /\ pending \subseteq {IRQ_SERIAL}
  /\ pending # {} => rx # <<>>
  /\ tpc \in Serving => irq = IRQ_SERIAL /\ claimed = {IRQ_SERIAL} /\ pending = {}
  /\ tpc \notin Serving => claimed = {}
  /\ tpc \in {"serial_irq", "store"} => rx # <<>>

(* Where serial_read() and kmain's loop are in the buffers. *)
LoopInv ==
  /\ Open => fcr = {"FIFO_ENABLE"}
  /\ mpc = "copy" => i <= len /\ \A k \in 0..(i - 1) : input_buf[k] = buf[k]
  /\ mpc = "reset" => i = 0 /\ read_bytes = len
                      /\ \A k \in 0..(len - 1) : input_buf[k] = buf[k]
  /\ mpc \in {"spin_unlock", "irq_restore"} => i = 0
  /\ mpc = "process" => i <= read_bytes

IInv == TypeOK /\ MaskInv /\ LockInv /\ HandshakeInv /\ LoopInv /\ InOrder

-----------------------------------------------------------------------------
(* The definitions every step needs: where the contexts are and how a step *)
(* of each is framed.                                                      *)
USE DEF Boot, Unmasked, Masked, Serving, Open, BufIndex,
        vars, hartVars, plicVars, uartVars, devVars, mainVars, trapVars,
        csr_set, csr_clear

(* A queue of bytes is empty exactly when its length is 0. *)
LEMMA EmptyRx ==
  ASSUME UartTypeOK
  PROVE  /\ Len(rx) \in Nat
         /\ rx = <<>> <=> Len(rx) = 0
         /\ rx # <<>> => /\ Head(rx) = rx[1] /\ Head(rx) \in Nat
                         /\ Tail(rx) \in Seq(Nat)
                         /\ Len(Tail(rx)) = Len(rx) - 1
                         /\ \A k \in 1..(Len(rx) - 1) : Tail(rx)[k] = rx[k + 1]
<1>1. rx \in Seq(Nat)
  BY DEF UartTypeOK
<1>2. Len(rx) \in Nat /\ (rx = <<>> <=> Len(rx) = 0)
  BY <1>1, EmptySeq
<1>3. ASSUME rx # <<>>
      PROVE  /\ Head(rx) = rx[1] /\ Head(rx) \in Nat
             /\ Tail(rx) \in Seq(Nat)
             /\ Len(Tail(rx)) = Len(rx) - 1
             /\ \A k \in 1..(Len(rx) - 1) : Tail(rx)[k] = rx[k + 1]
  BY <1>1, <1>2, <1>3, HeadTailProperties
<1> QED
  BY <1>2, <1>3
(* What a byte does to the UART's FIFO when it arrives. *)
LEMMA AppendRx ==
  ASSUME UartTypeOK
  PROVE  /\ Append(rx, rxcount) \in Seq(Nat) /\ Append(rx, rxcount) # <<>>
         /\ Len(Append(rx, rxcount)) = Len(rx) + 1
         /\ Append(rx, rxcount)[Len(rx) + 1] = rxcount
         /\ \A k \in 1..Len(rx) : Append(rx, rxcount)[k] = rx[k]
         /\ <<rxcount>> \in Seq(Nat) /\ <<rxcount>> # <<>>
<1>1. rx \in Seq(Nat) /\ rxcount \in Nat
  BY DEF UartTypeOK
<1> QED
  BY <1>1, AppendProperties

-----------------------------------------------------------------------------
(* In the shell the claim register returns IRQ_SERIAL if it is pending and *)
(* 0 otherwise: no other source is enabled.                                *)
LEMMA ClaimedSerial ==
  ASSUME TypeOK, HandshakeInv, mpc \notin Boot
  PROVE  ClaimedIrq = IF IRQ_SERIAL \in pending THEN IRQ_SERIAL ELSE 0
<1> USE PlicAssumption, RxPathAssumption DEF TypeOK, PlicTypeOK
<1>1. Claimable = IF IRQ_SERIAL \in pending THEN {IRQ_SERIAL} ELSE {}
  BY DEF Claimable, HandshakeInv
<1>2. CASE IRQ_SERIAL \in pending
  <2>1. \A q \in {IRQ_SERIAL} :
          \A r \in {IRQ_SERIAL} : \/ prio[q] > prio[r]
                                  \/ prio[q] = prio[r] /\ q <= r
    OBVIOUS
  <2> QED
    BY <1>1, <1>2, <2>1 DEF ClaimedIrq
<1>3. CASE IRQ_SERIAL \notin pending
  BY <1>1, <1>3 DEF ClaimedIrq
<1> QED
  BY <1>2, <1>3

(* Every step keeps SIE, SPIE and the saved flags in step with the contexts. *)
LEMMA MaskStep ==
  ASSUME IInv, [Next]_vars
  PROVE  MaskInv'
<1> USE IInv, PlicAssumption, UartAssumption, RxPathAssumption
     DEF IInv, MaskInv, TypeOK, HartTypeOK, MainTypeOK
<1>1. CASE ByteArrives
  BY <1>1 DEF ByteArrives, Receive, Forward
<1>2. CASE TimerExpires
  BY <1>2 DEF TimerExpires
<1>3. CASE BootTrapSetup
  BY <1>3 DEF BootTrapSetup, Main, trap_setup
<1>4. CASE BootTimer
  BY <1>4 DEF BootTimer, Main, timer_irq_enable
<1>5. CASE serial_init
  BY <1>5 DEF serial_init, Main, spin_init, WriteFcr
<1>6. CASE serial_irq_enable
  BY <1>6
     DEF serial_irq_enable, Main, WriteIer, Forward, plic_irq_set_priority,
     plic_hart_set_threshold, plic_hart_enable_irq
<1>7. CASE BootIrqEnable
  BY <1>7 DEF BootIrqEnable, Main, hart_irq_enable
<1>8. CASE ReadIrqSave
  BY <1>8 DEF ReadIrqSave, Main
<1>9. CASE ReadIrqDisable
  BY <1>9 DEF ReadIrqDisable, Main, hart_irq_disable
<1>10. CASE ReadLock
  BY <1>10 DEF ReadLock, Main, spin_lock
<1>11. CASE ReadCopy
  BY <1>11 DEF ReadCopy, Main
<1>12. CASE ReadCount
  BY <1>12 DEF ReadCount, Main
<1>13. CASE ReadReset
  BY <1>13 DEF ReadReset, Main
<1>14. CASE ReadUnlock
  BY <1>14 DEF ReadUnlock, Main, spin_unlock
<1>15. CASE ReadIrqRestore
  BY <1>15 DEF ReadIrqRestore, Main, hart_irq_restore
<1>16. CASE Process
  BY <1>16 DEF Process, Main, timer_irq_enable
<1>17. CASE ProcessDone
  BY <1>17 DEF ProcessDone, Main
<1>18. CASE TakeTrap
  BY <1>18 DEF TakeTrap, Interrupted, TrapEnter
<1>19. CASE handle_trap
  BY <1>19 DEF handle_trap, Trap
<1>20. CASE timer_irq
  BY <1>20 DEF timer_irq, Trap, timer_irq_disable
<1>21. CASE IrqClaim
  BY <1>21 DEF IrqClaim, Trap, plic_hart_claim_irq
<1>22. CASE IrqLock
  BY <1>22 DEF IrqLock, Trap, spin_lock
<1>23. CASE IrqStore
  BY <1>23 DEF IrqStore, Trap, ReadRbr, RbrByte
<1>24. CASE IrqUnlock
  BY <1>24 DEF IrqUnlock, Trap, spin_unlock
<1>25. CASE IrqComplete
  BY <1>25 DEF IrqComplete, Trap, plic_hart_complete_irq, DataReady
<1>26. CASE TrapReturn
  BY <1>26 DEF TrapReturn, Trap, Sret
<1>27. CASE UNCHANGED vars
  BY <1>27 DEF HandedOver
<1> QED
  BY <1>1, <1>2, <1>3, <1>4, <1>5, <1>6, <1>7, <1>8, <1>9, <1>10, <1>11, <1>12, <1>13,
     <1>14, <1>15, <1>16, <1>17, <1>18, <1>19, <1>20, <1>21, <1>22, <1>23, <1>24,
     <1>25, <1>26, <1>27
     DEF Next, MainNext, TrapNext

(* Every step keeps the lock word in step with the contexts. *)
LEMMA LockStep ==
  ASSUME IInv, [Next]_vars
  PROVE  LockInv'
<1> USE IInv, PlicAssumption, UartAssumption, RxPathAssumption
     DEF IInv, LockInv, MaskInv, TypeOK, DevTypeOK
<1>1. CASE ByteArrives
  BY <1>1 DEF ByteArrives, Receive, Forward
<1>2. CASE TimerExpires
  BY <1>2 DEF TimerExpires
<1>3. CASE BootTrapSetup
  BY <1>3 DEF BootTrapSetup, Main, trap_setup
<1>4. CASE BootTimer
  BY <1>4 DEF BootTimer, Main, timer_irq_enable
<1>5. CASE serial_init
  BY <1>5 DEF serial_init, Main, spin_init, WriteFcr
<1>6. CASE serial_irq_enable
  BY <1>6
     DEF serial_irq_enable, Main, WriteIer, Forward, plic_irq_set_priority,
     plic_hart_set_threshold, plic_hart_enable_irq
<1>7. CASE BootIrqEnable
  BY <1>7 DEF BootIrqEnable, Main, hart_irq_enable
<1>8. CASE ReadIrqSave
  BY <1>8 DEF ReadIrqSave, Main
<1>9. CASE ReadIrqDisable
  BY <1>9 DEF ReadIrqDisable, Main, hart_irq_disable
<1>10. CASE ReadLock
  BY <1>10 DEF ReadLock, Main, spin_lock
<1>11. CASE ReadCopy
  BY <1>11 DEF ReadCopy, Main
<1>12. CASE ReadCount
  BY <1>12 DEF ReadCount, Main
<1>13. CASE ReadReset
  BY <1>13 DEF ReadReset, Main
<1>14. CASE ReadUnlock
  BY <1>14 DEF ReadUnlock, Main, spin_unlock
<1>15. CASE ReadIrqRestore
  BY <1>15 DEF ReadIrqRestore, Main, hart_irq_restore
<1>16. CASE Process
  BY <1>16 DEF Process, Main, timer_irq_enable
<1>17. CASE ProcessDone
  BY <1>17 DEF ProcessDone, Main
<1>18. CASE TakeTrap
  BY <1>18 DEF TakeTrap, Interrupted, TrapEnter
<1>19. CASE handle_trap
  BY <1>19 DEF handle_trap, Trap
<1>20. CASE timer_irq
  BY <1>20 DEF timer_irq, Trap, timer_irq_disable
<1>21. CASE IrqClaim
  BY <1>21 DEF IrqClaim, Trap, plic_hart_claim_irq
<1>22. CASE IrqLock
  BY <1>22 DEF IrqLock, Trap, spin_lock
<1>23. CASE IrqStore
  BY <1>23 DEF IrqStore, Trap, ReadRbr, RbrByte
<1>24. CASE IrqUnlock
  BY <1>24 DEF IrqUnlock, Trap, spin_unlock
<1>25. CASE IrqComplete
  BY <1>25 DEF IrqComplete, Trap, plic_hart_complete_irq, DataReady
<1>26. CASE TrapReturn
  BY <1>26 DEF TrapReturn, Trap, Sret
<1>27. CASE UNCHANGED vars
  BY <1>27 DEF HandedOver
<1> QED
  BY <1>1, <1>2, <1>3, <1>4, <1>5, <1>6, <1>7, <1>8, <1>9, <1>10, <1>11, <1>12, <1>13,
     <1>14, <1>15, <1>16, <1>17, <1>18, <1>19, <1>20, <1>21, <1>22, <1>23, <1>24,
     <1>25, <1>26, <1>27
     DEF Next, MainNext, TrapNext

(* What the arrival of a byte does to the FIFO. *)
LEMMA ReceiveRx ==
  ASSUME UartTypeOK, Receive
  PROVE  /\ rx' \in Seq(Nat) /\ rx' # <<>> /\ rxcount' = rxcount + 1 /\ rxcount' \in Nat
         /\ "FIFO_ENABLE" \in fcr => rx' = Append(rx, rxcount)
<1>1. rxcount' = rxcount + 1 /\ rxcount' \in Nat
  BY DEF UartTypeOK, Receive
<1>2. rx' \in Seq(Nat) /\ rx' # <<>>
  BY AppendRx DEF Receive
<1>3. "FIFO_ENABLE" \in fcr => rx' = Append(rx, rxcount)
  BY DEF Receive
<1> QED
  BY <1>1, <1>2, <1>3

(* serial_irq() stores within the buffer. *)
LEMMA StoreInBounds ==
  ASSUME UartTypeOK, DevTypeOK, IrqStore
  PROVE  DevTypeOK'
<1>1. RbrByte \in Nat
  BY EmptyRx, UartAssumption DEF RbrByte
<1>2. CASE len < SERIAL_BUF_SIZE
  BY <1>1, <1>2, RxPathAssumption DEF IrqStore, Trap, DevTypeOK
<1>3. CASE ~(len < SERIAL_BUF_SIZE)
  BY <1>3 DEF IrqStore, Trap, DevTypeOK
<1> QED
  BY <1>2, <1>3

(* serial_irq_enable() writes legal values to the PLIC. *)
LEMMA EnableType ==
  ASSUME PlicTypeOK, serial_irq_enable
  PROVE  PlicTypeOK'
<1>1. prio' \in [Irqs -> 0..MaxPrio] /\ threshold' \in 0..MaxPrio
  BY PlicAssumption, RxPathAssumption
     DEF PlicTypeOK, serial_irq_enable, plic_irq_set_priority, plic_hart_set_threshold
<1>2. enabled' \subseteq Irqs /\ pending' \subseteq Irqs /\ claimed' = claimed
  BY RxPathAssumption DEF PlicTypeOK, serial_irq_enable, plic_hart_enable_irq, Forward
<1> QED
  BY <1>1, <1>2 DEF PlicTypeOK

(* Every step keeps the types of the CSRs and the devices. *)
LEMMA HardwareTypeStep ==
  ASSUME IInv, [Next]_vars
  PROVE  (HartTypeOK /\ PlicTypeOK /\ UartTypeOK)'
<1> USE IInv, PlicAssumption, UartAssumption, RxPathAssumption
     DEF IInv, TypeOK, HartTypeOK, PlicTypeOK, UartTypeOK, MainTypeOK
<1>1. CASE ByteArrives
  <2>1. rx' \in Seq(Nat) /\ rxcount' \in Nat
    BY <1>1, ReceiveRx DEF ByteArrives
  <2>2. pending' \subseteq Irqs
    BY <1>1 DEF ByteArrives, Forward
  <2> QED
    BY <1>1, <2>1, <2>2 DEF ByteArrives
<1>2. CASE TimerExpires
  BY <1>2 DEF TimerExpires
<1>3. CASE BootTrapSetup
  BY <1>3 DEF BootTrapSetup, Main, trap_setup
<1>4. CASE BootTimer
  BY <1>4 DEF BootTimer, Main, timer_irq_enable
<1>5. CASE serial_init
  BY <1>5 DEF serial_init, Main, spin_init, WriteFcr
<1>6. CASE serial_irq_enable
  BY <1>6, EnableType
     DEF serial_irq_enable, Main, WriteIer, Forward, plic_irq_set_priority,
     plic_hart_set_threshold, plic_hart_enable_irq
<1>7. CASE BootIrqEnable
  BY <1>7 DEF BootIrqEnable, Main, hart_irq_enable
<1>8. CASE ReadIrqSave
  BY <1>8 DEF ReadIrqSave, Main
<1>9. CASE ReadIrqDisable
  BY <1>9 DEF ReadIrqDisable, Main, hart_irq_disable
<1>10. CASE ReadLock
  BY <1>10 DEF ReadLock, Main, spin_lock
<1>11. CASE ReadCopy
  BY <1>11 DEF ReadCopy, Main
<1>12. CASE ReadCount
  BY <1>12 DEF ReadCount, Main
<1>13. CASE ReadReset
  BY <1>13 DEF ReadReset, Main
<1>14. CASE ReadUnlock
  BY <1>14 DEF ReadUnlock, Main, spin_unlock
<1>15. CASE ReadIrqRestore
  BY <1>15 DEF ReadIrqRestore, Main, hart_irq_restore
<1>16. CASE Process
  BY <1>16 DEF Process, Main, timer_irq_enable
<1>17. CASE ProcessDone
  BY <1>17 DEF ProcessDone, Main
<1>18. CASE TakeTrap
  BY <1>18 DEF TakeTrap, Interrupted, TrapEnter
<1>19. CASE handle_trap
  BY <1>19 DEF handle_trap, Trap
<1>20. CASE timer_irq
  BY <1>20 DEF timer_irq, Trap, timer_irq_disable
<1>21. CASE IrqClaim
  BY <1>21, ClaimedSerial DEF IrqClaim, Trap, plic_hart_claim_irq, MaskInv
<1>22. CASE IrqLock
  BY <1>22 DEF IrqLock, Trap, spin_lock
<1>23. CASE IrqStore
  BY <1>23, EmptyRx DEF IrqStore, Trap, ReadRbr, RbrByte
<1>24. CASE IrqUnlock
  BY <1>24 DEF IrqUnlock, Trap, spin_unlock
<1>25. CASE IrqComplete
  BY <1>25 DEF IrqComplete, Trap, plic_hart_complete_irq, DataReady, HandshakeInv
<1>26. CASE TrapReturn
  BY <1>26 DEF TrapReturn, Trap, Sret
<1>27. CASE UNCHANGED vars
  BY <1>27 DEF HandedOver
<1> QED
  BY <1>1, <1>2, <1>3, <1>4, <1>5, <1>6, <1>7, <1>8, <1>9, <1>10, <1>11, <1>12, <1>13,
     <1>14, <1>15, <1>16, <1>17, <1>18, <1>19, <1>20, <1>21, <1>22, <1>23, <1>24,
     <1>25, <1>26, <1>27
     DEF Next, MainNext, TrapNext

(* Every step keeps the driver's data within its bounds. *)
LEMMA DevTypeStep ==
  ASSUME IInv, [Next]_vars
  PROVE  DevTypeOK'
<1> USE IInv, PlicAssumption, UartAssumption, RxPathAssumption
     DEF IInv, TypeOK, DevTypeOK, MainTypeOK, UartTypeOK
<1>1. CASE ByteArrives
  BY <1>1 DEF ByteArrives, Receive, Forward
<1>2. CASE TimerExpires
  BY <1>2 DEF TimerExpires
<1>3. CASE BootTrapSetup
  BY <1>3 DEF BootTrapSetup, Main, trap_setup
<1>4. CASE BootTimer
  BY <1>4 DEF BootTimer, Main, timer_irq_enable
<1>5. CASE serial_init
  BY <1>5 DEF serial_init, Main, spin_init, WriteFcr
<1>6. CASE serial_irq_enable
  BY <1>6
     DEF serial_irq_enable, Main, WriteIer, Forward, plic_irq_set_priority,
     plic_hart_set_threshold, plic_hart_enable_irq
<1>7. CASE BootIrqEnable
  BY <1>7 DEF BootIrqEnable, Main, hart_irq_enable
<1>8. CASE ReadIrqSave
  BY <1>8 DEF ReadIrqSave, Main
<1>9. CASE ReadIrqDisable
  BY <1>9 DEF ReadIrqDisable, Main, hart_irq_disable
<1>10. CASE ReadLock
  BY <1>10 DEF ReadLock, Main, spin_lock
<1>11. CASE ReadCopy
  BY <1>11 DEF ReadCopy, Main
<1>12. CASE ReadCount
  BY <1>12 DEF ReadCount, Main
<1>13. CASE ReadReset
  BY <1>13 DEF ReadReset, Main
<1>14. CASE ReadUnlock
  BY <1>14 DEF ReadUnlock, Main, spin_unlock
<1>15. CASE ReadIrqRestore
  BY <1>15 DEF ReadIrqRestore, Main, hart_irq_restore
<1>16. CASE Process
  BY <1>16 DEF Process, Main, timer_irq_enable
<1>17. CASE ProcessDone
  BY <1>17 DEF ProcessDone, Main
<1>18. CASE TakeTrap
  BY <1>18 DEF TakeTrap, Interrupted, TrapEnter
<1>19. CASE handle_trap
  BY <1>19 DEF handle_trap, Trap
<1>20. CASE timer_irq
  BY <1>20 DEF timer_irq, Trap, timer_irq_disable
<1>21. CASE IrqClaim
  BY <1>21 DEF IrqClaim, Trap, plic_hart_claim_irq
<1>22. CASE IrqLock
  BY <1>22 DEF IrqLock, Trap, spin_lock
<1>23. CASE IrqStore
  BY <1>23, StoreInBounds
<1>24. CASE IrqUnlock
  BY <1>24 DEF IrqUnlock, Trap, spin_unlock
<1>25. CASE IrqComplete
  BY <1>25 DEF IrqComplete, Trap, plic_hart_complete_irq, DataReady
<1>26. CASE TrapReturn
  BY <1>26 DEF TrapReturn, Trap, Sret
<1>27. CASE UNCHANGED vars
  BY <1>27 DEF HandedOver
<1> QED
  BY <1>1, <1>2, <1>3, <1>4, <1>5, <1>6, <1>7, <1>8, <1>9, <1>10, <1>11, <1>12, <1>13,
     <1>14, <1>15, <1>16, <1>17, <1>18, <1>19, <1>20, <1>21, <1>22, <1>23, <1>24,
     <1>25, <1>26, <1>27
     DEF Next, MainNext, TrapNext

(* Every step keeps the main context within its buffers. *)
LEMMA MainTypeStep ==
  ASSUME IInv, [Next]_vars
  PROVE  MainTypeOK'
<1> USE IInv, PlicAssumption, UartAssumption, RxPathAssumption
     DEF IInv, TypeOK, MainTypeOK, DevTypeOK, HartTypeOK, UartTypeOK
<1>1. CASE ByteArrives
  BY <1>1 DEF ByteArrives, Receive, Forward
<1>2. CASE TimerExpires
  BY <1>2 DEF TimerExpires
<1>3. CASE BootTrapSetup
  BY <1>3 DEF BootTrapSetup, Main, trap_setup
<1>4. CASE BootTimer
  BY <1>4 DEF BootTimer, Main, timer_irq_enable
<1>5. CASE serial_init
  BY <1>5 DEF serial_init, Main, spin_init, WriteFcr
<1>6. CASE serial_irq_enable
  BY <1>6
     DEF serial_irq_enable, Main, WriteIer, Forward, plic_irq_set_priority,
     plic_hart_set_threshold, plic_hart_enable_irq
<1>7. CASE BootIrqEnable
  BY <1>7 DEF BootIrqEnable, Main, hart_irq_enable
<1>8. CASE ReadIrqSave
  BY <1>8 DEF ReadIrqSave, Main
<1>9. CASE ReadIrqDisable
  BY <1>9 DEF ReadIrqDisable, Main, hart_irq_disable
<1>10. CASE ReadLock
  BY <1>10 DEF ReadLock, Main, spin_lock
<1>11. CASE ReadCopy
  BY <1>11 DEF ReadCopy, Main
<1>12. CASE ReadCount
  BY <1>12 DEF ReadCount, Main
<1>13. CASE ReadReset
  BY <1>13 DEF ReadReset, Main
<1>14. CASE ReadUnlock
  BY <1>14 DEF ReadUnlock, Main, spin_unlock
<1>15. CASE ReadIrqRestore
  BY <1>15 DEF ReadIrqRestore, Main, hart_irq_restore
<1>16. CASE Process
  BY <1>16 DEF Process, Main, timer_irq_enable
<1>17. CASE ProcessDone
  BY <1>17 DEF ProcessDone, Main
<1>18. CASE TakeTrap
  BY <1>18 DEF TakeTrap, Interrupted, TrapEnter
<1>19. CASE handle_trap
  BY <1>19 DEF handle_trap, Trap
<1>20. CASE timer_irq
  BY <1>20 DEF timer_irq, Trap, timer_irq_disable
<1>21. CASE IrqClaim
  BY <1>21 DEF IrqClaim, Trap, plic_hart_claim_irq
<1>22. CASE IrqLock
  BY <1>22 DEF IrqLock, Trap, spin_lock
<1>23. CASE IrqStore
  BY <1>23 DEF IrqStore, Trap, ReadRbr, RbrByte
<1>24. CASE IrqUnlock
  BY <1>24 DEF IrqUnlock, Trap, spin_unlock
<1>25. CASE IrqComplete
  BY <1>25 DEF IrqComplete, Trap, plic_hart_complete_irq, DataReady
<1>26. CASE TrapReturn
  BY <1>26 DEF TrapReturn, Trap, Sret
<1>27. CASE UNCHANGED vars
  BY <1>27 DEF HandedOver
<1> QED
  BY <1>1, <1>2, <1>3, <1>4, <1>5, <1>6, <1>7, <1>8, <1>9, <1>10, <1>11, <1>12, <1>13,
     <1>14, <1>15, <1>16, <1>17, <1>18, <1>19, <1>20, <1>21, <1>22, <1>23, <1>24,
     <1>25, <1>26, <1>27
     DEF Next, MainNext, TrapNext

(* Every step keeps the trap context at a step of the trap handler. *)
LEMMA TrapTypeStep ==
  ASSUME IInv, [Next]_vars
  PROVE  TrapTypeOK'
<1> USE IInv, PlicAssumption, UartAssumption, RxPathAssumption
     DEF IInv, TypeOK, TrapTypeOK, MainTypeOK, HartTypeOK, MaskInv
<1>1. CASE ByteArrives
  BY <1>1 DEF ByteArrives, Receive, Forward
<1>2. CASE TimerExpires
  BY <1>2 DEF TimerExpires
<1>3. CASE BootTrapSetup
  BY <1>3 DEF BootTrapSetup, Main, trap_setup
<1>4. CASE BootTimer
  BY <1>4 DEF BootTimer, Main, timer_irq_enable
<1>5. CASE serial_init
  BY <1>5 DEF serial_init, Main, spin_init, WriteFcr
<1>6. CASE serial_irq_enable
  BY <1>6
     DEF serial_irq_enable, Main, WriteIer, Forward, plic_irq_set_priority,
     plic_hart_set_threshold, plic_hart_enable_irq
<1>7. CASE BootIrqEnable
  BY <1>7 DEF BootIrqEnable, Main, hart_irq_enable
<1>8. CASE ReadIrqSave
  BY <1>8 DEF ReadIrqSave, Main
<1>9. CASE ReadIrqDisable
  BY <1>9 DEF ReadIrqDisable, Main, hart_irq_disable
<1>10. CASE ReadLock
  BY <1>10 DEF ReadLock, Main, spin_lock
<1>11. CASE ReadCopy
  BY <1>11 DEF ReadCopy, Main
<1>12. CASE ReadCount
  BY <1>12 DEF ReadCount, Main
<1>13. CASE ReadReset
  BY <1>13 DEF ReadReset, Main
<1>14. CASE ReadUnlock
  BY <1>14 DEF ReadUnlock, Main, spin_unlock
<1>15. CASE ReadIrqRestore
  BY <1>15 DEF ReadIrqRestore, Main, hart_irq_restore
<1>16. CASE Process
  BY <1>16 DEF Process, Main, timer_irq_enable
<1>17. CASE ProcessDone
  BY <1>17 DEF ProcessDone, Main
<1>18. CASE TakeTrap
  BY <1>18 DEF TakeTrap, Interrupted, TrapEnter, ExternalIrq, TimerIrq
<1>19. CASE handle_trap
  BY <1>19 DEF handle_trap, Trap
<1>20. CASE timer_irq
  BY <1>20 DEF timer_irq, Trap, timer_irq_disable
<1>21. CASE IrqClaim
  BY <1>21, ClaimedSerial DEF IrqClaim, Trap, plic_hart_claim_irq
<1>22. CASE IrqLock
  BY <1>22 DEF IrqLock, Trap, spin_lock
<1>23. CASE IrqStore
  BY <1>23 DEF IrqStore, Trap, ReadRbr, RbrByte
<1>24. CASE IrqUnlock
  BY <1>24 DEF IrqUnlock, Trap, spin_unlock
<1>25. CASE IrqComplete
  BY <1>25 DEF IrqComplete, Trap, plic_hart_complete_irq, DataReady
<1>26. CASE TrapReturn
  BY <1>26 DEF TrapReturn, Trap, Sret
<1>27. CASE UNCHANGED vars
  BY <1>27 DEF HandedOver
<1> QED
  BY <1>1, <1>2, <1>3, <1>4, <1>5, <1>6, <1>7, <1>8, <1>9, <1>10, <1>11, <1>12, <1>13,
     <1>14, <1>15, <1>16, <1>17, <1>18, <1>19, <1>20, <1>21, <1>22, <1>23, <1>24,
     <1>25, <1>26, <1>27
     DEF Next, MainNext, TrapNext

(* Every step keeps the handshake. *)
LEMMA HandshakeStep ==
  ASSUME IInv, [Next]_vars
  PROVE  HandshakeInv'
<1> USE IInv, PlicAssumption, UartAssumption, RxPathAssumption
     DEF IInv, HandshakeInv, MaskInv, TypeOK, MainTypeOK, PlicTypeOK, UartTypeOK
<1>1. CASE ByteArrives
  <2>1. rx' # <<>>
    BY <1>1, ReceiveRx DEF ByteArrives
  <2>2. mpc \in Boot \ {"hart_irq_enable"} => pending' = {}
    BY <1>1 DEF ByteArrives, Forward
  <2>3. mpc \notin Boot \ {"hart_irq_enable"} => pending' = IF tpc \in Serving THEN {} ELSE {IRQ_SERIAL}
    BY <1>1 DEF ByteArrives, Forward
  <2> QED
    BY <1>1, <2>1, <2>2, <2>3 DEF ByteArrives
<1>2. CASE TimerExpires
  BY <1>2 DEF TimerExpires
<1>3. CASE BootTrapSetup
  BY <1>3 DEF BootTrapSetup, Main, trap_setup
<1>4. CASE BootTimer
  BY <1>4 DEF BootTimer, Main, timer_irq_enable
<1>5. CASE serial_init
  BY <1>5 DEF serial_init, Main, spin_init, WriteFcr
<1>6. CASE serial_irq_enable
  BY <1>6
     DEF serial_irq_enable, Main, WriteIer, Forward, plic_irq_set_priority,
     plic_hart_set_threshold, plic_hart_enable_irq
<1>7. CASE BootIrqEnable
  BY <1>7 DEF BootIrqEnable, Main, hart_irq_enable
<1>8. CASE ReadIrqSave
  BY <1>8 DEF ReadIrqSave, Main
<1>9. CASE ReadIrqDisable
  BY <1>9 DEF ReadIrqDisable, Main, hart_irq_disable
<1>10. CASE ReadLock
  BY <1>10 DEF ReadLock, Main, spin_lock
<1>11. CASE ReadCopy
  BY <1>11 DEF ReadCopy, Main
<1>12. CASE ReadCount
  BY <1>12 DEF ReadCount, Main
<1>13. CASE ReadReset
  BY <1>13 DEF ReadReset, Main
<1>14. CASE ReadUnlock
  BY <1>14 DEF ReadUnlock, Main, spin_unlock
<1>15. CASE ReadIrqRestore
  BY <1>15 DEF ReadIrqRestore, Main, hart_irq_restore
<1>16. CASE Process
  BY <1>16 DEF Process, Main, timer_irq_enable
<1>17. CASE ProcessDone
  BY <1>17 DEF ProcessDone, Main
<1>18. CASE TakeTrap
  BY <1>18 DEF TakeTrap, Interrupted, TrapEnter
<1>19. CASE handle_trap
  BY <1>19 DEF handle_trap, Trap
<1>20. CASE timer_irq
  BY <1>20 DEF timer_irq, Trap, timer_irq_disable
<1>21. CASE IrqClaim
  BY <1>21, ClaimedSerial DEF IrqClaim, Trap, plic_hart_claim_irq
<1>22. CASE IrqLock
  BY <1>22 DEF IrqLock, Trap, spin_lock
<1>23. CASE IrqStore
  BY <1>23, EmptyRx DEF IrqStore, Trap, ReadRbr, RbrByte
<1>24. CASE IrqUnlock
  BY <1>24 DEF IrqUnlock, Trap, spin_unlock
<1>25. CASE IrqComplete
  BY <1>25 DEF IrqComplete, Trap, plic_hart_complete_irq, DataReady
<1>26. CASE TrapReturn
  BY <1>26 DEF TrapReturn, Trap, Sret
<1>27. CASE UNCHANGED vars
  BY <1>27 DEF HandedOver
<1> QED
  BY <1>1, <1>2, <1>3, <1>4, <1>5, <1>6, <1>7, <1>8, <1>9, <1>10, <1>11, <1>12, <1>13,
     <1>14, <1>15, <1>16, <1>17, <1>18, <1>19, <1>20, <1>21, <1>22, <1>23, <1>24,
     <1>25, <1>26, <1>27
     DEF Next, MainNext, TrapNext

(* Every step keeps the loops of serial_read() and kmain within the buffers. *)
LEMMA LoopStep ==
  ASSUME IInv, [Next]_vars
  PROVE  LoopInv'
<1> USE IInv, PlicAssumption, UartAssumption, RxPathAssumption
     DEF IInv, LoopInv, MaskInv, TypeOK, MainTypeOK, DevTypeOK, UartTypeOK
<1>1. CASE ByteArrives
  BY <1>1 DEF ByteArrives, Receive, Forward
<1>2. CASE TimerExpires
  BY <1>2 DEF TimerExpires
<1>3. CASE BootTrapSetup
  BY <1>3 DEF BootTrapSetup, Main, trap_setup
<1>4. CASE BootTimer
  BY <1>4 DEF BootTimer, Main, timer_irq_enable
<1>5. CASE serial_init
  BY <1>5 DEF serial_init, Main, spin_init, WriteFcr
<1>6. CASE serial_irq_enable
  BY <1>6
     DEF serial_irq_enable, Main, WriteIer, Forward, plic_irq_set_priority,
     plic_hart_set_threshold, plic_hart_enable_irq
<1>7. CASE BootIrqEnable
  BY <1>7 DEF BootIrqEnable, Main, hart_irq_enable
<1>8. CASE ReadIrqSave
  BY <1>8 DEF ReadIrqSave, Main
<1>9. CASE ReadIrqDisable
  BY <1>9 DEF ReadIrqDisable, Main, hart_irq_disable
<1>10. CASE ReadLock
  BY <1>10 DEF ReadLock, Main, spin_lock
<1>11. CASE ReadCopy
  BY <1>11 DEF ReadCopy, Main
<1>12. CASE ReadCount
  BY <1>12 DEF ReadCount, Main
<1>13. CASE ReadReset
  BY <1>13 DEF ReadReset, Main
<1>14. CASE ReadUnlock
  BY <1>14 DEF ReadUnlock, Main, spin_unlock
<1>15. CASE ReadIrqRestore
  BY <1>15 DEF ReadIrqRestore, Main, hart_irq_restore
<1>16. CASE Process
  BY <1>16 DEF Process, Main, timer_irq_enable
<1>17. CASE ProcessDone
  BY <1>17 DEF ProcessDone, Main
<1>18. CASE TakeTrap
  BY <1>18 DEF TakeTrap, Interrupted, TrapEnter
<1>19. CASE handle_trap
  BY <1>19 DEF handle_trap, Trap
<1>20. CASE timer_irq
  BY <1>20 DEF timer_irq, Trap, timer_irq_disable
<1>21. CASE IrqClaim
  BY <1>21 DEF IrqClaim, Trap, plic_hart_claim_irq
<1>22. CASE IrqLock
  BY <1>22 DEF IrqLock, Trap, spin_lock
<1>23. CASE IrqStore
  BY <1>23 DEF IrqStore, Trap, ReadRbr, RbrByte
<1>24. CASE IrqUnlock
  BY <1>24 DEF IrqUnlock, Trap, spin_unlock
<1>25. CASE IrqComplete
  BY <1>25 DEF IrqComplete, Trap, plic_hart_complete_irq, DataReady
<1>26. CASE TrapReturn
  BY <1>26 DEF TrapReturn, Trap, Sret
<1>27. CASE UNCHANGED vars
  BY <1>27 DEF HandedOver
<1> QED
  BY <1>1, <1>2, <1>3, <1>4, <1>5, <1>6, <1>7, <1>8, <1>9, <1>10, <1>11, <1>12, <1>13,
     <1>14, <1>15, <1>16, <1>17, <1>18, <1>19, <1>20, <1>21, <1>22, <1>23, <1>24,
     <1>25, <1>26, <1>27
     DEF Next, MainNext, TrapNext

(* The step of kmain's loop moves the front of the queue to the shell. *)
LEMMA InOrderProcess ==
  ASSUME InOrder, MainTypeOK, DevTypeOK, UartTypeOK, LoopInv, Process
  PROVE  InOrder'
BY EmptyRx
     DEF InOrder, Process, Main, HandedOver, MainTypeOK, DevTypeOK, UartTypeOK, LoopInv

(* When kmain's loop ends nothing is left in input_buf. *)
LEMMA InOrderProcessDone ==
  ASSUME InOrder, MainTypeOK, LoopInv, ProcessDone
  PROVE  InOrder'
<1>1. HandedOver = 0 /\ HandedOver' = 0
  BY DEF ProcessDone, Main, HandedOver, MainTypeOK, LoopInv
<1> QED
  BY <1>1 DEF InOrder, ProcessDone, Main, MainTypeOK

(* A byte that arrives is the last one. *)
LEMMA InOrderByteArrives ==
  ASSUME InOrder, MainTypeOK, DevTypeOK, UartTypeOK, LoopInv, ByteArrives
  PROVE  InOrder'
<1>1. /\ HandedOver' = HandedOver /\ consumed' = consumed /\ i' = i /\ input_buf' = input_buf
      /\ len' = len /\ buf' = buf /\ Open' = Open /\ rxcount' = rxcount + 1
  BY DEF ByteArrives, Receive, HandedOver
<1>2. Open => rx' = Append(rx, rxcount) /\ Len(rx') = Len(rx) + 1
  BY ReceiveRx, AppendRx DEF ByteArrives, LoopInv
<1>3. /\ HandedOver \in Int /\ len \in Nat /\ consumed \in Nat /\ i \in Nat
      /\ Len(rx) \in Nat /\ rxcount \in Nat
  BY EmptyRx DEF HandedOver, MainTypeOK, DevTypeOK, UartTypeOK
<1>4. ASSUME Open, NEW k \in 1..Len(rx')
      PROVE  rx'[k] = consumed + HandedOver + len + (k - 1)
  <2>1. CASE k = Len(rx) + 1
    BY <1>2, <1>3, <1>4, <2>1, AppendRx DEF InOrder
  <2>2. CASE k \in 1..Len(rx)
    BY <1>2, <1>3, <1>4, <2>2, AppendRx DEF InOrder
  <2> QED
    BY <1>2, <1>3, <1>4, <2>1, <2>2
<1> QED
  BY <1>1, <1>2, <1>3, <1>4 DEF InOrder

(* serial_irq() moves the first byte of the UART to the end of the buffer. *)
LEMMA InOrderStore ==
  ASSUME InOrder, MainTypeOK, DevTypeOK, UartTypeOK, Open, rx # <<>>, IrqStore
  PROVE  InOrder'
<1>1. CASE len < SERIAL_BUF_SIZE
  <2>1. /\ HandedOver' = HandedOver /\ consumed' = consumed /\ i' = i
        /\ input_buf' = input_buf /\ Open' /\ rxcount' = rxcount
    BY DEF IrqStore, Trap, HandedOver
  <2>2. /\ rx' = Tail(rx) /\ Len(rx') = Len(rx) - 1
        /\ len' = len + 1 /\ buf' = [buf EXCEPT ![len] = rx[1]]
    BY <1>1, EmptyRx DEF IrqStore, ReadRbr, RbrByte
  <2>3. /\ HandedOver \in Int /\ len \in Nat /\ consumed \in Nat /\ i \in Nat
        /\ Len(rx) \in Nat /\ Len(rx) > 0 /\ rxcount \in Nat
        /\ len \in BufIndex /\ buf \in [BufIndex -> Nat]
    BY <1>1, EmptyRx, RxPathAssumption DEF HandedOver, MainTypeOK, DevTypeOK, UartTypeOK
  <2>4. rx[1] = consumed + HandedOver + len
    BY <2>3 DEF InOrder
  <2>5. ASSUME NEW k \in 0..(len' - 1)
        PROVE  buf'[k] = consumed + HandedOver + k
    <3>1. CASE k = len
      BY <2>2, <2>3, <2>4, <3>1
    <3>2. CASE k \in 0..(len - 1)
      BY <2>2, <2>3, <3>2 DEF InOrder
    <3> QED
      BY <2>2, <2>3, <3>1, <3>2
  <2>6. \A k \in 1..Len(rx') : rx'[k] = consumed + HandedOver + len' + (k - 1)
    BY <2>2, <2>3, EmptyRx DEF InOrder
  <2> QED
    BY <2>1, <2>2, <2>3, <2>5, <2>6 DEF InOrder
<1>2. CASE ~(len < SERIAL_BUF_SIZE)
  BY <1>2 DEF InOrder, HandedOver, IrqStore, Trap
<1> QED
  BY <1>1, <1>2

(* Every step keeps the bytes in order. *)
LEMMA InOrderStep ==
  ASSUME IInv, [Next]_vars
  PROVE  InOrder'
<1> USE IInv, PlicAssumption, UartAssumption, RxPathAssumption
     DEF IInv, InOrder, LoopInv, MaskInv, HandshakeInv, TypeOK, MainTypeOK, DevTypeOK,
     UartTypeOK, HandedOver
<1>1. CASE ByteArrives
  BY <1>1, InOrderByteArrives
<1>2. CASE TimerExpires
  BY <1>2 DEF TimerExpires
<1>3. CASE BootTrapSetup
  BY <1>3 DEF BootTrapSetup, Main, trap_setup
<1>4. CASE BootTimer
  BY <1>4 DEF BootTimer, Main, timer_irq_enable
<1>5. CASE serial_init
  BY <1>5 DEF serial_init, Main, spin_init, WriteFcr
<1>6. CASE serial_irq_enable
  BY <1>6
     DEF serial_irq_enable, Main, WriteIer, Forward, plic_irq_set_priority,
     plic_hart_set_threshold, plic_hart_enable_irq
<1>7. CASE BootIrqEnable
  BY <1>7 DEF BootIrqEnable, Main, hart_irq_enable
<1>8. CASE ReadIrqSave
  BY <1>8 DEF ReadIrqSave, Main
<1>9. CASE ReadIrqDisable
  BY <1>9 DEF ReadIrqDisable, Main, hart_irq_disable
<1>10. CASE ReadLock
  BY <1>10 DEF ReadLock, Main, spin_lock
<1>11. CASE ReadCopy
  BY <1>11 DEF ReadCopy, Main
<1>12. CASE ReadCount
  BY <1>12 DEF ReadCount, Main
<1>13. CASE ReadReset
  BY <1>13 DEF ReadReset, Main
<1>14. CASE ReadUnlock
  BY <1>14 DEF ReadUnlock, Main, spin_unlock
<1>15. CASE ReadIrqRestore
  BY <1>15 DEF ReadIrqRestore, Main, hart_irq_restore
<1>16. CASE Process
  BY <1>16, InOrderProcess
<1>17. CASE ProcessDone
  BY <1>17, InOrderProcessDone
<1>18. CASE TakeTrap
  BY <1>18 DEF TakeTrap, Interrupted, TrapEnter
<1>19. CASE handle_trap
  BY <1>19 DEF handle_trap, Trap
<1>20. CASE timer_irq
  BY <1>20 DEF timer_irq, Trap, timer_irq_disable
<1>21. CASE IrqClaim
  BY <1>21 DEF IrqClaim, Trap, plic_hart_claim_irq
<1>22. CASE IrqLock
  BY <1>22 DEF IrqLock, Trap, spin_lock
<1>23. CASE IrqStore
  BY <1>23, InOrderStore DEF IrqStore, Trap
<1>24. CASE IrqUnlock
  BY <1>24 DEF IrqUnlock, Trap, spin_unlock
<1>25. CASE IrqComplete
  BY <1>25 DEF IrqComplete, Trap, plic_hart_complete_irq, DataReady
<1>26. CASE TrapReturn
  BY <1>26 DEF TrapReturn, Trap, Sret
<1>27. CASE UNCHANGED vars
  BY <1>27 DEF HandedOver
<1> QED
  BY <1>1, <1>2, <1>3, <1>4, <1>5, <1>6, <1>7, <1>8, <1>9, <1>10, <1>11, <1>12, <1>13,
     <1>14, <1>15, <1>16, <1>17, <1>18, <1>19, <1>20, <1>21, <1>22, <1>23, <1>24,
     <1>25, <1>26, <1>27
     DEF Next, MainNext, TrapNext

-----------------------------------------------------------------------------
(* The inductive invariant holds initially. *)
LEMMA InitInv == Init => IInv
<1> SUFFICES ASSUME Init PROVE IInv
  OBVIOUS
<1> USE PlicAssumption, UartAssumption, RxPathAssumption
    DEF Init, HartInit, PlicInit, UartInit
<1>1. TypeOK
  BY DEF TypeOK, HartTypeOK, PlicTypeOK, UartTypeOK, DevTypeOK, MainTypeOK, TrapTypeOK
<1>2. MaskInv /\ LockInv /\ LoopInv
  BY DEF MaskInv, LockInv, LoopInv
<1>3. HandshakeInv
  BY DEF HandshakeInv
<1>4. InOrder
  BY DEF InOrder
<1> QED
  BY <1>1, <1>2, <1>3, <1>4 DEF IInv

(* Every step keeps the inductive invariant. *)
LEMMA StepInv == IInv /\ [Next]_vars => IInv'
<1> SUFFICES ASSUME IInv, [Next]_vars PROVE IInv'
  OBVIOUS
<1>1. TypeOK'
  BY HardwareTypeStep, DevTypeStep, MainTypeStep, TrapTypeStep DEF TypeOK
<1> QED
  BY <1>1, MaskStep, LockStep, HandshakeStep, LoopStep, InOrderStep DEF IInv

(* The inductive invariant holds in every reachable state. *)
THEOREM Invariance == Spec => []IInv
BY InitInv, StepInv, PTL DEF Spec

(* The driver's buffer and kmain's input_buf are never overrun, and no     *)
(* trap is taken before stvec has been set, whatever the buffer's size.    *)
THEOREM TypeCorrect == Spec => []TypeOK
<1>1. IInv => TypeOK
  BY DEF IInv
<1> QED
  BY <1>1, Invariance, PTL

(* From the UART through serial_irq() and serial_read() to the shell no    *)
(* byte is lost, duplicated or reordered.                                  *)
THEOREM ByteOrder == Spec => []InOrder
<1>1. IInv => InOrder
  BY DEF IInv
<1> QED
  BY <1>1, Invariance, PTL

(* serial_irq() never finds the lock of the driver taken.                  *)
THEOREM NoSelfDeadlock == Spec => []HandlerNeverSpins
<1>1. IInv => HandlerNeverSpins
  BY DEF IInv, LockInv, MaskInv, HandlerNeverSpins, TypeOK, DevTypeOK
<1> QED
  BY <1>1, Invariance, PTL

(* A byte in the UART always has an interrupt due or being served.         *)
THEOREM InterruptPerByte == Spec => []NoLostInterrupt
<1>1. IInv => NoLostInterrupt
  BY DEF IInv, HandshakeInv, NoLostInterrupt, ExternalIrq, ExternalPending, TypeOK,
     MainTypeOK
<1> QED
  BY <1>1, Invariance, PTL

(* serial_read() gives interrupts back to the shell as it found them.      *)
THEOREM MaskingBalanced == Spec => []InterruptsRestored
<1>1. IInv => InterruptsRestored
  BY DEF IInv, MaskInv, InterruptsRestored
<1> QED
  BY <1>1, Invariance, PTL

-----------------------------------------------------------------------------
(* The receive path implements a queue.                                    *)

(* The bytes with the numbers a to b - 1, in order of arrival. *)
Run(a, b) == [k \in 1..(b - a) |-> a + k - 1]

(* A run of bytes is a sequence. *)
LEMMA RunSeq ==
  ASSUME NEW a \in Nat, NEW b \in Nat, a <= b
  PROVE  /\ Run(a, b) \in Seq(Nat) /\ Len(Run(a, b)) = b - a
         /\ \A k \in 1..(b - a) : Run(a, b)[k] = a + k - 1
<1>1. b - a \in Nat
  OBVIOUS
<1>2. \A k \in 1..(b - a) : a + k - 1 \in Nat
  OBVIOUS
<1> QED
  BY <1>1, <1>2 DEF Run

(* The byte that arrives next extends the run. *)
LEMMA RunAppend ==
  ASSUME NEW a \in Nat, NEW b \in Nat, a <= b
  PROVE  Run(a, b + 1) = Append(Run(a, b), b)
<1> DEFINE s == Run(a, b)
           t == Append(s, b)
           u == Run(a, b + 1)
<1>1. s \in Seq(Nat) /\ Len(s) = b - a /\ \A k \in 1..(b - a) : s[k] = a + k - 1
  BY RunSeq
<1>2. u \in Seq(Nat) /\ Len(u) = b + 1 - a /\ \A k \in 1..(b + 1 - a) : u[k] = a + k - 1
  BY RunSeq
<1> HIDE DEF s, u
<1>3. /\ t \in Seq(Nat) /\ Len(t) = Len(s) + 1 /\ t[Len(s) + 1] = b
      /\ \A k \in 1..Len(s) : t[k] = s[k]
  BY <1>1, AppendProperties
<1> HIDE DEF t
<1>4. ASSUME NEW k \in 1..Len(u) PROVE u[k] = t[k]
  <2>1. CASE k = b + 1 - a
    BY <1>1, <1>2, <1>3, <2>1
  <2>2. CASE k \in 1..(b - a)
    BY <1>1, <1>2, <1>3, <2>2
  <2> QED
    BY <1>2, <2>1, <2>2
<1>5. Len(u) = Len(t)
  BY <1>1, <1>2, <1>3
<1>6. u = t
  BY <1>2, <1>3, <1>4, <1>5, SeqEqual
<1> QED
  BY <1>6 DEF s, t, u

(* Taking the first byte shortens the run. *)
LEMMA RunTail ==
  ASSUME NEW a \in Nat, NEW b \in Nat, a < b
  PROVE  Run(a, b) # <<>> /\ Run(a + 1, b) = Tail(Run(a, b))
<1> DEFINE s == Run(a, b)
           t == Tail(s)
           u == Run(a + 1, b)
<1>1. s \in Seq(Nat) /\ Len(s) = b - a /\ \A k \in 1..(b - a) : s[k] = a + k - 1
  BY RunSeq
<1>2. /\ u \in Seq(Nat) /\ Len(u) = b - (a + 1)
      /\ \A k \in 1..(b - (a + 1)) : u[k] = a + 1 + k - 1
  BY RunSeq
<1> HIDE DEF s, u
<1>3. s # <<>>
  BY <1>1, EmptySeq
<1>4. /\ t \in Seq(Nat) /\ Len(t) = Len(s) - 1
      /\ \A k \in 1..Len(t) : t[k] = s[k + 1]
  BY <1>1, <1>3, HeadTailProperties
<1> HIDE DEF t
<1>5. \A k \in 1..Len(u) : u[k] = t[k]
  BY <1>1, <1>2, <1>4
<1>6. u = t
  BY <1>1, <1>2, <1>4, <1>5, SeqEqual
<1> QED
  BY <1>3, <1>6 DEF s, t, u

(* The bytes in input_buf, in the driver's buffer and in the UART are, one *)
(* after the other, the run of the bytes that arrived and were not taken.  *)
LEMMA UndeliveredRun ==
  IInv /\ Open => Undelivered = Run(consumed, rxcount) /\ consumed <= rxcount
<1> SUFFICES ASSUME IInv, Open
             PROVE  Undelivered = Run(consumed, rxcount) /\ consumed <= rxcount
  OBVIOUS
<1> DEFINE h == HandedOver
           s1 == [k \in 1..h |-> input_buf[i + k - 1]]
           s2 == [k \in 1..len |-> buf[k - 1]]
           s12 == s1 \o s2
           s == s12 \o rx
           r == Run(consumed, rxcount)
<1>1. /\ h \in Nat /\ len \in Nat /\ consumed \in Nat /\ i \in Nat /\ rxcount \in Nat
      /\ rx \in Seq(Nat) /\ Len(rx) \in Nat
  BY EmptyRx DEF IInv, LoopInv, HandedOver, TypeOK, MainTypeOK, DevTypeOK, UartTypeOK
<1>2. /\ rxcount = consumed + h + len + Len(rx)
      /\ \A k \in i..(i + h - 1) : input_buf[k] = consumed + (k - i)
      /\ \A k \in 0..(len - 1) : buf[k] = consumed + h + k
      /\ \A k \in 1..Len(rx) : rx[k] = consumed + h + len + (k - 1)
  BY DEF IInv, InOrder
<1> HIDE DEF h
<1>3. \A k \in 1..h : input_buf[i + k - 1] = consumed + k - 1
  <2> TAKE k \in 1..h
  <2>1. i + k - 1 \in i..(i + h - 1)
    BY <1>1
  <2> QED
    BY <1>1, <1>2, <2>1
<1>4. \A k \in 1..len : buf[k - 1] = consumed + h + k - 1
  <2> TAKE k \in 1..len
  <2>1. k - 1 \in 0..(len - 1)
    BY <1>1
  <2> QED
    BY <1>1, <1>2, <2>1
<1>5. s1 \in Seq(Nat) /\ Len(s1) = h /\ \A k \in 1..h : s1[k] = consumed + k - 1
  <2>1. ASSUME NEW k \in 1..h PROVE input_buf[i + k - 1] \in Nat
    <3>1. input_buf[i + k - 1] = consumed + k - 1
      BY <1>3
    <3>2. consumed + k - 1 \in Nat
      BY <1>1
    <3> QED
      BY <3>1, <3>2
  <2>2. s1 \in Seq(Nat) /\ Len(s1) = h
    BY <1>1, <2>1
  <2> QED
    BY <1>3, <2>2
<1>6. s2 \in Seq(Nat) /\ Len(s2) = len /\ \A k \in 1..len : s2[k] = consumed + h + k - 1
  BY <1>1, <1>4
<1> HIDE DEF s1, s2
<1>7. /\ s12 \in Seq(Nat) /\ Len(s12) = h + len
      /\ \A k \in 1..(h + len) : s12[k] = IF k <= h THEN s1[k] ELSE s2[k - h]
  <2>1. /\ s12 \in Seq(Nat) /\ Len(s12) = Len(s1) + Len(s2)
        /\ \A k \in 1..(Len(s1) + Len(s2)) :
             s12[k] = IF k <= Len(s1) THEN s1[k] ELSE s2[k - Len(s1)]
    BY <1>5, <1>6, ConcatProperties
  <2> QED
    BY <1>5, <1>6, <2>1
<1>8. \A k \in 1..(h + len) : s12[k] = consumed + k - 1
  BY <1>1, <1>5, <1>6, <1>7
<1> HIDE DEF s12
<1>9. /\ s \in Seq(Nat) /\ Len(s) = h + len + Len(rx)
      /\ \A k \in 1..(h + len + Len(rx)) :
           s[k] = IF k <= h + len THEN s12[k] ELSE rx[k - (h + len)]
  <2>1. /\ s \in Seq(Nat) /\ Len(s) = Len(s12) + Len(rx)
        /\ \A k \in 1..(Len(s12) + Len(rx)) :
             s[k] = IF k <= Len(s12) THEN s12[k] ELSE rx[k - Len(s12)]
    BY <1>1, <1>7, ConcatProperties
  <2> QED
    BY <1>7, <2>1
<1>10. \A k \in 1..(h + len + Len(rx)) : s[k] = consumed + k - 1
  BY <1>1, <1>2, <1>8, <1>9
<1> HIDE DEF s
<1>11. consumed <= rxcount /\ rxcount - consumed = h + len + Len(rx)
  BY <1>1, <1>2
<1>12. /\ r \in Seq(Nat) /\ Len(r) = rxcount - consumed
       /\ \A k \in 1..(rxcount - consumed) : r[k] = consumed + k - 1
  BY <1>1, <1>11, RunSeq
<1> HIDE DEF r
<1>13. s = r
  <2>1. Len(s) = Len(r) /\ \A k \in 1..Len(s) : s[k] = r[k]
    BY <1>1, <1>9, <1>10, <1>11, <1>12
  <2> QED
    BY <1>9, <1>12, <2>1, SeqEqual
<1> QED
  BY <1>11, <1>13 DEF h, s1, s2, s12, s, r, Undelivered

(* Only an arriving byte, the step of kmain's loop and serial_init()       *)
(* change what the queue is made of.                                       *)
LEMMA OtherSteps ==
  ASSUME IInv, [Next]_vars, ~ByteArrives, ~Process, ~serial_init
  PROVE  Open' = Open /\ rxcount' = rxcount /\ consumed' = consumed
<1> USE DEF IInv, MaskInv, Main, Trap
<1>1. CASE TimerExpires \/ UNCHANGED vars
  BY <1>1 DEF TimerExpires
<1>2. CASE MainNext
  BY <1>2
     DEF MainNext, BootTrapSetup, BootTimer, serial_irq_enable, BootIrqEnable, ReadIrqSave,
       ReadIrqDisable, ReadLock, ReadCopy, ReadCount, ReadReset, ReadUnlock,
       ReadIrqRestore, ProcessDone
<1>3. CASE TrapNext
  BY <1>3
     DEF TrapNext, TakeTrap, handle_trap, timer_irq, IrqClaim, IrqLock, IrqStore,
       IrqUnlock, IrqComplete, TrapReturn
<1> QED
  BY <1>1, <1>2, <1>3 DEF Next

(* Every step is a step of the queue, or none. *)
LEMMA QueueStep ==
  ASSUME IInv, IInv', [Next]_vars,
         Open => Undelivered = Run(consumed, rxcount) /\ consumed <= rxcount,
         Open' => Undelivered' = Run(consumed', rxcount') /\ consumed' <= rxcount'
  PROVE  [Queue!Next]_(Queue!vars)
<1> DEFINE q == IF Open THEN Undelivered ELSE <<>>
<1>0. consumed \in Nat /\ rxcount \in Nat /\ consumed' \in Nat /\ rxcount' \in Nat
  BY DEF IInv, TypeOK, MainTypeOK, UartTypeOK
<1>1. CASE ByteArrives
  <2>1. Open' = Open /\ rxcount' = rxcount + 1 /\ consumed' = consumed
    BY <1>1 DEF ByteArrives, Receive
  <2>2. q' = IF Open THEN Append(q, rxcount) ELSE q
    BY <1>0, <2>1, RunAppend
  <2>3. Queue!Arrive
    BY <2>1, <2>2 DEF Queue!Arrive
  <2> QED
    BY <2>3 DEF Queue!Next
<1>2. CASE Process
  <2>1. Open /\ Open' /\ rxcount' = rxcount /\ consumed' = consumed + 1
    BY <1>2 DEF Process, Main
  <2>2. consumed < rxcount
    BY <1>0, <2>1
  <2>3. q # <<>> /\ q' = Tail(q)
    BY <1>0, <2>1, <2>2, RunTail
  <2>4. Queue!Take
    BY <2>1, <2>3 DEF Queue!Take
  <2> QED
    BY <2>4 DEF Queue!Next
<1>3. CASE serial_init
  <2>1. ~Open /\ Open' /\ rxcount' = rxcount /\ consumed' = rxcount
    BY <1>3 DEF serial_init, Main
  <2>2. q' = <<>>
    <3>0. rxcount <= rxcount /\ rxcount - rxcount = 0
      BY <1>0
    <3>1. Len(Run(rxcount, rxcount)) = 0 /\ Run(rxcount, rxcount) \in Seq(Nat)
      BY <1>0, <3>0, RunSeq
    <3>2. Run(rxcount, rxcount) = <<>>
      BY <3>1, EmptySeq
    <3> QED
      BY <2>1, <3>2
  <2>3. Queue!Open
    BY <2>1, <2>2 DEF Queue!Open
  <2> QED
    BY <2>3 DEF Queue!Next
<1>4. CASE ~ByteArrives /\ ~Process /\ ~serial_init
  <2>1. Open' = Open /\ rxcount' = rxcount /\ consumed' = consumed
    BY <1>4, OtherSteps
  <2>2. q' = q
    BY <2>1
  <2> QED
    BY <2>1, <2>2 DEF Queue!vars
<1> QED
  BY <1>1, <1>2, <1>3, <1>4

(* The receive path implements the queue: interrupts, the lock, the two    *)
(* buffers and the copy between them are invisible to the shell.           *)
THEOREM Refinement == Spec => ImplementsQueue
<1>1. Init => Queue!Init
  BY DEF Init, UartInit, Queue!Init
<1>2. (IInv /\ Open => Undelivered = Run(consumed, rxcount) /\ consumed <= rxcount)'
  BY UndeliveredRun, PTL
<1>3. IInv /\ [Next]_vars => [Queue!Next]_(Queue!vars)
  <2> SUFFICES ASSUME IInv, [Next]_vars PROVE [Queue!Next]_(Queue!vars)
    OBVIOUS
  <2>1. IInv'
    BY StepInv
  <2>2. Open => Undelivered = Run(consumed, rxcount) /\ consumed <= rxcount
    BY UndeliveredRun
  <2>3. Open' => Undelivered' = Run(consumed', rxcount') /\ consumed' <= rxcount'
    BY <1>2, <2>1 DEF Run
  <2> QED
    BY <2>1, <2>2, <2>3, QueueStep
<1> QED
  BY <1>1, <1>3, Invariance, PTL DEF Spec, ImplementsQueue, Queue!Spec
=============================================================================
