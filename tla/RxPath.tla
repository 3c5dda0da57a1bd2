------------------------------- MODULE RxPath -------------------------------
(***************************************************************************)
(* The path of an input byte through the kernel: UART, PLIC, trap,         *)
(* serial_irq(), the driver's buffer, serial_read(), the shell.            *)
(*                                                                         *)
(* There is one hart and two contexts on it.  The main context runs kmain: *)
(* its boot sequence, then forever serial_read() and a loop over the bytes *)
(* it returned.  The trap context runs trap_entry, handle_trap and the     *)
(* interrupt handlers.  An interrupt that is pending, enabled and not      *)
(* masked is taken before the next instruction of the main context, and    *)
(* the trap context runs until sret.  A step is one access to state the    *)
(* other context or the hardware can see.                                  *)
(*                                                                         *)
(* What the shell does with a byte is in the module Console; here a        *)
(* command may arm the timer, which is how timer interrupts come about.    *)
(***************************************************************************)
EXTENDS Hart, Plic, UartRx, Spinlock

CONSTANTS
  IRQ_SERIAL,       \* 10
  SERIAL_BUF_SIZE   \* 256; also the size of kmain's input_buf

ASSUME RxPathAssumption ==
  /\ IRQ_SERIAL \in Irqs
  /\ SERIAL_BUF_SIZE \in Nat \ {0}

VARIABLES
  \* struct serialdev (with the lock word of Spinlock)
  buf, len,
  \* the main context
  mpc,           \* next step of kmain and of the functions it calls
  flags,         \* sstatus as spin_lock_irqsave() saved it
  input_buf,     \* kmain's buffer, filled by serial_read()
  read_bytes,    \* number of bytes serial_read() returned
  i,             \* loop index, first of serial_read(), then of kmain
  consumed,      \* history: number of the next byte the shell must get
  \* the trap context
  tpc,           \* next step of the trap context, "none" outside a trap
  scause,        \* cause of the last trap
  irq            \* what plic_hart_claim_irq() returned

devVars  == <<buf, len, lock>>
mainVars == <<mpc, flags, input_buf, read_bytes, i, consumed>>
trapVars == <<tpc, scause, irq>>
vars     == <<hartVars, plicVars, uartVars, devVars, mainVars, trapVars>>

BufIndex == 0..(SERIAL_BUF_SIZE - 1)

Init ==
  /\ HartInit
  /\ PlicInit
  /\ UartInit
  /\ buf = [k \in BufIndex |-> 0] /\ len = 0 /\ lock = 0    \* cleared .bss
  /\ mpc = "trap_setup"
  /\ flags = {}
  /\ input_buf = [k \in BufIndex |-> 0]
  /\ read_bytes = 0 /\ i = 0 /\ consumed = 0
  /\ tpc = "none" /\ scause = "none" /\ irq = 0

-----------------------------------------------------------------------------
(* Where the two contexts are.                                             *)

Boot     == {"trap_setup", "timer_irq_enable", "serial_init",
             "serial_irq_enable", "hart_irq_enable"}
Unmasked == {"irq_save", "irq_disable", "process"}
Masked   == {"spin_lock", "copy", "reset", "spin_unlock", "irq_restore"}

(* handle_irq() between the claim and the completion of IRQ_SERIAL. *)
Serving == {"serial_irq", "store", "spin_unlock", "complete"}

(* serial_init() has run. *)
Open == mpc \notin {"trap_setup", "timer_irq_enable", "serial_init"}

(* Bytes that serial_read() has moved out of the driver's buffer and kmain *)
(* has not processed yet: input_buf[i..read_bytes-1].                      *)
HandedOver ==
  IF mpc \in {"spin_unlock", "irq_restore", "process"} THEN read_bytes - i ELSE 0

-----------------------------------------------------------------------------
(* The environment: input bytes, and the timer reaching stimecmp.          *)

ByteArrives ==
  /\ Receive
  /\ IF "ERBFI" \in ier THEN Forward(IRQ_SERIAL) ELSE UNCHANGED pending
  /\ UNCHANGED <<hartVars, prio, threshold, enabled, claimed, fcr, ier,
                 devVars, mainVars, trapVars>>

TimerExpires ==
  /\ sip # {"STIP"}
  /\ sip' = {"STIP"}
  /\ UNCHANGED <<sstatus, sie, stvec, plicVars, uartVars, devVars, mainVars, trapVars>>

-----------------------------------------------------------------------------
(* The main context.                                                       *)

ExternalIrq == {"SEIE"} \subseteq sie /\ ExternalPending
Interrupted == {"SIE"} \subseteq sstatus /\ (ExternalIrq \/ TimerIrq)

(* The main context executes its next instruction, from one pc to another. *)
Main(from, to) ==
  /\ tpc = "none" /\ ~Interrupted
  /\ mpc = from /\ mpc' = to
  /\ UNCHANGED trapVars

BootTrapSetup ==
  /\ Main("trap_setup", "timer_irq_enable")
  /\ trap_setup
  /\ UNCHANGED <<sstatus, sie, sip, plicVars, uartVars, devVars,
                 flags, input_buf, read_bytes, i, consumed>>

BootTimer ==
  /\ Main("timer_irq_enable", "serial_init")
  /\ timer_irq_enable
  /\ UNCHANGED <<sstatus, sip, stvec, plicVars, uartVars, devVars,
                 flags, input_buf, read_bytes, i, consumed>>

(* The bytes the UART already held are cleared: the shell will get the     *)
(* ones that arrive from now on.                                           *)
serial_init ==
  /\ Main("serial_init", "serial_irq_enable")
  /\ spin_init
  /\ len' = 0
  /\ WriteFcr
  /\ consumed' = rxcount
  /\ UNCHANGED <<hartVars, plicVars, ier, rxcount, buf, flags, input_buf, read_bytes, i>>

(* Interrupts are still off, so nothing can run between the five writes;   *)
(* the gateway sees the line of the UART when IER is written.              *)
serial_irq_enable ==
  /\ Main("serial_irq_enable", "hart_irq_enable")
  /\ WriteIer({"ERBFI"})
  /\ IF rx # <<>> THEN Forward(IRQ_SERIAL) ELSE UNCHANGED pending
  /\ plic_irq_set_priority(IRQ_SERIAL, 1)
  /\ plic_hart_set_threshold(0)
  /\ plic_hart_enable_irq(IRQ_SERIAL)
  /\ sie' = csr_set(sie, {"SEIE"})
  /\ UNCHANGED <<sstatus, sip, stvec, claimed, rx, fcr, rxcount, devVars,
                 flags, input_buf, read_bytes, i, consumed>>

BootIrqEnable ==
  /\ Main("hart_irq_enable", "irq_save")
  /\ hart_irq_enable
  /\ UNCHANGED <<sie, sip, stvec, plicVars, uartVars, devVars,
                 flags, input_buf, read_bytes, i, consumed>>

(* serial_read(): spin_lock_irqsave() is hart_irq_save(), which reads      *)
(* sstatus and then clears SIE, followed by spin_lock().                   *)
ReadIrqSave ==
  /\ Main("irq_save", "irq_disable")
  /\ flags' = sstatus
  /\ UNCHANGED <<hartVars, plicVars, uartVars, devVars, input_buf, read_bytes, i, consumed>>

(* Mutant: sstatus is saved after SIE has been cleared. *)
ReadIrqDisable_SavesAfter ==
  /\ Main("irq_disable", "spin_lock")
  /\ hart_irq_disable
  /\ flags' = csr_clear(sstatus, {"SIE"})
  /\ UNCHANGED <<sie, sip, stvec, plicVars, uartVars, devVars,
                 input_buf, read_bytes, i, consumed>>

ReadIrqDisable ==
  /\ Main("irq_disable", "spin_lock")
  /\ hart_irq_disable
  /\ UNCHANGED <<sie, sip, stvec, plicVars, uartVars, devVars,
                 flags, input_buf, read_bytes, i, consumed>>

ReadLock ==
  /\ Main("spin_lock", "copy")
  /\ spin_lock
  /\ i' = 0
  /\ UNCHANGED <<hartVars, plicVars, uartVars, buf, len,
                 flags, input_buf, read_bytes, consumed>>

ReadCopy ==
  /\ Main("copy", "copy")
  /\ i < len
  /\ input_buf' = [input_buf EXCEPT ![i] = buf[i]]
  /\ i' = i + 1
  /\ UNCHANGED <<hartVars, plicVars, uartVars, devVars, flags, read_bytes, consumed>>

(* Mutant: dev.len is reset before it is copied to ret. *)
ReadCount_ResetFirst ==
  /\ Main("copy", "reset")
  /\ ~(i < len)
  /\ read_bytes' = 0
  /\ i' = 0
  /\ UNCHANGED <<hartVars, plicVars, uartVars, devVars, flags, input_buf, consumed>>

(* The loop ends, ret = dev.len; i becomes the index of kmain's loop. *)
ReadCount ==
  /\ Main("copy", "reset")
  /\ ~(i < len)
  /\ read_bytes' = len
  /\ i' = 0
  /\ UNCHANGED <<hartVars, plicVars, uartVars, devVars, flags, input_buf, consumed>>

ReadReset ==
  /\ Main("reset", "spin_unlock")
  /\ len' = 0
  /\ UNCHANGED <<hartVars, plicVars, uartVars, buf, lock,
                 flags, input_buf, read_bytes, i, consumed>>

ReadUnlock ==
  /\ Main("spin_unlock", "irq_restore")
  /\ spin_unlock
  /\ UNCHANGED <<hartVars, plicVars, uartVars, buf, len,
                 flags, input_buf, read_bytes, i, consumed>>

ReadIrqRestore ==
  /\ Main("irq_restore", "process")
  /\ hart_irq_restore(flags)
  /\ UNCHANGED <<sie, sip, stvec, plicVars, uartVars, devVars,
                 flags, input_buf, read_bytes, i, consumed>>

(* The shell takes current_char = input_buf[i].  If it ends an alarm       *)
(* command, timer_set_alarm() moves stimecmp into the future and           *)
(* timer_irq_enable() sets STIE.                                           *)
Process ==
  /\ Main("process", "process")
  /\ i < read_bytes
  /\ i' = i + 1
  /\ consumed' = consumed + 1
  /\ \/ UNCHANGED <<sie, sip>>
     \/ sip' = {} /\ timer_irq_enable
  /\ UNCHANGED <<sstatus, stvec, plicVars, uartVars, devVars,
                 flags, input_buf, read_bytes>>

ProcessDone ==
  /\ Main("process", "irq_save")
  /\ ~(i < read_bytes)
  /\ UNCHANGED <<hartVars, plicVars, uartVars, devVars,
                 flags, input_buf, read_bytes, i, consumed>>

MainNext ==
  \/ BootTrapSetup \/ BootTimer \/ serial_init \/ serial_irq_enable \/ BootIrqEnable
  \/ ReadIrqSave \/ ReadIrqDisable \/ ReadLock \/ ReadCopy \/ ReadCount
  \/ ReadReset \/ ReadUnlock \/ ReadIrqRestore
  \/ Process \/ ProcessDone

-----------------------------------------------------------------------------
(* The trap context.                                                       *)

(* The hart takes the interrupt, the external one first, and jumps to stvec. *)
TakeTrap ==
  /\ tpc = "none" /\ Interrupted
  /\ TrapEnter
  /\ scause' = IF ExternalIrq THEN "external" ELSE "timer"
  /\ tpc' = stvec
  /\ UNCHANGED <<sie, sip, stvec, plicVars, uartVars, devVars, mainVars, irq>>

Trap(from, to) ==
  /\ tpc = from /\ tpc' = to
  /\ UNCHANGED <<mainVars, scause>>

(* trap_entry saves the registers; handle_trap() and handle_irq() dispatch *)
(* on scause.                                                              *)
handle_trap ==
  /\ Trap("trap_entry", IF scause = "timer" THEN "timer_irq" ELSE "claim")
  /\ UNCHANGED <<hartVars, plicVars, uartVars, devVars, irq>>

timer_irq ==
  /\ Trap("timer_irq", "sret")
  /\ timer_irq_disable
  /\ UNCHANGED <<sstatus, sip, stvec, plicVars, uartVars, devVars, irq>>

IrqClaim ==
  /\ Trap("claim", IF ClaimedIrq = IRQ_SERIAL THEN "serial_irq" ELSE "sret")
  /\ irq' = ClaimedIrq
  /\ plic_hart_claim_irq
  /\ UNCHANGED <<hartVars, prio, threshold, enabled, uartVars, devVars>>

IrqLock ==
  /\ Trap("serial_irq", "store")
  /\ spin_lock
  /\ UNCHANGED <<hartVars, plicVars, uartVars, buf, len, irq>>

(* Mutant: <= for <. *)
IrqStore_OffByOne ==
  /\ Trap("store", "spin_unlock")
  /\ IF len <= SERIAL_BUF_SIZE
     THEN /\ buf' = [buf EXCEPT ![len] = RbrByte]
          /\ len' = len + 1
          /\ ReadRbr
     ELSE UNCHANGED <<buf, len, rx>>
  /\ UNCHANGED <<hartVars, plicVars, fcr, ier, rxcount, lock, irq>>

(* Mutant: RBR is read even if there is no room, and the byte dropped. *)
IrqStore_DropsWhenFull ==
  /\ Trap("store", "spin_unlock")
  /\ ReadRbr
  /\ IF len < SERIAL_BUF_SIZE
     THEN buf' = [buf EXCEPT ![len] = RbrByte] /\ len' = len + 1
     ELSE UNCHANGED <<buf, len>>
  /\ UNCHANGED <<hartVars, plicVars, fcr, ier, rxcount, lock, irq>>

(* A byte is taken from the UART only if the buffer has room for it. *)
IrqStore ==
  /\ Trap("store", "spin_unlock")
  /\ IF len < SERIAL_BUF_SIZE
     THEN /\ buf' = [buf EXCEPT ![len] = RbrByte]
          /\ len' = len + 1
          /\ ReadRbr
     ELSE UNCHANGED <<buf, len, rx>>
  /\ UNCHANGED <<hartVars, plicVars, fcr, ier, rxcount, lock, irq>>

IrqUnlock ==
  /\ Trap("spin_unlock", "complete")
  /\ spin_unlock
  /\ UNCHANGED <<hartVars, plicVars, uartVars, buf, len, irq>>

IrqComplete ==
  /\ Trap("complete", "sret")
  /\ plic_hart_complete_irq(irq, DataReady)
  /\ UNCHANGED <<hartVars, prio, threshold, enabled, uartVars, devVars, irq>>

(* trap_entry restores the registers and returns to the main context. *)
TrapReturn ==
  /\ Trap("sret", "none")
  /\ Sret
  /\ UNCHANGED <<sie, sip, stvec, plicVars, uartVars, devVars, irq>>

TrapNext ==
  \/ TakeTrap \/ handle_trap \/ timer_irq \/ IrqClaim
  \/ IrqLock \/ IrqStore \/ IrqUnlock \/ IrqComplete \/ TrapReturn

-----------------------------------------------------------------------------
Next == ByteArrives \/ TimerExpires \/ MainNext \/ TrapNext

Spec == Init /\ [][Next]_vars

(* The hart never stops executing instructions: in the main context when   *)
(* no interrupt preempts it, and in the trap context otherwise.  Nothing   *)
(* is assumed of the environment.                                          *)
FairSpec == Spec /\ WF_vars(MainNext) /\ WF_vars(TrapNext)

-----------------------------------------------------------------------------
(* Properties.                                                             *)

DevTypeOK ==
  /\ lock \in {0, 1}
  /\ buf \in [BufIndex -> Nat]
  /\ len \in 0..SERIAL_BUF_SIZE

MainTypeOK ==
  /\ mpc \in Boot \cup Unmasked \cup Masked
  /\ flags \subseteq {"SIE", "SPIE"}
  /\ input_buf \in [BufIndex -> Nat]
  /\ read_bytes \in 0..SERIAL_BUF_SIZE
  /\ i \in 0..SERIAL_BUF_SIZE
  /\ consumed \in Nat

TrapTypeOK ==
  /\ tpc \in {"none", "trap_entry", "timer_irq", "claim", "sret"} \cup Serving
  /\ scause \in {"none", "timer", "external"}
  /\ irq \in Irqs \cup {0}

(* The type invariant; len never exceeds the size of the driver's buffer,  *)
(* serial_read() never reports more than kmain's input_buf holds, and no   *)
(* trap is taken before stvec has been set.                                *)
TypeOK ==
  /\ HartTypeOK /\ PlicTypeOK /\ UartTypeOK
  /\ DevTypeOK /\ MainTypeOK /\ TrapTypeOK

(* Every byte that arrived since serial_init() and has not been processed  *)
(* by the shell is in exactly one place: in the part of input_buf kmain    *)
(* has yet to look at, in the driver's buffer, or in the UART; and in      *)
(* each place, and from place to place, bytes are in order of arrival.     *)
(* The hand-over in serial_read() (copy, count, reset, each a step of its  *)
(* own) and serial_irq() together neither lose, duplicate nor reorder.     *)
InOrder ==
  Open =>
    /\ rxcount = consumed + HandedOver + len + Len(rx)
    /\ \A k \in i..(i + HandedOver - 1) : input_buf[k] = consumed + (k - i)
    /\ \A k \in 0..(len - 1) : buf[k] = consumed + HandedOver + k
    /\ \A k \in 1..Len(rx) : rx[k] = consumed + HandedOver + len + (k - 1)

(* When serial_irq() reaches spin_lock() the lock is free.  With a single  *)
(* hart the holder could only be the interrupted serial_read(), which      *)
(* cannot run until the trap returns: to spin here is to hang the kernel.  *)
HandlerNeverSpins == tpc = "serial_irq" => lock = 0

(* As long as the UART holds a byte, an external interrupt is due, or      *)
(* handle_irq() is between claim and complete (and completing forwards the *)
(* request again): no byte is left behind without an interrupt for it.     *)
NoLostInterrupt ==
  rx # <<>> /\ mpc \notin Boot => ExternalIrq \/ tpc \in Serving

(* Outside spin_lock_irqsave()..spin_unlock_irqrestore() the shell runs    *)
(* with interrupts enabled, though hart_irq_save() may be interrupted      *)
(* between its read of sstatus and its clearing of SIE, and the trap       *)
(* itself changes sstatus.                                                 *)
InterruptsRestored ==
  tpc = "none" /\ mpc \in Unmasked => "SIE" \in sstatus

(* The receive path is a queue: the steps that move a byte from the UART   *)
(* to the driver's buffer and from there to input_buf change nothing, a    *)
(* step of kmain's loop takes the front.                                   *)
Undelivered ==
  [k \in 1..HandedOver |-> input_buf[i + k - 1]] \o [k \in 1..len |-> buf[k - 1]] \o rx

Queue == INSTANCE ByteQueue WITH
  open <- Open, arrived <- rxcount, queue <- IF Open THEN Undelivered ELSE <<>>

ImplementsQueue == Queue!Spec

(* The driver's buffer is full while the UART holds a byte. *)
Stuck == len = SERIAL_BUF_SIZE /\ rx # <<>>

(* Unless the driver's buffer is full when another byte arrives, every     *)
(* byte that arrives while the port is open is processed eventually: the   *)
(* timer's and the UART's interrupts, however they come, do not starve the *)
(* shell.                                                                  *)
EveryByteConsumed ==
  []~Stuck => \A n \in 0..(MaxBytes - 1) : (Open /\ rxcount > n) ~> (consumed > n)

(* A full buffer is flushed by the application.                            *)
FullBufferFlushed == (len = SERIAL_BUF_SIZE) ~> (len < SERIAL_BUF_SIZE)
=============================================================================
