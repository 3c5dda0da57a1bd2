----------------------------- MODULE TrapFrame ------------------------------
(***************************************************************************)
(* The trap stub, src/trap_entry.S: a trap between any two instructions of *)
(* the kernel saves the registers on the stack of whatever was running,    *)
(* one sd at a time, calls handle_trap(), and loads them back.  The layout *)
(* of the frame is a parameter, so that the stub of the test kernel,       *)
(* src/ktest/trap.S, is the same module with another layout.               *)
(*                                                                         *)
(* Memory is in words of 4 bytes, so that two 8-byte slots can overlap in  *)
(* part; a register is the pair of its low and its high word.  x0 is not   *)
(* a register here and x2, the stack pointer, is the variable sp.  (The    *)
(* test kernel also stores sp at 8(sp), and loads it back from there.)     *)
(***************************************************************************)
EXTENDS Hart, Integers

CONSTANTS
  Words,         \* values of 4 bytes
  RegFiles,      \* register files that code may leave behind
  StackWords,    \* words that code may leave on the stack
  PCs,           \* addresses of instructions, as pairs of words
  Faulting,      \* those whose instruction raises an exception
  Saved,         \* the registers the stub saves
  Offset,        \* where in the frame: Offset[r], in words
  FRAME,         \* size of the frame
  SepcSaved,     \* whether sepc is saved too, at offset 0 and through s0
  SkipsFault,    \* whether handle_trap() steps over the faulting instruction
  TOP,           \* size of the stack
  Stack          \* where sp may be when a trap happens

Reg == (1..31) \ {2}
s0 == 8

(* Registers that a C function gives back as it found them. *)
CalleeSaved == {8, 9} \cup 18..27

Slot(r) == {Offset[r], Offset[r] + 1}

(* A layout that works: the slots are in the frame and do not overlap, and *)
(* what the stub or handle_trap() may change is saved.                     *)
LayoutOK ==
  /\ Reg \ CalleeSaved \subseteq Saved
  /\ \A r \in Saved : Slot(r) \subseteq 0..(FRAME - 1)
  /\ \A r, q \in Saved : r # q => Slot(r) \cap Slot(q) = {}
  /\ SepcSaved => s0 \in Saved /\ FRAME > 1 /\ \A r \in Saved : {0, 1} \cap Slot(r) = {}

ASSUME TrapFrameAssumption ==
  /\ PCs \subseteq Words \X Words /\ Faulting \subseteq PCs
  /\ RegFiles \subseteq [Reg -> Words \X Words] /\ StackWords \subseteq Words
  /\ Saved \subseteq Reg /\ Offset \in [Saved -> Nat]
  /\ {FRAME, TOP} \subseteq Nat
  /\ {SepcSaved, SkipsFault} \subseteq BOOLEAN
  /\ Stack \subseteq FRAME..TOP

(* Mutant: x5 is stored at 28(sp), over the upper half of x3. *)
KernelOffset_Overlap == [r \in Reg |-> IF r = 5 THEN 7 ELSE 2 * r]

(* src/trap_entry.S: x1 at 8(sp), x3 at 24(sp), ...; frame of 256 bytes. *)
KernelOffset == [r \in Reg |-> 2 * r]

(* src/ktest/trap.S: ra, gp, tp, t0-t2, a0-a7, t3-t6; frame of 144 bytes. *)
KtestOffset ==
  [r \in Reg \ CalleeSaved |->
     CASE r = 1 -> 0 [] r = 3 -> 4 [] r = 4 -> 6
       [] r = 5 -> 7 [] r = 6 -> 8 [] r = 7 -> 10
       [] r \in 10..17 -> 12 + 2 * (r - 10)
       [] r \in 28..31 -> 28 + 2 * (r - 28)]

VARIABLES
  regs, sp, pc,
  mem,           \* the stack
  phase,         \* "run", or where trap_entry is
  k,             \* the register that is saved or loaded next
  sepc, scause,
  before         \* history: during a trap, {what was so when it happened}

stubVars == <<regs, sp, pc, mem, phase, k, sepc, scause, before>>
vars == <<hartVars, stubVars>>

Now == [regs |-> regs, sp |-> sp, pc |-> pc, mem |-> mem, SIE |-> "SIE" \in sstatus]

Init ==
  /\ sstatus = {} /\ sie = {} /\ sip = {} /\ stvec = "trap_entry"
  /\ regs \in RegFiles /\ sp \in Stack /\ pc \in PCs /\ sepc \in PCs
  /\ \E w \in StackWords : mem = [a \in 0..(TOP - 1) |-> w]
  /\ phase = "run" /\ k = 1 /\ scause = "irq"
  /\ before = {}

-----------------------------------------------------------------------------
(* The kernel proper.  Calls and returns move sp; a call fills the frame   *)
(* it makes on the stack.                                                  *)
Step(p) == phase = "run" /\ pc \notin Faulting /\ pc' = p

Code ==
  /\ \E p \in PCs : Step(p)
  /\ regs' \in RegFiles /\ sp' \in Stack
  /\ \E w \in StackWords : mem' = [a \in DOMAIN mem |-> IF a \in sp'..(sp - 1) THEN w ELSE mem[a]]
  /\ UNCHANGED <<hartVars, phase, k, sepc, scause, before>>

IrqCode ==
  /\ \E p \in PCs : Step(p)
  /\ \/ hart_irq_enable /\ UNCHANGED sie
     \/ hart_irq_disable /\ UNCHANGED sie
     \/ timer_irq_enable /\ UNCHANGED sstatus
  /\ UNCHANGED <<sip, stvec, regs, sp, mem, phase, k, sepc, scause, before>>

(* External: time reaches stimecmp. *)
TimeOut ==
  /\ sip = {} /\ sip' = {"STIP"}
  /\ UNCHANGED <<sstatus, sie, stvec, stubVars>>

-----------------------------------------------------------------------------
(* The hart takes a trap; trap_entry makes room for the frame. *)
Trap(cause) ==
  /\ phase = "run"
  /\ TrapEnter
  /\ sepc' = pc /\ scause' = cause /\ before' = {Now}
  /\ phase' = "save" /\ k' = 1
  /\ sp' = sp - FRAME
  /\ UNCHANGED <<sie, sip, stvec, regs, pc, mem>>

Interrupt == "SIE" \in sstatus /\ TimerIrq /\ Trap("irq")
Exception == pc \in Faulting /\ Trap("exception")

(* sd value, offset(sp) and ld offset(sp) *)
Stored(offset, value) ==
  [mem EXCEPT ![sp + offset] = value[1], ![sp + offset + 1] = value[2]]
Loaded(offset) == <<mem[sp + offset], mem[sp + offset + 1]>>

Save ==
  /\ phase = "save" /\ k <= 31
  /\ mem' = IF k \in Saved THEN Stored(Offset[k], regs[k]) ELSE mem
  /\ k' = k + 1
  /\ UNCHANGED <<hartVars, regs, sp, pc, phase, sepc, scause, before>>

(* csrr s0, sepc; sd s0, 0(sp); call handle_trap *)
Call ==
  /\ phase = "save" /\ k > 31
  /\ mem' = IF SepcSaved THEN Stored(0, sepc) ELSE mem
  /\ regs' = [r \in Reg |-> IF r = s0 /\ SepcSaved THEN sepc ELSE regs[r]]
  /\ phase' = "call"
  /\ UNCHANGED <<hartVars, sp, pc, k, sepc, scause, before>>

(* The kernel prints the cause and returns, so that the instruction that   *)
(* faulted is executed again; the test kernel steps over it.               *)
handle_exception == IF SkipsFault THEN sepc' \in PCs \ {sepc} ELSE UNCHANGED sepc

(* Mutant: interrupts are handled as exceptions are. *)
handle_trap_NoIrq == handle_exception /\ UNCHANGED sie

(* timer_irq() disables the timer interrupt: nothing else can be pending.  *)
handle_trap ==
  \/ scause = "irq" /\ timer_irq_disable /\ UNCHANGED sepc
  \/ scause = "exception" /\ handle_exception /\ UNCHANGED sie

(* handle_trap() is a C function: it uses the stack below sp and may leave *)
(* anything in the registers that are not callee-saved.  Then ld s0, 0(sp);*)
(* csrw sepc, s0.                                                          *)
Handler ==
  /\ phase = "call"
  /\ handle_trap
  /\ \E f \in RegFiles :
       regs' = [r \in Reg |-> IF r = s0 /\ SepcSaved THEN Loaded(0)
                              ELSE IF r \in CalleeSaved THEN regs[r] ELSE f[r]]
  /\ \E w \in StackWords : mem' = [a \in DOMAIN mem |-> IF a < sp THEN w ELSE mem[a]]
  /\ phase' = "csrw"
  /\ k' = 1
  /\ UNCHANGED <<sstatus, sip, stvec, sp, pc, scause, before>>

WriteSepc ==
  /\ phase = "csrw" /\ phase' = "restore"
  /\ sepc' = IF SepcSaved THEN regs[s0] ELSE sepc
  /\ UNCHANGED <<hartVars, regs, sp, pc, mem, k, scause, before>>

Restore ==
  /\ phase = "restore" /\ k <= 31
  /\ regs' = [r \in Reg |-> IF r = k /\ k \in Saved THEN Loaded(Offset[k]) ELSE regs[r]]
  /\ k' = k + 1
  /\ UNCHANGED <<hartVars, sp, pc, mem, phase, sepc, scause, before>>

(* Mutant: the frame is not given back. *)
Popped_Never == sp

Popped == sp + FRAME

(* addi sp, sp, FRAME; sret *)
Return ==
  /\ phase = "restore" /\ k > 31
  /\ Sret
  /\ sp' = Popped /\ pc' = sepc
  /\ phase' = "run" /\ before' = {}
  /\ UNCHANGED <<sie, sip, stvec, regs, mem, k, sepc, scause>>

TrapEntry == Save \/ Call \/ Handler \/ WriteSepc \/ Restore \/ Return

Next == Code \/ IrqCode \/ TimeOut \/ Interrupt \/ Exception \/ TrapEntry

Spec == Init /\ [][Next]_vars

(* The hart executes the stub, and the instruction that faults; it takes   *)
(* an interrupt that is enabled and pending again and again (the hardware  *)
(* looks for one after every sret).                                        *)
FairSpec == Spec /\ WF_vars(TrapEntry) /\ WF_vars(Exception) /\ SF_vars(Interrupt)

-----------------------------------------------------------------------------
(* The type invariant. *)
TypeOK ==
  /\ HartTypeOK
  /\ regs \in [Reg -> Words \X Words] /\ pc \in PCs
  /\ mem \in [0..(TOP - 1) -> Words]
  /\ sp \in 0..TOP /\ k \in 1..32
  /\ phase \in {"run", "save", "call", "csrw", "restore"}
  /\ sepc \in Words \X Words /\ scause \in {"irq", "exception"}

(* The registers are what they were at the trap when trap_entry returns. *)
RegistersKept == [][Return => \E b \in before : regs' = b.regs]_vars

(* A trap is invisible to what it interrupts, wherever it happens: when    *)
(* trap_entry returns, the registers, the stack pointer, the stack above   *)
(* it, the interrupt enable and the next instruction are what they were.   *)
(* (So an instruction that faulted is executed again.)                     *)
Transparent ==
  [][Return => \E b \in before :
                 /\ regs' = b.regs /\ sp' = b.sp /\ pc' = b.pc
                 /\ \A a \in sp'..(TOP - 1) : mem'[a] = b.mem[a]
                 /\ ("SIE" \in sstatus') = b.SIE]_vars

(* The kernel hangs at an instruction that faults again and again.  If     *)
(* interrupts were enabled there they are still served: each round of the  *)
(* stub gives them back.                                                   *)
InterruptsServed ==
  phase = "run" /\ pc \in Faulting /\ "SIE" \in sstatus /\ TimerIrq ~> ~TimerIrq
=============================================================================
