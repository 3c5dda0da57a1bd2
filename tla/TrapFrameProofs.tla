-------------------------- MODULE TrapFrameProofs ---------------------------
(***************************************************************************)
(* A trap is invisible to what it interrupts, for every frame layout that  *)
(* satisfies LayoutOK, every stack, every program and every number of      *)
(* traps; and the layout of src/trap_entry.S is one of those.              *)
(*                                                                         *)
(* Transparent speaks about a whole trap.  IInv says, for each place of    *)
(* the stub, which of the interrupted code's registers are still in place  *)
(* and which are in the frame.                                             *)
(***************************************************************************)
EXTENDS TrapFrame, TLAPS

USE TrapFrameAssumption DEF hartVars, stubVars, vars

RegValue == Words \X Words

(* What was so when the trap happened. *)
BeforeOK(b) ==
  /\ b.regs \in [Reg -> RegValue] /\ b.pc \in PCs /\ b.sp \in Stack
  /\ b.mem \in [0..(TOP - 1) -> Words]

(* The register r is in its slot of the frame; the frame is below what the *)
(* interrupted code has on the stack.                                      *)
InFrame(r, b) == Loaded(Offset[r]) = b.regs[r]

(* Where the interrupted code's state is, place by place. *)
StubInv(b) ==
  /\ BeforeOK(b)
  /\ sp = b.sp - FRAME /\ pc = b.pc
  /\ \A a \in b.sp..(TOP - 1) : mem[a] = b.mem[a]
  /\ b.SIE = ("SPIE" \in sstatus)
  /\ phase = "save" => regs = b.regs /\ \A r \in Saved : r < k => InFrame(r, b)
  /\ phase \in {"save", "call"} => sepc = b.pc
  /\ phase \in {"call", "csrw", "restore"} => \A r \in Saved : InFrame(r, b)
  /\ phase = "call" =>
       /\ SepcSaved => Loaded(0) = b.pc
       /\ \A r \in Reg \ {s0} : regs[r] = b.regs[r]
       /\ ~SepcSaved => regs[s0] = b.regs[s0]
  /\ phase = "csrw" => k = 1 /\ (SepcSaved => regs[s0] = b.pc)
  /\ phase \in {"csrw", "restore"} => \A r \in Reg \ Saved : regs[r] = b.regs[r]
  /\ phase \in {"csrw", "restore"} /\ ~SepcSaved /\ ~SkipsFault => sepc = b.pc
  /\ phase = "restore" =>
       /\ SepcSaved => sepc = b.pc
       /\ \A r \in Saved : r < k => regs[r] = b.regs[r]

IInv ==
  /\ TypeOK /\ sepc \in PCs
  /\ phase = "run" <=> before = {}
  /\ phase = "run" => sp \in Stack
  /\ \A b \in before : StubInv(b)

-----------------------------------------------------------------------------
(* A slot is two words of the frame. *)
LEMMA SlotTypes ==
  ASSUME LayoutOK, NEW r \in Saved
  PROVE  Offset[r] \in Nat /\ Offset[r] + 1 < FRAME
BY DEF LayoutOK, Slot

(* Storing at an offset and loading from it, or from another slot. *)
LEMMA StoreLoad ==
  ASSUME TypeOK, NEW offset \in Nat, NEW value \in RegValue, sp + offset + 1 < TOP,
         mem' = Stored(offset, value), sp' = sp
  PROVE  /\ mem' \in [0..(TOP - 1) -> Words]
         /\ Loaded(offset)' = value
         /\ \A o \in Nat : {o, o + 1} \cap {offset, offset + 1} = {} /\ sp + o + 1 < TOP
              => <<mem'[sp + o], mem'[sp + o + 1]>> = <<mem[sp + o], mem[sp + o + 1]>>
         /\ \A a \in 0..(TOP - 1) : a >= sp + offset + 2 => mem'[a] = mem[a]
<1>1. /\ mem \in [0..(TOP - 1) -> Words] /\ sp \in 0..TOP /\ TOP \in Nat
      /\ value[1] \in Words /\ value[2] \in Words /\ value = <<value[1], value[2]>>
  BY DEF TypeOK, RegValue
<1>2. /\ mem' \in [0..(TOP - 1) -> Words]
      /\ mem'[sp + offset] = value[1] /\ mem'[sp + offset + 1] = value[2]
      /\ \A a \in 0..(TOP - 1) : a # sp + offset /\ a # sp + offset + 1 => mem'[a] = mem[a]
  BY <1>1, SMTT(30) DEF Stored
<1>3. Loaded(offset)' = value
  BY <1>1, <1>2 DEF Loaded
<1>4. \A o \in Nat : {o, o + 1} \cap {offset, offset + 1} = {} /\ sp + o + 1 < TOP
              => <<mem'[sp + o], mem'[sp + o + 1]>> = <<mem[sp + o], mem[sp + o + 1]>>
  <2> SUFFICES ASSUME NEW o \in Nat, {o, o + 1} \cap {offset, offset + 1} = {},
                      sp + o + 1 < TOP
               PROVE  mem'[sp + o] = mem[sp + o] /\ mem'[sp + o + 1] = mem[sp + o + 1]
    OBVIOUS
  <2>1. o # offset /\ o # offset + 1 /\ o + 1 # offset
    OBVIOUS
  <2>2. /\ sp + o \in 0..(TOP - 1) /\ sp + o + 1 \in 0..(TOP - 1)
        /\ sp + o # sp + offset /\ sp + o # sp + offset + 1
        /\ sp + o + 1 # sp + offset /\ sp + o + 1 # sp + offset + 1
    BY <1>1, <2>1, SMTT(30)
  <2> QED
    BY <1>2, <2>2, Zenon
<1>5. \A a \in 0..(TOP - 1) : a >= sp + offset + 2 => a # sp + offset /\ a # sp + offset + 1
  BY <1>1
<1> QED
  BY <1>2, <1>3, <1>4, <1>5

-----------------------------------------------------------------------------
(* The interrupted code runs. *)
LEMMA CodeKeeps == ASSUME IInv, Code \/ IrqCode PROVE IInv'
<1>1. phase = "run" /\ phase' = "run" /\ before = {} /\ before' = {}
  BY DEF IInv, Code, IrqCode, Step
<1>2. TypeOK' /\ sepc' \in PCs /\ sp' \in Stack
  <2>1. CASE Code
    <3>1. PICK w \in StackWords :
            mem' = [a \in DOMAIN mem |-> IF a \in sp'..(sp - 1) THEN w ELSE mem[a]]
      BY <2>1 DEF Code
    <3>2. mem' \in [0..(TOP - 1) -> Words]
      BY <3>1 DEF IInv, TypeOK
    <3>3. regs' \in [Reg -> Words \X Words] /\ pc' \in PCs /\ sp' \in Stack /\ sp' \in 0..TOP
      BY <2>1 DEF Code, Step
    <3> QED
      BY <2>1, <3>2, <3>3 DEF Code, IInv, TypeOK, HartTypeOK
  <2>2. CASE IrqCode
    <3>1. pc' \in PCs /\ sp' \in Stack
      BY <2>2 DEF IrqCode, Step, IInv
    <3>2. sstatus' \subseteq {"SIE", "SPIE"} /\ sie' \subseteq {"STIE", "SEIE"}
      BY <2>2 DEF IrqCode, IInv, TypeOK, HartTypeOK, hart_irq_enable, hart_irq_disable,
         timer_irq_enable, csr_set, csr_clear
    <3> QED
      BY <2>2, <3>1, <3>2 DEF IrqCode, IInv, TypeOK, HartTypeOK
  <2> QED
    BY <2>1, <2>2
<1> QED
  BY <1>1, <1>2 DEF IInv

LEMMA TimeOutKeeps == ASSUME IInv, TimeOut PROVE IInv'
<1>1. TypeOK'
  BY DEF IInv, TimeOut, TypeOK, HartTypeOK
<1>2. \A b \in before : StubInv(b)'
  BY DEF IInv, TimeOut, StubInv, BeforeOK, InFrame, Loaded
<1> QED
  BY <1>1, <1>2 DEF IInv, TimeOut

(* The trap: everything is in place still, and nothing is saved. *)
LEMMA TrapKeeps == ASSUME IInv, NEW cause \in {"irq", "exception"}, Trap(cause) PROVE IInv'
<1>1. /\ phase = "run" /\ phase' = "save" /\ k' = 1 /\ before' = {Now}
      /\ sp' = sp - FRAME /\ sepc' = pc /\ UNCHANGED <<regs, pc, mem>>
      /\ sp \in Stack /\ FRAME \in Nat
  BY DEF Trap, IInv
<1>2. TypeOK' /\ sepc' \in PCs
  <2>1. sstatus' \subseteq {"SIE", "SPIE"} /\ sp' \in 0..TOP
    BY <1>1 DEF Trap, TrapEnter
  <2> QED
    BY <1>1, <2>1 DEF Trap, IInv, TypeOK, HartTypeOK
<1>3. ASSUME NEW b \in before' PROVE StubInv(b)'
  <2>1. b = Now
    BY <1>1, <1>3
  <2>2. BeforeOK(b)
    BY <1>1, <2>1 DEF BeforeOK, Now, IInv, TypeOK, RegValue
  <2>3. b.SIE = ("SPIE" \in sstatus')
    <3>1. b.SIE = ("SIE" \in sstatus)
      BY <2>1, Zenon DEF Now
    <3>2. ("SPIE" \in sstatus') = ("SIE" \in sstatus)
      BY DEF Trap, TrapEnter
    <3> QED
      BY <3>1, <3>2, Zenon
  <2>4. sp' = b.sp - FRAME /\ pc' = b.pc /\ regs' = b.regs /\ mem' = b.mem /\ sepc' = b.pc
    BY <1>1, <2>1 DEF Now
  <2>5. \A r \in Saved : ~(r < k')
    BY <1>1 DEF Reg
  <2> QED
    BY <1>1, <2>2, <2>3, <2>4, <2>5 DEF StubInv, BeforeOK
<1> QED
  BY <1>1, <1>2, <1>3 DEF IInv

-----------------------------------------------------------------------------
(* The frame lies on the stack, below what the interrupted code has there. *)
LEMMA FrameOnStack ==
  ASSUME IInv, NEW b \in before
  PROVE  /\ StubInv(b) /\ phase # "run"
         /\ b.sp \in FRAME..TOP /\ FRAME \in Nat /\ TOP \in Nat
         /\ sp \in Nat /\ sp + FRAME = b.sp /\ sp + FRAME <= TOP
<1>1. StubInv(b) /\ phase # "run"
  BY DEF IInv
<1>2. b.sp \in Stack /\ sp = b.sp - FRAME
  BY <1>1 DEF StubInv, BeforeOK
<1>3. b.sp \in FRAME..TOP /\ FRAME \in Nat /\ TOP \in Nat
  BY <1>2
<1> QED
  BY <1>1, <1>2, <1>3

(* sd of one register after the other. *)
LEMMA SaveKeeps == ASSUME LayoutOK, IInv, Save PROVE IInv'
<1>1. /\ phase = "save" /\ phase' = "save" /\ k \in 1..31 /\ k' = k + 1
      /\ UNCHANGED <<hartVars, regs, sp, pc, sepc, scause, before>>
      /\ mem' = IF k \in Saved THEN Stored(Offset[k], regs[k]) ELSE mem
  BY DEF Save, IInv, TypeOK
<1>2. PICK c \in before : TRUE
  BY <1>1 DEF IInv
<1>3. sp \in Nat /\ sp + FRAME <= TOP /\ FRAME \in Nat /\ TOP \in Nat
  BY <1>2, FrameOnStack
<1>4. CASE k \in Saved
  <2>1. PICK j \in Saved : j = k
    BY <1>4
  <2>2. PICK v \in RegValue : v = regs[j]
    BY DEF IInv, TypeOK, RegValue
  <2>3. Offset[j] \in Nat /\ Offset[j] + 1 < FRAME /\ mem' = Stored(Offset[j], v)
    BY <1>1, <1>4, <2>1, <2>2, SlotTypes
  <2>4. /\ mem' \in [0..(TOP - 1) -> Words]
        /\ Loaded(Offset[j])' = v
        /\ \A o \in Nat : {o, o + 1} \cap {Offset[j], Offset[j] + 1} = {} /\ sp + o + 1 < TOP
              => <<mem'[sp + o], mem'[sp + o + 1]>> = <<mem[sp + o], mem[sp + o + 1]>>
        /\ \A a \in 0..(TOP - 1) : a >= sp + Offset[j] + 2 => mem'[a] = mem[a]
    <3>1. TypeOK /\ sp' = sp /\ sp + Offset[j] + 1 < TOP
      BY <1>1, <1>3, <2>3 DEF IInv
    <3> QED
      BY <2>3, <3>1, StoreLoad
  <2>5. \A r \in Saved : r # j => Loaded(Offset[r])' = Loaded(Offset[r])
    <3> SUFFICES ASSUME NEW r \in Saved, r # j PROVE Loaded(Offset[r])' = Loaded(Offset[r])
      OBVIOUS
    <3>1. Offset[r] \in Nat /\ sp + Offset[r] + 1 < TOP
      BY <1>3, SlotTypes
    <3>2. {Offset[r], Offset[r] + 1} \cap {Offset[j], Offset[j] + 1} = {}
      BY DEF LayoutOK, Slot
    <3> QED
      BY <1>1, <2>4, <3>1, <3>2 DEF Loaded
  <2>6. ASSUME NEW b \in before' PROVE StubInv(b)'
    <3>1. StubInv(b) /\ b.sp = sp + FRAME /\ b \in before
      BY <1>1, <2>6, FrameOnStack
    <3>2. \A a \in b.sp..(TOP - 1) : mem'[a] = b.mem[a]
      <4> SUFFICES ASSUME NEW a \in b.sp..(TOP - 1) PROVE mem'[a] = b.mem[a]
        OBVIOUS
      <4>1. a \in 0..(TOP - 1) /\ a >= sp + Offset[j] + 2
        BY <1>3, <2>3, <3>1
      <4>2. mem[a] = b.mem[a]
        BY <3>1 DEF StubInv
      <4> QED
        BY <2>4, <4>1, <4>2
    <3>3. \A r \in Saved : r < k' => InFrame(r, b)'
      <4> SUFFICES ASSUME NEW r \in Saved, r < k' PROVE InFrame(r, b)'
        OBVIOUS
      <4>1. CASE r = j
        BY <1>1, <2>2, <2>4, <3>1, <4>1 DEF InFrame, StubInv
      <4>2. CASE r # j
        <5>1. r < k
          BY <1>1, <2>1, <4>2 DEF Reg
        <5> QED
          BY <1>1, <2>5, <3>1, <4>2, <5>1 DEF InFrame, StubInv
      <4> QED
        BY <4>1, <4>2
    <3> QED
      BY <1>1, <3>1, <3>2, <3>3 DEF StubInv
  <2>7. TypeOK' /\ sepc' \in PCs
    BY <1>1, <2>4 DEF IInv, TypeOK, HartTypeOK
  <2> QED
    BY <1>1, <2>6, <2>7 DEF IInv
<1>5. CASE k \notin Saved
  <2>1. mem' = mem
    BY <1>1, <1>5
  <2>2. ASSUME NEW b \in before' PROVE StubInv(b)'
    <3>1. StubInv(b)
      BY <1>1, <2>2 DEF IInv
    <3>2. \A r \in Saved : r < k' => r < k
      BY <1>1, <1>5 DEF Reg
    <3> QED
      BY <1>1, <2>1, <3>1, <3>2 DEF StubInv, InFrame, Loaded
  <2> QED
    BY <1>1, <2>1, <2>2 DEF IInv, TypeOK, HartTypeOK
<1> QED
  BY <1>4, <1>5

(* sepc is saved, through s0. *)
LEMMA CallKeeps == ASSUME LayoutOK, IInv, Call PROVE IInv'
<1>1. /\ phase = "save" /\ phase' = "call" /\ k = 32
      /\ UNCHANGED <<hartVars, sp, pc, k, sepc, scause, before>>
      /\ mem' = IF SepcSaved THEN Stored(0, sepc) ELSE mem
      /\ regs' = [r \in Reg |-> IF r = s0 /\ SepcSaved THEN sepc ELSE regs[r]]
  BY DEF Call, IInv, TypeOK
<1>2. PICK c \in before : TRUE
  BY <1>1 DEF IInv
<1>3. sp \in Nat /\ sp + FRAME <= TOP /\ FRAME \in Nat /\ TOP \in Nat
  BY <1>2, FrameOnStack
<1>4. PICK v \in RegValue : v = sepc
  BY DEF IInv, TypeOK, RegValue
<1>5. /\ mem' \in [0..(TOP - 1) -> Words]
      /\ SepcSaved => Loaded(0)' = v
      /\ \A r \in Saved : Loaded(Offset[r])' = Loaded(Offset[r])
      /\ \A a \in 0..(TOP - 1) : a >= sp + FRAME => mem'[a] = mem[a]
  <2>1. CASE ~SepcSaved
    BY <1>1, <2>1 DEF IInv, TypeOK, Loaded
  <2>2. CASE SepcSaved
    <3>1. TypeOK /\ sp' = sp /\ sp + 0 + 1 < TOP /\ mem' = Stored(0, v) /\ 0 \in Nat
      BY <1>1, <1>3, <1>4, <2>2 DEF IInv, LayoutOK
    <3>2. /\ mem' \in [0..(TOP - 1) -> Words]
          /\ Loaded(0)' = v
          /\ \A o \in Nat : {o, o + 1} \cap {0, 0 + 1} = {} /\ sp + o + 1 < TOP
               => <<mem'[sp + o], mem'[sp + o + 1]>> = <<mem[sp + o], mem[sp + o + 1]>>
          /\ \A a \in 0..(TOP - 1) : a >= sp + 0 + 2 => mem'[a] = mem[a]
      BY <3>1, StoreLoad
    <3>3. ASSUME NEW r \in Saved PROVE Loaded(Offset[r])' = Loaded(Offset[r])
      <4>1. Offset[r] \in Nat /\ sp + Offset[r] + 1 < TOP
        BY <1>3, SlotTypes
      <4>2. {Offset[r], Offset[r] + 1} \cap {0, 0 + 1} = {}
        BY <2>2 DEF LayoutOK, Slot
      <4> QED
        BY <1>1, <3>2, <4>1, <4>2 DEF Loaded
    <3>4. \A a \in 0..(TOP - 1) : a >= sp + FRAME => mem'[a] = mem[a]
      BY <1>3, <2>2, <3>2 DEF LayoutOK
    <3> QED
      BY <3>2, <3>3, <3>4
  <2> QED
    BY <2>1, <2>2
<1>6. ASSUME NEW b \in before' PROVE StubInv(b)'
  <2>1. StubInv(b) /\ b.sp = sp + FRAME
    BY <1>1, <1>6, FrameOnStack
  <2>2. \A a \in b.sp..(TOP - 1) : mem'[a] = b.mem[a]
    <3> SUFFICES ASSUME NEW a \in b.sp..(TOP - 1) PROVE mem'[a] = b.mem[a]
      OBVIOUS
    <3>1. a \in 0..(TOP - 1) /\ a >= sp + FRAME /\ mem[a] = b.mem[a]
      BY <1>3, <2>1 DEF StubInv
    <3> QED
      BY <1>5, <3>1
  <2>3. \A r \in Saved : InFrame(r, b)'
    <3>1. \A r \in Saved : r < k
      BY <1>1 DEF Reg
    <3> QED
      BY <1>1, <1>5, <2>1, <3>1 DEF InFrame, StubInv
  <2>4. /\ sepc = b.pc /\ SepcSaved => Loaded(0)' = b.pc
        /\ \A r \in Reg \ {s0} : regs'[r] = b.regs[r]
        /\ ~SepcSaved => regs'[s0] = b.regs[s0]
    BY <1>1, <1>4, <1>5, <2>1 DEF StubInv, s0, Reg
  <2> QED
    BY <1>1, <2>1, <2>2, <2>3, <2>4 DEF StubInv, BeforeOK
<1>7. TypeOK' /\ sepc' \in PCs
  <2>1. regs' \in [Reg -> Words \X Words]
    BY <1>1 DEF IInv, TypeOK
  <2> QED
    BY <1>1, <1>5, <2>1 DEF IInv, TypeOK, HartTypeOK
<1> QED
  BY <1>1, <1>6, <1>7 DEF IInv

(* handle_trap() keeps the callee-saved registers and the frame; s0 then   *)
(* gets the saved sepc.                                                    *)
LEMMA HandlerKeeps == ASSUME LayoutOK, IInv, Handler PROVE IInv'
<1>1. /\ phase = "call" /\ phase' = "csrw" /\ k' = 1
      /\ UNCHANGED <<sstatus, sip, stvec, sp, pc, scause, before>>
  BY DEF Handler
<1>2. PICK c \in before : TRUE
  BY <1>1 DEF IInv
<1>3. sp \in Nat /\ sp + FRAME <= TOP /\ FRAME \in Nat /\ TOP \in Nat
  BY <1>2, FrameOnStack
<1>4. PICK f \in RegFiles :
        regs' = [r \in Reg |-> IF r = s0 /\ SepcSaved THEN Loaded(0)
                              ELSE IF r \in CalleeSaved THEN regs[r] ELSE f[r]]
  BY DEF Handler
<1>5. PICK w \in StackWords : mem' = [a \in DOMAIN mem |-> IF a < sp THEN w ELSE mem[a]]
  BY DEF Handler
<1>6. /\ mem' \in [0..(TOP - 1) -> Words]
      /\ \A a \in 0..(TOP - 1) : a >= sp => mem'[a] = mem[a]
  BY <1>3, <1>5 DEF IInv, TypeOK
<1>7. \A r \in Saved : Loaded(Offset[r])' = Loaded(Offset[r])
  <2> SUFFICES ASSUME NEW r \in Saved PROVE Loaded(Offset[r])' = Loaded(Offset[r])
    OBVIOUS
  <2>1. /\ sp + Offset[r] \in 0..(TOP - 1) /\ sp + Offset[r] + 1 \in 0..(TOP - 1)
        /\ sp + Offset[r] >= sp /\ sp + Offset[r] + 1 >= sp
    BY <1>3, SlotTypes
  <2> QED
    BY <1>1, <1>6, <2>1 DEF Loaded
<1>8. /\ sie' \subseteq {"STIE", "SEIE"} /\ sepc' \in PCs
      /\ ~SkipsFault => sepc' = sepc
  BY DEF Handler, handle_trap, handle_exception, timer_irq_disable, csr_clear, IInv, TypeOK,
     HartTypeOK
<1>9. SepcSaved => Loaded(0) = sepc /\ regs'[s0] = sepc /\ s0 \in Saved
  BY <1>1, <1>2, <1>4, FrameOnStack DEF StubInv, LayoutOK, s0, Reg
<1>10. TypeOK'
  <2>1. regs' \in [Reg -> Words \X Words]
    BY <1>4, <1>9 DEF IInv, TypeOK
  <2> QED
    BY <1>1, <1>6, <1>8, <2>1 DEF IInv, TypeOK, HartTypeOK
<1>11. ASSUME NEW b \in before' PROVE StubInv(b)'
  <2>1. StubInv(b) /\ b.sp = sp + FRAME
    BY <1>1, <1>11, FrameOnStack
  <2>2. \A a \in b.sp..(TOP - 1) : mem'[a] = b.mem[a]
    <3> SUFFICES ASSUME NEW a \in b.sp..(TOP - 1) PROVE mem'[a] = b.mem[a]
      OBVIOUS
    <3>1. a \in 0..(TOP - 1) /\ a >= sp /\ mem[a] = b.mem[a]
      BY <1>3, <2>1 DEF StubInv
    <3> QED
      BY <1>6, <3>1
  <2>3. \A r \in Saved : InFrame(r, b)'
    BY <1>1, <1>7, <2>1 DEF InFrame, StubInv
  <2>4. \A r \in Reg \ Saved : regs'[r] = b.regs[r]
    <3> SUFFICES ASSUME NEW r \in Reg \ Saved PROVE regs'[r] = b.regs[r]
      OBVIOUS
    <3>1. r \in CalleeSaved /\ ~(r = s0 /\ SepcSaved)
      BY <1>9 DEF LayoutOK
    <3>2. regs[r] = b.regs[r]
      BY <1>1, <2>1, <3>1, TrapFrameAssumption DEF StubInv
    <3> QED
      BY <1>4, <3>1, <3>2
  <2>5. sepc = b.pc
    BY <1>1, <2>1 DEF StubInv
  <2> QED
    BY <1>1, <1>8, <1>9, <2>1, <2>2, <2>3, <2>4, <2>5 DEF StubInv, BeforeOK
<1> QED
  BY <1>1, <1>8, <1>10, <1>11 DEF IInv

(* csrw sepc, s0 *)
LEMMA WriteSepcKeeps == ASSUME IInv, WriteSepc PROVE IInv'
<1>1. /\ phase = "csrw" /\ phase' = "restore" /\ sepc' = (IF SepcSaved THEN regs[s0] ELSE sepc)
      /\ UNCHANGED <<hartVars, regs, sp, pc, mem, k, scause, before>>
  BY DEF WriteSepc
<1>2. PICK c \in before : StubInv(c)
  BY <1>1 DEF IInv
<1>3. sepc' \in PCs
  BY <1>1, <1>2 DEF IInv, StubInv, BeforeOK
<1>4. TypeOK'
  BY <1>1, <1>3 DEF IInv, TypeOK, HartTypeOK
<1>5. ASSUME NEW b \in before' PROVE StubInv(b)'
  <2>1. StubInv(b)
    BY <1>1, <1>5 DEF IInv
  <2>2. \A r \in Saved : InFrame(r, b)' /\ ~(r < k')
    BY <1>1, <2>1 DEF StubInv, InFrame, Loaded, Reg
  <2> QED
    BY <1>1, <2>1, <2>2 DEF StubInv, BeforeOK
<1> QED
  BY <1>1, <1>3, <1>4, <1>5 DEF IInv

(* ld of one register after the other. *)
LEMMA RestoreKeeps == ASSUME LayoutOK, IInv, Restore PROVE IInv'
<1>1. /\ phase = "restore" /\ phase' = "restore" /\ k \in 1..31 /\ k' = k + 1
      /\ UNCHANGED <<hartVars, sp, pc, mem, sepc, scause, before>>
      /\ regs' = [r \in Reg |-> IF r = k /\ k \in Saved THEN Loaded(Offset[k]) ELSE regs[r]]
  BY DEF Restore, IInv, TypeOK
<1>2. ASSUME NEW b \in before' PROVE StubInv(b)'
  <2>1. StubInv(b)
    BY <1>1, <1>2 DEF IInv
  <2>2. \A r \in Saved : InFrame(r, b) /\ InFrame(r, b)'
    BY <1>1, <2>1 DEF StubInv, InFrame, Loaded
  <2>3. \A r \in Reg \ Saved : regs'[r] = b.regs[r]
    BY <1>1, <2>1 DEF StubInv
  <2>4. ASSUME NEW r \in Saved, r < k' PROVE regs'[r] = b.regs[r]
    <3>1. CASE r = k
      BY <1>1, <2>2, <2>4, <3>1 DEF InFrame
    <3>2. CASE r # k
      <4>1. r < k /\ r \in Reg
        BY <1>1, <2>4, <3>2 DEF Reg
      <4> QED
        BY <1>1, <2>1, <2>4, <3>2, <4>1 DEF StubInv
    <3> QED
      BY <3>1, <3>2
  <2> QED
    BY <1>1, <2>1, <2>2, <2>3, <2>4 DEF StubInv, BeforeOK
<1>3. TypeOK' /\ sepc' \in PCs
  <2>1. PICK b \in before : StubInv(b)
    BY <1>1 DEF IInv
  <2>2. k \in Saved => Loaded(Offset[k]) \in RegValue
    BY <1>1, <2>1 DEF StubInv, InFrame, BeforeOK
  <2>3. regs' \in [Reg -> Words \X Words]
    BY <1>1, <2>2 DEF IInv, TypeOK, RegValue
  <2> QED
    BY <1>1, <2>3 DEF IInv, TypeOK, HartTypeOK
<1> QED
  BY <1>1, <1>2, <1>3 DEF IInv

(* At the end of the stub everything is back in its place. *)
LEMMA AllBack ==
  ASSUME IInv, phase = "restore", k > 31, NEW b \in before
  PROVE  /\ regs = b.regs /\ pc = b.pc /\ sp + FRAME = b.sp /\ b.sp \in Stack
         /\ \A a \in b.sp..(TOP - 1) : mem[a] = b.mem[a]
         /\ b.SIE = ("SPIE" \in sstatus)
         /\ SepcSaved \/ ~SkipsFault => sepc = b.pc
<1>1. StubInv(b) /\ sp + FRAME = b.sp
  BY FrameOnStack
<1>2. k = 32
  BY DEF IInv, TypeOK
<1>3. \A r \in Reg : regs[r] = b.regs[r]
  BY <1>1, <1>2 DEF StubInv, Reg
<1>4. regs = b.regs
  BY <1>1, <1>3 DEF IInv, TypeOK, StubInv, BeforeOK
<1> QED
  BY <1>1, <1>4 DEF StubInv, BeforeOK

LEMMA ReturnKeeps == ASSUME IInv, Return PROVE IInv'
<1>1. /\ phase = "restore" /\ k > 31 /\ phase' = "run" /\ before' = {}
      /\ sp' = sp + FRAME /\ pc' = sepc
      /\ UNCHANGED <<sie, sip, stvec, regs, mem, k, sepc, scause>>
  BY DEF Return, Popped
<1>2. PICK b \in before : TRUE
  BY <1>1 DEF IInv
<1>3. sp' \in Stack /\ sp' \in 0..TOP
  BY <1>1, <1>2, AllBack
<1>4. sstatus' \subseteq {"SIE", "SPIE"}
  BY DEF Return, Sret
<1> QED
  BY <1>1, <1>3, <1>4 DEF IInv, TypeOK, HartTypeOK

(* For every layout that works, the stub keeps its invariant. *)
THEOREM Invariance == ASSUME LayoutOK PROVE Spec => []IInv
<1>1. Init => IInv
  <2> SUFFICES ASSUME Init PROVE IInv
    OBVIOUS
  <2>1. PICK w \in StackWords : mem = [a \in 0..(TOP - 1) |-> w]
    BY DEF Init
  <2>2. mem \in [0..(TOP - 1) -> Words]
    BY <2>1
  <2> QED
    BY <2>2 DEF Init, IInv, TypeOK, HartTypeOK
<1>2. IInv /\ [Next]_vars => IInv'
  <2> SUFFICES ASSUME IInv, [Next]_vars PROVE IInv'
    OBVIOUS
  <2>1. CASE UNCHANGED vars
    BY <2>1 DEF IInv, TypeOK, HartTypeOK, StubInv, BeforeOK, InFrame, Loaded
  <2>2. CASE Code \/ IrqCode
    BY <2>2, CodeKeeps
  <2>3. CASE TimeOut
    BY <2>3, TimeOutKeeps
  <2>4. CASE Interrupt \/ Exception
    BY <2>4, TrapKeeps DEF Interrupt, Exception
  <2>5. CASE TrapEntry
    BY <2>5, SaveKeeps, CallKeeps, HandlerKeeps, WriteSepcKeeps, RestoreKeeps, ReturnKeeps
       DEF TrapEntry
  <2> QED
    BY <2>1, <2>2, <2>3, <2>4, <2>5 DEF Next
<1> QED
  BY <1>1, <1>2, PTL DEF Spec

-----------------------------------------------------------------------------
(* The type invariant: the stack pointer stays on the stack, and execution *)
(* goes on at an instruction.                                              *)
THEOREM TypeCorrect == ASSUME LayoutOK PROVE Spec => []TypeOK
<1>1. IInv => TypeOK
  BY DEF IInv
<1> QED
  BY <1>1, Invariance, PTL

(* trap_entry gives back every register. *)
THEOREM Registers == ASSUME LayoutOK PROVE Spec => RegistersKept
<1>1. IInv /\ [Next]_vars => [Return => \E b \in before : regs' = b.regs]_vars
  <2> SUFFICES ASSUME IInv, Return PROVE \E b \in before : regs' = b.regs
    OBVIOUS
  <2>1. phase = "restore" /\ k > 31 /\ regs' = regs
    BY DEF Return
  <2>2. PICK b \in before : TRUE
    BY <2>1 DEF IInv
  <2> QED
    BY <2>1, <2>2, AllBack
<1> QED
  BY <1>1, Invariance, PTL DEF Spec, RegistersKept

(* Whatever the layout, if it works and the handler cannot move sepc       *)
(* behind the stub's back, a trap is invisible.                            *)
THEOREM TrapTransparent ==
  ASSUME LayoutOK, SepcSaved \/ ~SkipsFault PROVE Spec => Transparent
<1>1. IInv /\ [Next]_vars =>
        [Return => \E b \in before :
                 /\ regs' = b.regs /\ sp' = b.sp /\ pc' = b.pc
                 /\ \A a \in sp'..(TOP - 1) : mem'[a] = b.mem[a]
                 /\ ("SIE" \in sstatus') = b.SIE]_vars
  <2> SUFFICES ASSUME IInv, Return
               PROVE  \E b \in before :
                        /\ regs' = b.regs /\ sp' = b.sp /\ pc' = b.pc
                        /\ \A a \in sp'..(TOP - 1) : mem'[a] = b.mem[a]
                        /\ ("SIE" \in sstatus') = b.SIE
    OBVIOUS
  <2>1. /\ phase = "restore" /\ k > 31
        /\ regs' = regs /\ mem' = mem /\ sp' = sp + FRAME /\ pc' = sepc
    BY DEF Return, Popped
  <2>2. PICK b \in before : TRUE
    BY <2>1 DEF IInv
  <2>3. /\ regs = b.regs /\ sp + FRAME = b.sp /\ sepc = b.pc
        /\ \A a \in b.sp..(TOP - 1) : mem[a] = b.mem[a]
        /\ b.SIE = ("SPIE" \in sstatus)
    BY <2>1, <2>2, AllBack
  <2>4. ("SIE" \in sstatus') = ("SPIE" \in sstatus)
    BY DEF Return, Sret
  <2>5. ("SIE" \in sstatus') = b.SIE
    BY <2>3, <2>4
  <2> QED
    BY <2>1, <2>2, <2>3, <2>5
<1> QED
  BY <1>1, Invariance, PTL DEF Spec, Transparent

(* The layout of src/trap_entry.S works. *)
LEMMA KernelLayout ==
  ASSUME Saved = Reg, Offset = KernelOffset, FRAME = 64
  PROVE  LayoutOK
<1>1. \A r \in Saved : r \in 1..31 /\ Slot(r) = {2 * r, 2 * r + 1}
  BY DEF Slot, KernelOffset, Reg
<1>2. \A r \in Saved : Slot(r) \subseteq 0..(FRAME - 1)
  BY <1>1
<1>3. \A r, q \in Saved : r # q => Slot(r) \cap Slot(q) = {}
  BY <1>1
<1>4. s0 \in Saved /\ FRAME > 1 /\ \A r \in Saved : {0, 1} \cap Slot(r) = {}
  BY <1>1 DEF s0, Reg
<1> QED
  BY <1>2, <1>3, <1>4 DEF LayoutOK

(* So every trap the kernel takes is invisible to what it interrupts, with *)
(* any handler that respects the calling convention.                       *)
THEOREM KernelTransparent ==
  ASSUME Saved = Reg, Offset = KernelOffset, FRAME = 64, SepcSaved
  PROVE  Spec => Transparent
BY KernelLayout, TrapTransparent

(* The layout of src/ktest/trap.S does not: x5 is stored over x4. *)
THEOREM KtestLayoutBroken ==
  ASSUME Saved = Reg \ CalleeSaved, Offset = KtestOffset
  PROVE  ~LayoutOK
<1>1. 4 \in Saved /\ 5 \in Saved
  BY DEF Reg, CalleeSaved
<1>2. Offset[4] = 6 /\ Offset[5] = 7
  BY <1>1 DEF KtestOffset
<1>3. 7 \in Slot(4) \cap Slot(5)
  BY <1>2 DEF Slot
<1> QED
  BY <1>1, <1>3 DEF LayoutOK
=============================================================================
