---------------------------- MODULE ConsoleProofs ---------------------------
(***************************************************************************)
(* What the shell and the timer interrupt keep to for every set of         *)
(* characters, size of command_buf, frequency, horizon and transmit FIFO.  *)
(*                                                                         *)
(* NoOverrun and AlarmNotEarly each relate what one context has read to    *)
(* what the other has done since: TxInv says how much the FIFO may hold    *)
(* when each context writes, AlarmInv what stimecmp, the pending bit and a *)
(* trap that has been taken say about the latest alarm command.            *)
(***************************************************************************)
EXTENDS Console, TLAPS, SequenceTheorems, NaturalsInduction, WellFoundedInduction

USE DEF vars, hartVars, txVars, timeVars, shellVars, irqVars, countVars, histVars,
        csr_set, csr_clear

(* A character that is typed. *)
Char == {"CR", "uptime", "echo", "alarm", "-", "x", "digit"} \X Nat

ShellInv ==
  /\ cont \in {"getc", "char", "line", "prompt", "reset"}
  /\ command \in Seq(Char) /\ current_char \in Char
  /\ mpc = "stimecmp" => command # <<>>

(* A context that has polled finds the FIFO empty, unless it is the shell  *)
(* and timer_irq() has printed in between: then one character may be left. *)
TxInv ==
  /\ ~overrun /\ tx <= 2
  /\ mpc = "write" => tx <= 1
  /\ tpc = "write" => tx = 0

(* The pending bit tells whether the latest alarm is due, and the trap is  *)
(* taken only if it is.                                                    *)
AlarmInv ==
  /\ sip = Stip(time, stimecmp)
  /\ due = 0 \/ stimecmp = due % Word
  /\ due < Word => (tpc = "timer_irq" => time >= due)

IInv == TypeOK /\ ShellInv

-----------------------------------------------------------------------------
(* The constants, one by one. *)
LEMMA Constants ==
  /\ COMMAND_SIZE \in Nat \ {0} /\ TIMER_FREQ \in Nat \ {0} /\ MaxTyped \in Nat \ {0}
  /\ MaxTime \in Nat \ {0} /\ Word \in Nat \ {0} /\ MaxTime < Word - 1
  /\ ResetCmp \subseteq 0..(Word - 1)
BY ConsoleAssumption

(* Induction over the natural numbers, on sets: a set of numbers has a     *)
(* least element.                                                          *)
LEMMA Least ==
  ASSUME NEW S, S \subseteq Nat, S # {}
  PROVE  \E m \in S : \A k \in S : m <= k
<1> DEFINE R == OpToRel(<, Nat)
<1>1. IsWellFoundedOn(R, Nat)
  BY NatLessThanWellFounded
<1>2. \A x, y \in Nat : y < x => <<y, x>> \in R
  BY Zenon DEF OpToRel
<1> HIDE DEF R
<1>3. \E x \in S : \A y \in S : ~(<<y, x>> \in R)
  BY <1>1, WFMin
<1>4. PICK m \in S : \A k \in S : ~(<<k, m>> \in R)
  BY <1>3
<1>5. \A k \in S : ~(k < m)
  BY <1>2, <1>4, Zenon
<1>6. \A k \in S : m <= k
  BY <1>5
<1> QED
  BY <1>6

(* A set with 0 and the successor of each of its numbers has them all. *)
LEMMA Induction ==
  ASSUME NEW S, 0 \in S, \A n \in Nat : n \in S => n + 1 \in S
  PROVE  Nat \subseteq S
<1> SUFFICES ASSUME Nat \ S # {} PROVE FALSE
  OBVIOUS
<1>1. PICK m \in Nat \ S : \A k \in Nat \ S : m <= k
  BY Least
<1>2. m # 0 /\ m - 1 \in Nat
  OBVIOUS
<1>3. m - 1 \in S
  BY <1>1, <1>2
<1>4. (m - 1) + 1 \in S
  BY <1>2, <1>3
<1> QED
  BY <1>4

(* f holds the values of the loop of strtou64() over the first n digits d. *)
Loop(d, n, f) ==
  f = [k \in 0..n |-> IF k = 0 THEN 0 ELSE (f[k - 1] * 10 + d[k][2]) % Word]

(* strtou64() has a value for every text, and it is a 64-bit number. *)
LEMMA LoopRange ==
  ASSUME NEW d, NEW n \in Nat, \A k \in 1..n : d[k][2] \in Nat
  PROVE  (CHOOSE f : Loop(d, n, f))[n] \in 0..(Word - 1)
<1> USE Constants
<1> DEFINE Part(m, g) == /\ g \in [0..m -> Nat] /\ g[0] = 0
                         /\ \A k \in 1..m : g[k] = (g[k - 1] * 10 + d[k][2]) % Word
           Ext(m) == \E g : Part(m, g)
           S == {m \in Nat : m <= n => Ext(m)}
<1>1. 0 \in S
  <2>1. Part(0, [k \in 0..0 |-> 0])
    OBVIOUS
  <2> HIDE DEF Part
  <2>2. Ext(0)
    BY <2>1, Zenon
  <2> QED
    BY <2>2
<1>2. ASSUME NEW m \in Nat, m \in S PROVE m + 1 \in S
  <2> HIDE DEF Ext
  <2> SUFFICES ASSUME m + 1 <= n PROVE Ext(m + 1)
    OBVIOUS
  <2>0. Ext(m)
    BY <1>2
  <2>1. PICK g : Part(m, g)
    BY <2>0, Zenon DEF Ext
  <2> DEFINE v == (g[m] * 10 + d[m + 1][2]) % Word
             h == [k \in 0..(m + 1) |-> IF k = m + 1 THEN v ELSE g[k]]
  <2>2. v \in Nat
    <3>1. g[m] \in Nat /\ d[m + 1][2] \in Nat
      BY <2>1
    <3> HIDE DEF Part
    <3> QED
      BY <3>1
  <2> HIDE DEF v
  <2>3. h \in [0..(m + 1) -> Nat] /\ h[0] = 0
    BY <2>1, <2>2
  <2>4. ASSUME NEW k \in 1..(m + 1)
        PROVE  h[k] = (h[k - 1] * 10 + d[k][2]) % Word
    <3>1. CASE k = m + 1
      <4>1. h[k] = v /\ h[k - 1] = g[m]
        BY <3>1
      <4> QED
        BY <3>1, <4>1 DEF v
    <3>2. CASE k \in 1..m
      <4>1. h[k] = g[k] /\ h[k - 1] = g[k - 1]
        BY <3>2
      <4> QED
        BY <2>1, <3>2, <4>1
    <3> QED
      BY <3>1, <3>2
  <2> HIDE DEF h
  <2>5. Part(m + 1, h)
    BY <2>3, <2>4
  <2> HIDE DEF Part
  <2> QED
    BY <2>5, Zenon DEF Ext
<1> HIDE DEF S, Ext
<1>3. n \in S
  BY <1>1, <1>2, Induction
<1>4. Ext(n)
  BY <1>3 DEF S
<1>5. PICK g : Part(n, g)
  BY <1>4, Zenon DEF Ext
<1>6. Loop(d, n, g)
  <2>1. ASSUME NEW k \in 0..n
        PROVE  g[k] = IF k = 0 THEN 0 ELSE (g[k - 1] * 10 + d[k][2]) % Word
    BY <1>5
  <2>2. g = [k \in 0..n |-> g[k]]
    BY <1>5
  <2> QED
    BY <2>1, <2>2 DEF Loop
<1> DEFINE f == CHOOSE f : Loop(d, n, f)
<1>7. Loop(d, n, f)
  BY <1>6
<1> HIDE DEF f, Part
<1>8. /\ f[0] = 0
      /\ \A k \in 1..n : f[k] = (f[k - 1] * 10 + d[k][2]) % Word
  BY <1>7 DEF Loop
<1> DEFINE T == {m \in Nat : m <= n => f[m] \in 0..(Word - 1)}
<1>9. 0 \in T
  BY <1>8
<1>10. ASSUME NEW m \in Nat, m \in T PROVE m + 1 \in T
  <2> SUFFICES ASSUME m + 1 <= n PROVE f[m + 1] \in 0..(Word - 1)
    OBVIOUS
  <2>1. f[m] \in Nat /\ d[m + 1][2] \in Nat
    BY <1>10
  <2>2. f[m + 1] = (f[m] * 10 + d[m + 1][2]) % Word
    BY <1>8
  <2> QED
    BY <2>1, <2>2
<1> HIDE DEF T
<1>11. n \in T
  BY <1>9, <1>10, Induction
<1> QED
  BY <1>11 DEF T, f

(* strtou64() returns a 64-bit number whatever the text. *)
LEMMA Strtou64Range ==
  ASSUME NEW s \in Seq(Char)
  PROVE  strtou64(s) \in 0..(Word - 1)
<1> USE Constants
<1> DEFINE d == IF s # <<>> /\ Head(s) = Chr("-") THEN Tail(s) ELSE s
<1>1. d \in Seq(Char)
  BY HeadTailProperties
<1> HIDE DEF d
<1>2. Len(d) \in Nat /\ \A k \in 1..Len(d) : d[k][2] \in Nat
  BY <1>1, ElementOfSeq DEF Char
<1>3. (CHOOSE f : Loop(d, Len(d), f))[Len(d)] \in 0..(Word - 1)
  BY <1>2, LoopRange
<1>4. 0 \in 0..(Word - 1)
  OBVIOUS
<1>5. strtou64(s) = IF \A k \in 1..Len(d) : d[k][1] = "digit"
                    THEN (CHOOSE f : Loop(d, Len(d), f))[Len(d)] ELSE 0
  BY Zenon DEF strtou64, d, Loop
<1> QED
  BY <1>3, <1>4, <1>5

-----------------------------------------------------------------------------
(* The numbers of a state. *)
LEMMA Types ==
  IInv => /\ time \in Nat /\ now \in Nat /\ stimecmp \in Nat /\ tx \in Nat
          /\ typed \in Nat /\ requested \in Nat /\ fired \in Nat /\ due \in Nat
BY DEF IInv, TypeOK, TxTypeOK

(* A typed character is a character. *)
LEMMA CharsType == Chars \subseteq Char /\ Chr("CR") \in Char
<1>1. \A kind \in Kinds : Chr(kind) \in Char
  BY ConsoleAssumption DEF Chr, Char
<1>2. \A d \in Digits : <<"digit", d>> \in Char
  BY ConsoleAssumption DEF Char
<1> QED
  BY <1>1, <1>2 DEF Chars, Chr, Char

(* The command stays a string that fits in command_buf with its NUL. *)
LEMMA CommandStep ==
  ASSUME IInv, [Next]_vars
  PROVE  /\ command' \in Seq(Char) /\ Len(command') < COMMAND_SIZE
         /\ current_char' \in Char
<1> USE Constants DEF IInv, ShellInv, TypeOK
<1>1. CASE StoreChar
  <2>1. /\ Append(command, current_char) \in Seq(Char)
        /\ Len(Append(command, current_char)) = Len(command) + 1 /\ Len(command) \in Nat
    BY AppendProperties
  <2> QED
    BY <1>1, <2>1 DEF StoreChar, Shell
<1>2. CASE Reset
  BY <1>2, EmptySeq DEF Reset, Shell
<1>3. CASE GetChar
  BY <1>3, CharsType DEF GetChar, Puts, Shell
<1>4. CASE ~StoreChar /\ ~Reset /\ ~GetChar
  <2>1. UNCHANGED <<command, current_char>>
    BY <1>4 DEF Next, ShellNext, IrqNext, Tick, Drain, Poll, Write, EndLine, EmptyLine,
       RunPrinting, AlarmReadTime, AlarmWriteCmp, AlarmEnable, Prompt, TakeTimer,
       timer_irq, IrqPoll, IrqWrite, IrqReturn
  <2> QED
    BY <2>1
<1> QED
  BY <1>1, <1>2, <1>3, <1>4

(* What an alarm command writes to stimecmp is a 64-bit number. *)
LEMMA AlarmType ==
  ASSUME IInv, AlarmWriteCmp
  PROVE  /\ stimecmp' \in 0..(Word - 1) /\ due' \in Nat /\ requested' \in Nat
         /\ stimecmp' = due' % Word /\ sip' = Stip(time, stimecmp')
<1> USE Constants
<1>1. Tail(command) \in Seq(Char)
  BY HeadTailProperties DEF IInv, ShellInv, AlarmWriteCmp, Shell
<1>2. strtou64(Tail(command)) \in 0..(Word - 1)
  BY <1>1, Strtou64Range
<1>3. strtou64(Tail(command)) * TIMER_FREQ \in Nat
  BY <1>2
<1>4. due' \in Nat /\ due' = now + strtou64(Tail(command)) * TIMER_FREQ
  BY <1>3, Types DEF AlarmWriteCmp
<1>5. stimecmp' = due' % Word /\ sip' = Stip(time, stimecmp')
  BY <1>4 DEF AlarmWriteCmp
<1>6. requested' \in Nat
  BY Types DEF AlarmWriteCmp
<1> QED
  BY <1>4, <1>5, <1>6


(* A write to THR leaves the FIFO within its depth. *)
LEMMA WriteThrType ==
  ASSUME TxTypeOK, WriteThr
  PROVE  TxTypeOK'
<1>1. CASE tx < TxDepth
  BY <1>1, TxAssumption DEF TxTypeOK, WriteThr
<1>2. CASE ~(tx < TxDepth)
  BY <1>2 DEF TxTypeOK, WriteThr
<1> QED
  BY <1>1, <1>2

(* Every step keeps the type invariant: nothing that is typed overruns     *)
(* command_buf.                                                            *)
LEMMA TypeStep ==
  ASSUME IInv, [Next]_vars
  PROVE  TypeOK'
<1> USE CommandStep, Types, Constants, TxAssumption
    DEF IInv, ShellInv, TypeOK, HartTypeOK, TxTypeOK, MaxFired
<1>1. CASE Tick
  BY <1>1 DEF Tick, Stip
<1>2. CASE Drain
  BY <1>2 DEF Drain, Transmit
<1>3. CASE Poll
  BY <1>3 DEF Poll, Shell, THRE
<1>4. CASE Write
  <2>1. TxTypeOK'
    BY <1>4, WriteThrType DEF Write
  <2> HIDE DEF TxTypeOK
  <2> QED
    BY <1>4, <2>1 DEF Write, Shell
<1>5. CASE GetChar
  BY <1>5 DEF GetChar, Puts, Shell
<1>6. CASE StoreChar
  BY <1>6 DEF StoreChar, Shell
<1>7. CASE EndLine
  BY <1>7 DEF EndLine, Puts, Shell
<1>8. CASE EmptyLine
  BY <1>8 DEF EmptyLine, Shell
<1>9. CASE RunPrinting
  BY <1>9 DEF RunPrinting, Puts, Shell
<1>10. CASE AlarmReadTime
  BY <1>10 DEF AlarmReadTime, Shell
<1>11. CASE AlarmWriteCmp
  BY <1>11, AlarmType DEF AlarmWriteCmp, Shell, Stip
<1>12. CASE AlarmEnable
  BY <1>12 DEF AlarmEnable, Shell, timer_irq_enable
<1>13. CASE Prompt
  BY <1>13 DEF Prompt, Puts, Shell
<1>14. CASE Reset
  BY <1>14 DEF Reset, Shell
<1>15. CASE TakeTimer
  BY <1>15 DEF TakeTimer, TrapEnter
<1>16. CASE timer_irq
  <2>0. owed' \in BOOLEAN
    BY <1>16, Zenon DEF timer_irq
  <2>1. {typed', requested', fired', due'} \subseteq Nat
    BY <1>16 DEF timer_irq
  <2>2. HartTypeOK' /\ TxTypeOK'
    BY <1>16 DEF timer_irq, timer_irq_disable
  <2> HIDE DEF HartTypeOK, TxTypeOK
  <2> QED
    BY <1>16, <2>0, <2>1, <2>2 DEF timer_irq
<1>17. CASE IrqPoll
  BY <1>17 DEF IrqPoll, THRE
<1>18. CASE IrqWrite
  <2>1. TxTypeOK'
    BY <1>18, WriteThrType DEF IrqWrite
  <2> HIDE DEF TxTypeOK
  <2> QED
    BY <1>18, <2>1 DEF IrqWrite
<1>19. CASE IrqReturn
  BY <1>19 DEF IrqReturn, Sret
<1>20. CASE UNCHANGED vars
  BY <1>20
<1> QED
  BY <1>1, <1>2, <1>3, <1>4, <1>5, <1>6, <1>7, <1>8, <1>9, <1>10, <1>11, <1>12,
     <1>13, <1>14, <1>15, <1>16, <1>17, <1>18, <1>19, <1>20 DEF Next, ShellNext,
     IrqNext

(* Every step keeps the shell's program counter and command in step. *)
LEMMA ShellStep ==
  ASSUME IInv, [Next]_vars
  PROVE  ShellInv'
<1> USE CommandStep DEF IInv, ShellInv
<1>1. CASE Tick
  BY <1>1 DEF Tick, Stip
<1>2. CASE Drain
  BY <1>2 DEF Drain, Transmit
<1>3. CASE Poll
  BY <1>3 DEF Poll, Shell, THRE
<1>4. CASE Write
  BY <1>4 DEF Write, Shell, WriteThr
<1>5. CASE GetChar
  BY <1>5 DEF GetChar, Puts, Shell
<1>6. CASE StoreChar
  BY <1>6 DEF StoreChar, Shell
<1>7. CASE EndLine
  BY <1>7 DEF EndLine, Puts, Shell
<1>8. CASE EmptyLine
  BY <1>8 DEF EmptyLine, Shell
<1>9. CASE RunPrinting
  BY <1>9 DEF RunPrinting, Puts, Shell
<1>10. CASE AlarmReadTime
  BY <1>10 DEF AlarmReadTime, Shell, IsCommand
<1>11. CASE AlarmWriteCmp
  BY <1>11 DEF AlarmWriteCmp, Shell, Stip
<1>12. CASE AlarmEnable
  BY <1>12 DEF AlarmEnable, Shell, timer_irq_enable
<1>13. CASE Prompt
  BY <1>13 DEF Prompt, Puts, Shell
<1>14. CASE Reset
  BY <1>14 DEF Reset, Shell
<1>15. CASE TakeTimer
  BY <1>15 DEF TakeTimer, TrapEnter
<1>16. CASE timer_irq
  BY <1>16 DEF timer_irq, timer_irq_disable
<1>17. CASE IrqPoll
  BY <1>17 DEF IrqPoll, THRE
<1>18. CASE IrqWrite
  BY <1>18 DEF IrqWrite, WriteThr
<1>19. CASE IrqReturn
  BY <1>19 DEF IrqReturn, Sret
<1>20. CASE UNCHANGED vars
  BY <1>20
<1> QED
  BY <1>1, <1>2, <1>3, <1>4, <1>5, <1>6, <1>7, <1>8, <1>9, <1>10, <1>11, <1>12,
     <1>13, <1>14, <1>15, <1>16, <1>17, <1>18, <1>19, <1>20 DEF Next, ShellNext,
     IrqNext

(* With room for two characters in the FIFO, every step keeps TxInv. *)
LEMMA TxStep ==
  ASSUME TxDepth > 1, IInv, TxInv, [Next]_vars
  PROVE  TxInv'
<1> USE Types, TxAssumption DEF IInv, TypeOK, ShellInv, TxTypeOK, TxInv
<1>1. CASE Tick
  BY <1>1 DEF Tick, Stip
<1>2. CASE Drain
  BY <1>2 DEF Drain, Transmit
<1>3. CASE Poll
  BY <1>3 DEF Poll, Shell, THRE
<1>4. CASE Write
  BY <1>4 DEF Write, Shell, WriteThr
<1>5. CASE GetChar
  BY <1>5 DEF GetChar, Puts, Shell
<1>6. CASE StoreChar
  BY <1>6 DEF StoreChar, Shell
<1>7. CASE EndLine
  BY <1>7 DEF EndLine, Puts, Shell
<1>8. CASE EmptyLine
  BY <1>8 DEF EmptyLine, Shell
<1>9. CASE RunPrinting
  BY <1>9 DEF RunPrinting, Puts, Shell
<1>10. CASE AlarmReadTime
  BY <1>10 DEF AlarmReadTime, Shell
<1>11. CASE AlarmWriteCmp
  BY <1>11 DEF AlarmWriteCmp, Shell, Stip
<1>12. CASE AlarmEnable
  BY <1>12 DEF AlarmEnable, Shell, timer_irq_enable
<1>13. CASE Prompt
  BY <1>13 DEF Prompt, Puts, Shell
<1>14. CASE Reset
  BY <1>14 DEF Reset, Shell
<1>15. CASE TakeTimer
  BY <1>15 DEF TakeTimer, TrapEnter
<1>16. CASE timer_irq
  BY <1>16 DEF timer_irq, timer_irq_disable
<1>17. CASE IrqPoll
  BY <1>17 DEF IrqPoll, THRE
<1>18. CASE IrqWrite
  BY <1>18 DEF IrqWrite, WriteThr
<1>19. CASE IrqReturn
  BY <1>19 DEF IrqReturn, Sret
<1>20. CASE UNCHANGED vars
  BY <1>20
<1> QED
  BY <1>1, <1>2, <1>3, <1>4, <1>5, <1>6, <1>7, <1>8, <1>9, <1>10, <1>11, <1>12,
     <1>13, <1>14, <1>15, <1>16, <1>17, <1>18, <1>19, <1>20 DEF Next, ShellNext,
     IrqNext

(* Every step keeps what is known about the latest alarm. *)
LEMMA AlarmStep ==
  ASSUME IInv, AlarmInv, [Next]_vars
  PROVE  AlarmInv'
<1> USE Types, Constants DEF AlarmInv, IInv, TypeOK
<1>1. CASE Tick
  BY <1>1 DEF Tick, Stip
<1>2. CASE Drain
  BY <1>2 DEF Drain, Transmit
<1>3. CASE Poll
  BY <1>3 DEF Poll, Shell, THRE
<1>4. CASE Write
  BY <1>4 DEF Write, Shell, WriteThr
<1>5. CASE GetChar
  BY <1>5 DEF GetChar, Puts, Shell
<1>6. CASE StoreChar
  BY <1>6 DEF StoreChar, Shell
<1>7. CASE EndLine
  BY <1>7 DEF EndLine, Puts, Shell
<1>8. CASE EmptyLine
  BY <1>8 DEF EmptyLine, Shell
<1>9. CASE RunPrinting
  BY <1>9 DEF RunPrinting, Puts, Shell
<1>10. CASE AlarmReadTime
  BY <1>10 DEF AlarmReadTime, Shell
<1>11. CASE AlarmWriteCmp
  BY <1>11, AlarmType DEF AlarmWriteCmp, Shell, Stip
<1>12. CASE AlarmEnable
  BY <1>12 DEF AlarmEnable, Shell, timer_irq_enable
<1>13. CASE Prompt
  BY <1>13 DEF Prompt, Puts, Shell
<1>14. CASE Reset
  BY <1>14 DEF Reset, Shell
<1>15. CASE TakeTimer
  BY <1>15 DEF TakeTimer, TrapEnter, Interrupted, TimerIrq, Stip
<1>16. CASE timer_irq
  BY <1>16 DEF timer_irq, timer_irq_disable
<1>17. CASE IrqPoll
  BY <1>17 DEF IrqPoll, THRE
<1>18. CASE IrqWrite
  BY <1>18 DEF IrqWrite, WriteThr
<1>19. CASE IrqReturn
  BY <1>19 DEF IrqReturn, Sret
<1>20. CASE UNCHANGED vars
  BY <1>20
<1> QED
  BY <1>1, <1>2, <1>3, <1>4, <1>5, <1>6, <1>7, <1>8, <1>9, <1>10, <1>11, <1>12,
     <1>13, <1>14, <1>15, <1>16, <1>17, <1>18, <1>19, <1>20 DEF Next, ShellNext,
     IrqNext

-----------------------------------------------------------------------------
(* The initial state. *)
LEMMA InitInv == Init => IInv /\ TxInv /\ AlarmInv
<1> SUFFICES ASSUME Init PROVE IInv /\ TxInv /\ AlarmInv
  OBVIOUS
<1> USE Constants, TxAssumption DEF Init, TxInit
<1>1. TypeOK
  <2>1. HartTypeOK
    BY DEF HartTypeOK, Stip
  <2>0. overrun \in BOOLEAN /\ owed \in BOOLEAN
    BY Zenon
  <2>2. TxTypeOK
    BY <2>0 DEF TxTypeOK
  <2>3. Len(command) < COMMAND_SIZE
    BY EmptySeq
  <2>4. {typed, requested, fired, due} \subseteq Nat
    OBVIOUS
  <2> QED
    BY <2>0, <2>1, <2>2, <2>3, <2>4 DEF TypeOK
<1>2. ShellInv
  BY CharsType, EmptySeq DEF ShellInv
<1>3. TxInv /\ AlarmInv
  BY DEF TxInv, AlarmInv
<1> QED
  BY <1>1, <1>2, <1>3 DEF IInv

(* The inductive invariant holds in every reachable state. *)
THEOREM Invariance == Spec => []IInv
<1>1. IInv /\ [Next]_vars => IInv'
  BY TypeStep, ShellStep DEF IInv
<1> QED
  BY <1>1, InitInv, PTL DEF Spec

(* The command typed at the shell and its NUL fit in command_buf, whatever *)
(* its size and whatever is typed; what reaches stimecmp is a 64-bit       *)
(* number.                                                                 *)
THEOREM TypeCorrect == Spec => []TypeOK
<1>1. IInv => TypeOK
  BY DEF IInv
<1> QED
  BY <1>1, Invariance, PTL

(* The shell's serial_putc() writes on the strength of a poll that a timer *)
(* interrupt may have made stale.  A FIFO of two characters is enough for  *)
(* none to be lost: timer_irq() polls again before each of its own.        *)
THEOREM NothingLost ==
  ASSUME TxDepth > 1
  PROVE  Spec => []NoOverrun
<1>1. IInv /\ TxInv /\ [Next]_vars => TxInv'
  BY TxStep
<1>2. TxInv => NoOverrun
  BY DEF TxInv, NoOverrun
<1> QED
  BY <1>1, <1>2, InitInv, Invariance, PTL DEF Spec

(* As long as no alarm command asks for a time beyond the last value of    *)
(* the time register, "alarm" is never printed before its time, however    *)
(* the shell's steps, the timer and its interrupt interleave.              *)
THEOREM AlarmOnTime == Spec /\ [](due < Word) => AlarmNotEarly
<1>1. IInv /\ AlarmInv /\ [Next]_vars => AlarmInv'
  BY AlarmStep
<1>2. ASSUME IInv, AlarmInv, due < Word, [Next]_vars, fired' > fired
      PROVE  time >= due
  <2>1. timer_irq
    BY <1>2, Types
       DEF Next, ShellNext, IrqNext, Tick, Drain, Poll, Write, GetChar, StoreChar, EndLine,
         EmptyLine, RunPrinting, AlarmReadTime, AlarmWriteCmp, AlarmEnable, Prompt, Reset,
         TakeTimer, IrqPoll, IrqWrite, IrqReturn
  <2> QED
    BY <1>2, <2>1 DEF timer_irq, AlarmInv
<1>3. IInv /\ AlarmInv /\ due < Word /\ [Next]_vars => [fired' > fired => time >= due]_vars
  BY <1>2
<1> QED
  BY <1>1, <1>3, InitInv, Invariance, PTL DEF Spec, AlarmNotEarly
=============================================================================
