------------------------------- MODULE Console ------------------------------
(***************************************************************************)
(* The shell of src/kmain.c and the timer alarm, from the banner on.       *)
(*                                                                         *)
(* Again one hart with two contexts: the shell, and the timer interrupt,   *)
(* which also writes to the serial port.  How input bytes reach the shell  *)
(* is the module RxPath; here they come from ByteQueue, that is in order   *)
(* and at any pace.  A character is a pair of a kind and a value: digits   *)
(* have values, and a keyword ("uptime", and "echo" and "alarm" with the   *)
(* space after them) counts as one character.  A string that is printed is *)
(* a sequence of such characters; wording is left out.                     *)
(*                                                                         *)
(* Time is counted in ticks of the time CSR; registers wrap at Word.       *)
(***************************************************************************)
EXTENDS Hart, UartTx, Sequences

CONSTANTS
  Kinds,          \* the kinds of character typed, but for digits
  Digits,         \* the digits that are typed
  COMMAND_SIZE,   \* sizeof(command_buf), 256
  TIMER_FREQ,     \* ticks per second, 10000000
  Word,           \* 2^64
  ResetCmp,       \* the values stimecmp may have when the kernel starts
  MaxTyped,       \* bound: number of characters typed
  MaxTime         \* bound: ticks

ASSUME ConsoleAssumption ==
  /\ Kinds \subseteq {"CR", "uptime", "echo", "alarm", "-", "x"}
  /\ Digits \subseteq 0..9
  /\ {COMMAND_SIZE, TIMER_FREQ, MaxTyped, MaxTime, Word} \subseteq Nat \ {0}
  /\ MaxTime < Word - 1
  /\ ResetCmp \subseteq 0..(Word - 1)

VARIABLES
  time, stimecmp,
  \* the shell
  mpc,            \* its next step
  current_char,
  command,        \* command_buf[0..command_index-1]
  str,            \* what serial_puts() has yet to print
  cont,           \* where the shell goes on after printing
  now,            \* the time timer_set_alarm() read
  \* the timer interrupt
  tpc, tstr,
  \* history
  shown,          \* characters printed since the shell began its latest serial_puts()
  typed,          \* characters typed
  requested,      \* alarm commands executed
  fired,          \* times timer_irq() printed "alarm"
  due,            \* when the latest alarm command wants its alarm
  owed            \* no alarm has been printed since the latest alarm command

timeVars  == <<time, stimecmp>>
shellVars == <<mpc, current_char, command, str, cont, now>>
irqVars   == <<tpc, tstr>>
countVars == <<typed, requested, fired, due, owed>>
histVars  == <<shown, countVars>>
vars == <<hartVars, txVars, timeVars, shellVars, irqVars, histVars>>

(* Bound of the counter fired.  A command takes two characters or more and *)
(* causes at most two alarms.                                              *)
MaxFired == MaxTyped + 1

(* Bound of the history shown: the longest output, and two alarms. *)
ScreenSize == COMMAND_SIZE + 4
Show(c) == shown' = IF Len(shown) < ScreenSize THEN Append(shown, c) ELSE shown

Chr(kind) == <<kind, 0>>
Chars == {Chr(kind) : kind \in Kinds} \cup {<<"digit", d>> : d \in Digits}

(* STIP is 1 while the time has reached stimecmp. *)
Stip(t, cmp) == IF t >= cmp THEN {"STIP"} ELSE {}

Interrupted == "SIE" \in sstatus /\ TimerIrq

(* kmain() has enabled the timer interrupt and interrupts, in that order,  *)
(* and starts to print the banner.                                         *)
Init ==
  /\ time = 0
  /\ stimecmp \in ResetCmp
  /\ sstatus = {"SIE"} /\ sie = {"STIE", "SEIE"} /\ stvec = "trap_entry"
  /\ sip = Stip(time, stimecmp)
  /\ TxInit
  /\ mpc = "poll" /\ str = <<Chr("banner"), Chr(">")>> /\ cont = "getc"
  /\ current_char = Chr("CR") /\ command = <<>> /\ now = 0
  /\ tpc = "none" /\ tstr = <<>>
  /\ shown = <<>> /\ typed = 0 /\ requested = 0 /\ fired = 0 /\ due = 0 /\ owed = FALSE

-----------------------------------------------------------------------------
(* The hardware. *)

Tick ==
  /\ time < MaxTime
  /\ time' = time + 1
  /\ sip' = Stip(time', stimecmp)
  /\ UNCHANGED <<sstatus, sie, stvec, txVars, stimecmp, shellVars, irqVars, histVars>>

Drain == Transmit /\ UNCHANGED <<hartVars, timeVars, shellVars, irqVars, histVars>>

-----------------------------------------------------------------------------
(* The shell. *)

Shell(from, to) ==
  /\ tpc = "none" /\ ~Interrupted
  /\ mpc = from /\ mpc' = to
  /\ UNCHANGED irqVars

(* serial_puts(s), after which the shell goes on at next. *)
Puts(from, s, next) ==
  /\ Shell(from, "poll")
  /\ str' = s
  /\ cont' = next
  /\ shown' = <<>>

(* Mutant: the transmitter is not polled. *)
Poll_Skipped ==
  /\ Shell("poll", "write")
  /\ UNCHANGED <<hartVars, txVars, timeVars, current_char, command, str, cont, now, histVars>>

(* serial_putc(): wait for THRE, then write THR.  An interrupt may come in *)
(* between, and print.                                                     *)
Poll ==
  /\ Shell("poll", "write")
  /\ THRE
  /\ UNCHANGED <<hartVars, txVars, timeVars, current_char, command, str, cont, now, histVars>>

Write ==
  /\ Shell("write", IF Tail(str) = <<>> THEN cont ELSE "poll")
  /\ WriteThr /\ Show(Head(str))
  /\ str' = Tail(str)
  /\ UNCHANGED <<hartVars, timeVars, current_char, command, cont, now, countVars>>

(* The next character of input_buf is echoed. *)
GetChar ==
  /\ typed < MaxTyped
  /\ \E c \in Chars : current_char' = c /\ Puts("getc", <<c>>, "char")
  /\ typed' = typed + 1
  /\ UNCHANGED <<hartVars, txVars, timeVars, command, now, requested, fired, due, owed>>

(* Mutant: off by one; there is no room left for the terminating NUL. *)
StoreChar_OffByOne ==
  /\ Shell("char", "getc")
  /\ current_char # Chr("CR")
  /\ command' = IF Len(command) < COMMAND_SIZE THEN Append(command, current_char)
                ELSE command
  /\ UNCHANGED <<hartVars, txVars, timeVars, current_char, str, cont, now, histVars>>

(* A character that does not fit is dropped. *)
StoreChar ==
  /\ Shell("char", "getc")
  /\ current_char # Chr("CR")
  /\ command' = IF Len(command) < COMMAND_SIZE - 1 THEN Append(command, current_char)
                ELSE command
  /\ UNCHANGED <<hartVars, txVars, timeVars, current_char, str, cont, now, histVars>>

EndLine ==
  /\ current_char = Chr("CR")
  /\ Puts("char", <<Chr("\n")>>, "line")
  /\ UNCHANGED <<hartVars, txVars, timeVars, current_char, command, now, countVars>>

IsCommand(kind) == command # <<>> /\ Head(command) = Chr(kind)

EmptyLine ==
  /\ command = <<>>
  /\ Shell("line", "prompt")
  /\ UNCHANGED <<hartVars, txVars, timeVars, current_char, command, str, cont, now, histVars>>

EchoOutput == Append(Tail(command), Chr("\r\n"))

RunPrinting ==
  /\ command # <<>> /\ ~IsCommand("alarm")
  /\ Puts("line", IF IsCommand("uptime") THEN <<<<"seconds", time \div TIMER_FREQ>>>>
                   ELSE IF IsCommand("echo") THEN EchoOutput
                   ELSE <<Chr("unknown")>>, "prompt")
  /\ UNCHANGED <<hartVars, txVars, timeVars, current_char, command, now, countVars>>

(* strtou64() in base 10: a sign is skipped, and has no effect; 0 if there *)
(* is anything but digits; the result wraps.                               *)
strtou64(s) ==
  LET digits == IF s # <<>> /\ Head(s) = Chr("-") THEN Tail(s) ELSE s
      res[k \in 0..Len(digits)] ==
        IF k = 0 THEN 0 ELSE (res[k - 1] * 10 + digits[k][2]) % Word
  IN  IF \A k \in 1..Len(digits) : digits[k][1] = "digit"
      THEN res[Len(digits)]
      ELSE 0

(* timer_set_alarm() reads the time and then writes stimecmp, in 64 bits.  *)
AlarmReadTime ==
  /\ IsCommand("alarm")
  /\ Shell("line", "stimecmp")
  /\ now' = time
  /\ UNCHANGED <<hartVars, txVars, timeVars, current_char, command, str, cont, histVars>>

(* Mutant: seconds are taken for ticks. *)
AlarmWriteCmp_NoFreq ==
  /\ Shell("stimecmp", "timer_irq_enable")
  /\ stimecmp' = (now + strtou64(Tail(command))) % Word
  /\ sip' = Stip(time, stimecmp')
  /\ requested' = requested + 1
  /\ due' = now + strtou64(Tail(command)) * TIMER_FREQ
  /\ owed' = TRUE
  /\ UNCHANGED <<sstatus, sie, stvec, txVars, time, current_char, command, str, cont, now,
                 shown, typed, fired>>

AlarmWriteCmp ==
  /\ Shell("stimecmp", "timer_irq_enable")
  /\ stimecmp' = (now + strtou64(Tail(command)) * TIMER_FREQ) % Word
  /\ sip' = Stip(time, stimecmp')
  /\ requested' = requested + 1
  /\ due' = now + strtou64(Tail(command)) * TIMER_FREQ
  /\ owed' = TRUE
  /\ UNCHANGED <<sstatus, sie, stvec, txVars, time, current_char, command, str, cont, now,
                 shown, typed, fired>>

(* Mutant: the alarm is set but never enabled. *)
AlarmEnable_Forgotten ==
  /\ Shell("timer_irq_enable", "prompt")
  /\ UNCHANGED <<hartVars, txVars, timeVars, current_char, command, str, cont, now, histVars>>

AlarmEnable ==
  /\ Shell("timer_irq_enable", "prompt")
  /\ timer_irq_enable
  /\ UNCHANGED <<sstatus, sip, stvec, txVars, timeVars, current_char, command, str, cont, now,
                 histVars>>

Prompt ==
  /\ Puts("prompt", <<Chr(">")>>, "reset")
  /\ UNCHANGED <<hartVars, txVars, timeVars, current_char, command, now, countVars>>

Reset ==
  /\ Shell("reset", "getc")
  /\ command' = <<>>
  /\ UNCHANGED <<hartVars, txVars, timeVars, current_char, str, cont, now, histVars>>

ShellNext ==
  \/ Poll \/ Write \/ GetChar \/ StoreChar \/ EndLine \/ EmptyLine \/ RunPrinting
  \/ AlarmReadTime \/ AlarmWriteCmp \/ AlarmEnable \/ Prompt \/ Reset

-----------------------------------------------------------------------------
(* The timer interrupt: trap entry, timer_irq(), return. *)

TakeTimer ==
  /\ tpc = "none" /\ Interrupted
  /\ TrapEnter
  /\ tpc' = "timer_irq"
  /\ UNCHANGED <<sie, sip, stvec, txVars, timeVars, shellVars, tstr, histVars>>

TimerText == <<Chr("alarm\r\n"), Chr(">")>>

timer_irq ==
  /\ tpc = "timer_irq" /\ tpc' = "poll"
  /\ timer_irq_disable
  /\ tstr' = TimerText
  /\ fired' = IF fired < MaxFired THEN fired + 1 ELSE fired
  /\ owed' = FALSE
  /\ UNCHANGED <<sstatus, sip, stvec, txVars, timeVars, shellVars, shown, typed, requested, due>>

IrqPoll ==
  /\ tpc = "poll" /\ tpc' = "write"
  /\ THRE
  /\ UNCHANGED <<hartVars, txVars, timeVars, shellVars, tstr, histVars>>

(* Mutant: serial_puts() keeps its place in a variable that both callers   *)
(* share, so that the interrupted one goes on further on.                  *)
IrqWrite_SharedPlace ==
  /\ tpc = "write" /\ tpc' = IF Tail(tstr) = <<>> THEN "sret" ELSE "poll"
  /\ WriteThr /\ Show(Head(tstr))
  /\ tstr' = Tail(tstr)
  /\ str' = IF Len(str) > 1 THEN Tail(str) ELSE str
  /\ UNCHANGED <<hartVars, timeVars, mpc, current_char, command, cont, now, countVars>>

IrqWrite ==
  /\ tpc = "write" /\ tpc' = IF Tail(tstr) = <<>> THEN "sret" ELSE "poll"
  /\ WriteThr /\ Show(Head(tstr))
  /\ tstr' = Tail(tstr)
  /\ UNCHANGED <<hartVars, timeVars, shellVars, countVars>>

IrqReturn ==
  /\ tpc = "sret" /\ tpc' = "none"
  /\ Sret
  /\ UNCHANGED <<sie, sip, stvec, txVars, timeVars, shellVars, tstr, histVars>>

IrqNext == TakeTimer \/ timer_irq \/ IrqPoll \/ IrqWrite \/ IrqReturn

-----------------------------------------------------------------------------
Next == Tick \/ Drain \/ ShellNext \/ IrqNext

Spec == Init /\ [][Next]_vars

(* Time passes, the serial line transmits, and the hart executes the       *)
(* context whose turn it is.  Nobody has to type.                          *)
FairSpec ==
  /\ Spec
  /\ WF_vars(Tick) /\ WF_vars(Drain)
  /\ WF_vars(ShellNext /\ mpc # "getc") /\ WF_vars(IrqNext)

-----------------------------------------------------------------------------
(* The type invariant; the command and its NUL fit in command_buf. *)
TypeOK ==
  /\ HartTypeOK /\ TxTypeOK
  /\ time \in 0..MaxTime /\ stimecmp \in 0..(Word - 1) /\ now \in 0..MaxTime
  /\ mpc \in {"getc", "poll", "write", "char", "line", "stimecmp", "timer_irq_enable",
              "prompt", "reset"}
  /\ Len(command) < COMMAND_SIZE
  /\ tpc \in {"none", "timer_irq", "poll", "write", "sret"}
  /\ {typed, requested, fired, due} \subseteq Nat /\ owed \in BOOLEAN

(* serial_putc() of the shell can be interrupted between its poll and its  *)
(* write by timer_irq(), which prints too: the poll is stale when the      *)
(* write happens.  Still no character is written to a full FIFO.         *)
NoOverrun == ~overrun

(* "alarm" is never printed before the latest alarm command's time. *)
AlarmNotEarly == [][fired' > fired => time >= due]_vars

(* If the time of the latest alarm command comes within the horizon, the   *)
(* alarm is printed, unless a later alarm command takes its place.         *)
LatestAlarmPrinted == (owed /\ due <= MaxTime) ~> (~owed \/ due > MaxTime)

(* Whatever the alarms do, the shell finishes every command and waits for  *)
(* the next character.                                                     *)
ShellReturns == []<>(mpc = "getc")

(* The shell is printing what an echo command asks for, or has just done so. *)
EchoBegun ==
  /\ IsCommand("echo")
  /\ \/ mpc \in {"poll", "write"} /\ cont = "prompt"
     \/ mpc = "prompt"

(* An alarm may be printed into the middle of what echo prints, after any  *)
(* character and between the poll and the write of one.  Yet serial_puts() *)
(* of the shell goes on where it was: without the text of timer_irq(), the *)
(* terminal shows the characters of the echo so far, each once and in      *)
(* order; and the text of timer_irq() itself is in one piece.              *)
EchoResumed ==
  /\ EchoBegun =>
       SelectSeq(shown, LAMBDA c : c \notin {TimerText[1], TimerText[2]}) \o str = EchoOutput
  /\ tpc = "none" =>
       \A k \in 1..Len(shown) : shown[k] = TimerText[1] =>
         k < Len(shown) /\ shown[k + 1] = TimerText[2]

(* Each alarm command prints "alarm" at most once. *)
AlarmAtMostOnce == fired <= requested

(* Each alarm command whose time comes within the horizon prints "alarm". *)
EveryAlarmPrinted ==
  \A n \in 1..MaxTyped : (requested = n /\ due <= MaxTime) ~> (fired >= n)

(* When an echo command is done, its output is on the terminal as given:   *)
(* in one piece.                                                           *)
EchoExact ==
  mpc = "prompt" /\ IsCommand("echo") =>
    \E k, m \in 0..Len(shown) : SubSeq(shown, k + 1, m) = EchoOutput
=============================================================================
