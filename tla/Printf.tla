------------------------------- MODULE Printf -------------------------------
(***************************************************************************)
(* Formatting, src/printf.c: the state machine of vsnprintf(), one action  *)
(* per state, and its clients (printk(), and snprintf() in the shell),     *)
(* which format into the same buffer again and again and then print it up  *)
(* to the first NUL.                                                       *)
(*                                                                         *)
(* A character is a one-character string, a format is a sequence of them.  *)
(* A char has BYTE values, a short two chars, a u64 or size_t eight;       *)
(* cursor arithmetic wraps as size_t does.  The buffer lies in memory that *)
(* goes on after it, MEM cells in all, so that writes past its end are     *)
(* seen.                                                                   *)
(* printk() of a level that is not logged does nothing and is left out.    *)
(***************************************************************************)
EXTENDS Integers, Sequences, FiniteSets

CONSTANTS
  BYTE,        \* values of a char, 256
  TMP,         \* size of number()'s array of digits, 64
  SIZE,        \* size of the buffer, 4096 in printk() and 64 in kmain()
  Formats,     \* the formats that are used
  Numbers,     \* the u64 arguments
  Strings,     \* the char * arguments, without their NUL
  MEM,         \* bound: cells of memory from the start of the buffer on
  MaxCalls     \* bound: calls, one after the other

Short == BYTE * BYTE
Word  == Short * Short * Short * Short

NUL == "NUL"

ASSUME PrintfAssumption ==
  /\ {BYTE, TMP, SIZE, MEM, MaxCalls} \subseteq Nat \ {0} /\ BYTE % 2 = 0
  /\ \E l \in 1..TMP : 10 ^ l >= Word
  /\ SIZE < MEM /\ MEM < Word
  /\ Numbers \subseteq 0..(Word - 1)
  /\ Formats \subseteq Seq(STRING) /\ Strings \subseteq Seq(STRING \ {NUL})

VARIABLES
  fmt,         \* the format
  i,           \* fmt.str, as an index of fmt
  state,       \* fmt.state, or "RETURN" outside vsnprintf()
  spec, percent, size, bufp,
  buf,         \* memory from the start of the buffer on
  calls,       \* history: number of calls
  ideal        \* history: what the format and the arguments so far stand for

vars == <<fmt, i, state, spec, percent, size, bufp, buf, calls, ideal>>

At(k) == IF k <= Len(fmt) THEN fmt[k] ELSE NUL

Hex == <<"0", "1", "2", "3", "4", "5", "6", "7", "8", "9", "a", "b", "c", "d", "e", "f">>
HEX == <<"0", "1", "2", "3", "4", "5", "6", "7", "8", "9", "A", "B", "C", "D", "E", "F">>
is_digit(c) == \E d \in 1..10 : Hex[d] = c

-----------------------------------------------------------------------------
(* Parsing a conversion specification: flag, width, length, type. *)

NoSpec == [flags |-> {}, width |-> 0, length |-> 0, base |-> 0]

parse_flag(c) == IF c = "0" THEN {"ZERO_PADDING"} ELSE IF c = "#" THEN {"PREFIX"} ELSE {}

(* The first index from k on that holds no digit, and the number before it *)
(* (a u8).                                                                 *)
WidthEnd(k) == CHOOSE e \in k..(Len(fmt) + 1) :
                 ~is_digit(At(e)) /\ \A j \in k..(e - 1) : is_digit(At(j))

(* Mutant: the width is not kept in a u8. *)
u8_Wide(n) == n

u8(n) == n % BYTE

parse_width(k) ==
  LET digit(c) == (CHOOSE d \in 1..10 : Hex[d] = c) - 1
      n == WidthEnd(k) - k
      w[j \in 0..n] == IF j = 0 THEN 0 ELSE u8(w[j - 1] * 10 + digit(At(k + j - 1)))
  IN  w[n]

(* The bytes of the argument, and the characters that say so. *)
parse_length(k) ==
  IF At(k) = "l" THEN IF At(k + 1) = "l" THEN <<8, 2>> ELSE <<8, 1>>
  ELSE IF At(k) = "h" THEN IF At(k + 1) = "h" THEN <<1, 2>> ELSE <<2, 1>>
  ELSE <<0, 0>>

Type(s, b, f) == [state |-> s, base |-> b, flags |-> f]
parse_type(c) ==
  CASE c = "c" -> Type("CHAR", 0, {})
    [] c = "d" -> Type("NUMBER", 10, {"SIGNED"})
    [] c = "u" -> Type("NUMBER", 10, {})
    [] c = "x" -> Type("NUMBER", 16, {})
    [] c = "X" -> Type("NUMBER", 16, {"UPPERCASE"})
    [] c = "s" -> Type("STR", 0, {})
    [] c = "p" -> Type("PTR", 16, {"PREFIX"})
    [] OTHER   -> Type("INVALID", 0, {})

-----------------------------------------------------------------------------
(* What a conversion writes, given the room it is told it has. *)

Smaller(m, n) == IF m < n THEN m ELSE n

(* A loop while (n-- > 0 && --room > 0): its rounds, and room afterwards. *)
Rounds(n, room) == IF room = 0 THEN n ELSE Smaller(n, room - 1)
RoomAfter(n, room) == IF room # 0 /\ n >= room THEN 0 ELSE (room - n) % Word

(* The digits of a positive number, most significant first: q holds what   *)
(* the loop that divides by the base leaves of n, round by round.          *)
Digits(n, base, table) ==
  LET q[k \in 0..TMP] == IF k = 0 THEN n ELSE q[k - 1] \div base
      len == Cardinality({k \in 0..(TMP - 1) : q[k] > 0})
  IN  [k \in 1..len |-> table[1 + (q[len - k] % base)]]

Table(sp) == IF "UPPERCASE" \in sp.flags THEN HEX ELSE Hex

Zeros(n) == [k \in 1..n |-> "0"]

number(room, n, sp) ==
  LET neg   == "SIGNED" \in sp.flags /\ n >= Word \div 2 /\ room > 1
      abs   == IF neg THEN Word - n ELSE n
      room1 == IF neg THEN room - 1 ELSE room
      pre   == "PREFIX" \in sp.flags /\ room1 > 2
      room2 == IF pre THEN room1 - 2 ELSE room1
      ds    == Digits(abs, sp.base, Table(sp))
      pad   == IF "ZERO_PADDING" \in sp.flags /\ sp.width > Len(ds)
               THEN sp.width - Len(ds) ELSE 0
      start == (IF neg THEN <<"-">> ELSE <<>>) \o (IF pre THEN <<"0", "x">> ELSE <<>>)
  IN  IF abs = 0 THEN start \o <<"0">>
      ELSE start \o Zeros(Rounds(pad, room2))
                 \o SubSeq(ds, 1, Rounds(Len(ds), RoomAfter(pad, room2)))

string(room, s) == SubSeq(s, 1, Smaller(room, Len(s)))

character(room, c) == IF (room - 1) % Word > 0 THEN <<c>> ELSE <<>>

pointer(room, n, sp) == number(room, n, sp)

(* The low bytes of a number, extended.  Without a length the code shifts  *)
(* by 64 bits, which is undefined in C; the shift instructions of RISC-V   *)
(* take the amount modulo 64, and the number stays what it is.             *)
Values(sp) == CASE sp.length = 1 -> BYTE [] sp.length = 2 -> Short [] OTHER -> Word

(* Mutant: the bytes are not sign-extended. *)
number_truncate_Unsigned(n, sp) == n % Values(sp)

number_truncate(n, sp) ==
  LET low == n % Values(sp)
  IN  IF "SIGNED" \in sp.flags /\ low >= Values(sp) \div 2 THEN Word - Values(sp) + low
      ELSE low

-----------------------------------------------------------------------------
Init ==
  /\ fmt = <<>> /\ i = 1 /\ state = "RETURN" /\ spec = NoSpec /\ percent = 1
  /\ size = SIZE /\ bufp = 0
  /\ buf = [k \in 0..(MEM - 1) |-> "?"]
  /\ calls = 0 /\ ideal = <<>>

Call ==
  /\ state = "RETURN" /\ calls < MaxCalls
  /\ fmt' \in Formats
  /\ i' = 1 /\ state' = "NONE" /\ spec' = NoSpec /\ percent' = 1
  /\ size' = SIZE /\ bufp' = 0
  /\ calls' = calls + 1 /\ ideal' = <<>>
  /\ UNCHANGED buf

(* The loop goes on in this state. *)
In(s) == state = s /\ size > 1

(* s is written at bufp; the arguments asked for text. *)
Put(s, text) ==
  /\ buf' = [k \in DOMAIN buf |-> IF k \in bufp..(bufp + Len(s) - 1) THEN s[k - bufp + 1]
                                  ELSE buf[k]]
  /\ bufp' = bufp + Len(s)
  /\ ideal' = ideal \o text

remaining == (size - bufp) % Word

(* Mutant: the end of the format is met, and met again. *)
AtNul_Again == "NONE"

AtNul == "END"

EndOfFormat ==
  /\ In("NONE") /\ At(i) = NUL
  /\ state' = AtNul
  /\ UNCHANGED <<fmt, i, spec, percent, size, bufp, buf, calls, ideal>>

Percent ==
  /\ In("NONE") /\ At(i) = "%"
  /\ spec' = NoSpec /\ percent' = i
  /\ i' = i + 1
  /\ state' = "SPECIFIER"
  /\ UNCHANGED <<fmt, size, bufp, buf, calls, ideal>>

(* A character of the format is copied, whatever room there is. *)
Literal ==
  /\ In("NONE") /\ At(i) \notin {NUL, "%"}
  /\ Put(<<At(i)>>, <<At(i)>>)
  /\ i' = i + 1
  /\ UNCHANGED <<fmt, state, spec, percent, size, calls>>

parse_specifier ==
  LET flag == parse_flag(At(i))
      k    == IF flag = {} THEN i ELSE i + 1
      len  == parse_length(WidthEnd(k))
      type == parse_type(At(WidthEnd(k) + len[2]))
  IN  /\ In("SPECIFIER")
      /\ spec' = [flags |-> flag \cup type.flags, width |-> parse_width(k),
                  length |-> len[1], base |-> type.base]
      /\ state' = type.state
      /\ i' = WidthEnd(k) + len[2] + 1
      /\ UNCHANGED <<fmt, percent, size, bufp, buf, calls, ideal>>

(* The text a number stands for: what the low bytes of the argument mean,  *)
(* as an integer, in its base.  (0 is not padded, and signs and prefixes   *)
(* do not count as width.)                                                 *)
NumberText(n, sp) ==
  LET low   == n % Values(sp)
      value == IF "SIGNED" \in sp.flags /\ low >= Values(sp) \div 2 THEN low - Values(sp)
               ELSE low
      ds    == IF value = 0 THEN <<"0">>
               ELSE Digits(IF value < 0 THEN 0 - value ELSE value, sp.base, Table(sp))
  IN  (IF value < 0 THEN <<"-">> ELSE <<>>)
      \o (IF "PREFIX" \in sp.flags THEN <<"0", "x">> ELSE <<>>)
      \o (IF "ZERO_PADDING" \in sp.flags /\ value # 0 /\ sp.width > Len(ds)
          THEN Zeros(sp.width - Len(ds)) ELSE <<>>)
      \o ds

Number ==
  /\ In("NUMBER") /\ state' = "NONE"
  /\ \E n \in Numbers :
       Put(number(remaining, number_truncate(n, spec), spec), NumberText(n, spec))
  /\ UNCHANGED <<fmt, i, spec, percent, size, calls>>

(* A pointer is not truncated, and has the whole buffer for room. *)
Pointer ==
  /\ In("PTR") /\ state' = "NONE"
  /\ \E n \in Numbers :
       Put(pointer(size, n, spec), NumberText(n, [spec EXCEPT !.length = 0]))
  /\ UNCHANGED <<fmt, i, spec, percent, size, calls>>

String ==
  /\ In("STR") /\ state' = "NONE"
  /\ \E s \in Strings : Put(string(remaining, s), s)
  /\ UNCHANGED <<fmt, i, spec, percent, size, calls>>

Character ==
  /\ In("CHAR") /\ state' = "NONE"
  /\ Put(character(size, "c"), <<"c">>)
  /\ UNCHANGED <<fmt, i, spec, percent, size, calls>>

(* Mutant: formatting goes on after the invalid specification. *)
AfterInvalid_NoRewind == i

AfterInvalid == percent + 1

(* An invalid specification is printed as it is: formatting goes on after  *)
(* the %.  It makes the buffer count as one smaller.                       *)
Invalid ==
  /\ In("INVALID") /\ state' = "NONE"
  /\ size' = size - 1
  /\ Put(IF size' > 0 THEN <<"%">> ELSE <<>>, <<"%">>)
  /\ i' = AfterInvalid
  /\ UNCHANGED <<fmt, spec, percent, calls>>

Terminated == [buf EXCEPT ![bufp] = NUL]

(* The loop ends at the end of the format or when size is down to 1. *)
Terminate ==
  /\ state # "RETURN" /\ (state = "END" \/ size <= 1)
  /\ buf' = Terminated
  /\ state' = "RETURN"
  /\ UNCHANGED <<fmt, i, spec, percent, size, bufp, calls, ideal>>

vsnprintf ==
  \/ EndOfFormat \/ Percent \/ Literal \/ parse_specifier \/ Number \/ Pointer \/ String
  \/ Character \/ Invalid \/ Terminate

Next == Call \/ vsnprintf

(* The hart keeps executing vsnprintf(); nobody has to call it. *)
Spec == Init /\ [][Next]_vars
FairSpec == Spec /\ WF_vars(vsnprintf)

-----------------------------------------------------------------------------
(* What print() and serial_puts() print: the buffer up to the first NUL. *)
Text ==
  LET nuls == {k \in DOMAIN buf : buf[k] = NUL}
      end  == CHOOSE k \in nuls \cup {MEM} : \A j \in nuls : k <= j
  IN  [k \in 1..end |-> buf[k - 1]]

(* The type invariant. *)
TypeOK ==
  /\ fmt \in Formats \cup {<<>>} /\ i \in Nat /\ percent \in Nat
  /\ state \in {"NONE", "SPECIFIER", "NUMBER", "PTR", "STR", "CHAR", "INVALID", "END",
                "RETURN"}
  /\ size \in 0..SIZE /\ bufp \in 0..(MEM - 1)
  /\ spec.width \in 0..(BYTE - 1)

(* vsnprintf() may take two characters at once, and goes back from an      *)
(* invalid specification; it never looks at what follows the format's NUL. *)
FormatNotOverread == In("NONE") \/ In("SPECIFIER") => i <= Len(fmt) + 1

(* If the text the format stands for fits in the buffer with its NUL, then *)
(* that is what is printed, whatever was in the buffer before: nothing of  *)
(* an earlier, longer message shows.  (An invalid specification makes the  *)
(* buffer count as one smaller, so size = SIZE leaves those formats out.)  *)
ExactIfFits ==
  state = "RETURN" /\ calls > 0 /\ size = SIZE /\ Len(ideal) < SIZE => Text = ideal

(* Every call returns. *)
CallReturns == []<>(state = "RETURN")

(* snprintf(buf, size, ...) writes to buf[0..size-1] only, NUL included. *)
WithinSize == state = "END" => bufp < SIZE
=============================================================================
