---------------------------- MODULE PrintfProofs ----------------------------
(***************************************************************************)
(* Proofs about vsnprintf(), for every format, argument and size of the    *)
(* buffer.                                                                 *)
(*                                                                         *)
(* It never reads past the NUL of its format.  The parser looks ahead,     *)
(* takes up to two characters for a length and one for a type without      *)
(* asking for the end, and goes back to the % when the type is invalid.    *)
(* FormatNotOverread is about the two states that read; IInv says where    *)
(* the index is in all of them, and where the % was.                       *)
(*                                                                         *)
(* It leaves the text that was asked for, if that fits.  TextInv says that *)
(* the buffer holds the text so far; NumberFits, that number(), told the   *)
(* room left, cuts nothing off.                                            *)
(***************************************************************************)
EXTENDS Printf, TLAPS, NaturalsInduction, WellFoundedInduction, FiniteSetTheorems

USE DEF vars

IInv ==
  /\ fmt \in Seq(STRING)
  /\ state \notin {"INVALID", "RETURN"} => i \in 1..(Len(fmt) + 1)
  /\ state \in {"SPECIFIER", "INVALID"} => percent \in 1..Len(fmt)

-----------------------------------------------------------------------------
(* A set of natural numbers has a least element. *)
LEMMA Least ==
  ASSUME NEW S, S \subseteq Nat, S # {}
  PROVE  \E m \in S : \A k \in S : m <= k
<1> DEFINE R == OpToRel(<, Nat)
<1>1. IsWellFoundedOn(R, Nat)
  BY NatLessThanWellFounded
<1>2. \A x, y \in Nat : y < x => <<y, x>> \in R
  BY Zenon DEF OpToRel
<1> HIDE DEF R
<1>3. \E x \in S : \A y \in S : ~(<<y, x>> \in R)
  BY <1>1, WFMin
<1>4. PICK m \in S : \A k \in S : ~(<<k, m>> \in R)
  BY <1>3
<1>5. \A k \in S : ~(k < m)
  BY <1>2, <1>4, Zenon
<1>6. \A k \in S : m <= k
  BY <1>5
<1> QED
  BY <1>6

(* The NUL is no digit, no flag, no length and no type. *)
LEMMA NulIsNothing ==
  /\ ~is_digit(NUL)
  /\ parse_flag(NUL) = {}
  /\ parse_type(NUL).state = "INVALID"
<1>1. ~is_digit(NUL)
  BY DEF is_digit, Hex, NUL
<1>2. parse_flag(NUL) = {}
  BY DEF parse_flag, NUL
<1>3. parse_type(NUL).state = "INVALID"
  BY DEF parse_type, Type, NUL
<1> QED
  BY <1>1, <1>2, <1>3

(* The digits of a width end, at the NUL of the format at the latest. *)
LEMMA WidthEnds ==
  ASSUME fmt \in Seq(STRING), NEW k \in 1..(Len(fmt) + 1)
  PROVE  /\ WidthEnd(k) \in k..(Len(fmt) + 1)
         /\ \A j \in k..(WidthEnd(k) - 1) : is_digit(At(j))
<1> DEFINE n == Len(fmt) + 1
           Stop(e) == ~is_digit(At(e)) /\ \A j \in k..(e - 1) : is_digit(At(j))
           S == {e \in k..n : ~is_digit(At(e))}
<1>1. Len(fmt) \in Nat /\ n \in Nat
  OBVIOUS
<1>2. At(n) = NUL
  BY <1>1 DEF At
<1> HIDE DEF n
<1>3. n \in S
  BY <1>1, <1>2, NulIsNothing DEF n
<1>4. S \subseteq Nat /\ S # {}
  BY <1>1, <1>3
<1>5. PICK e \in S : \A j \in S : e <= j
  BY <1>4, Least
<1>6. e \in k..n /\ Stop(e)
  <2>1. ASSUME NEW j \in k..(e - 1) PROVE is_digit(At(j))
    <3>1. j \in k..n /\ ~(e <= j)
      BY <1>1, <1>4
    <3> QED
      BY <1>5, <3>1
  <2> QED
    BY <2>1
<1> HIDE DEF Stop, S
<1>7. (CHOOSE x \in k..n : Stop(x)) \in k..n /\ Stop(CHOOSE x \in k..n : Stop(x))
  BY <1>6
<1>8. WidthEnd(k) = CHOOSE x \in k..n : Stop(x)
  BY DEF WidthEnd, Stop, n
<1>9. WidthEnd(k) \in k..n /\ Stop(WidthEnd(k))
  BY <1>7, <1>8
<1> QED
  BY <1>9 DEF n, Stop

(* After a specification, valid or not, the parser is within the format or *)
(* will go back to its %.                                                  *)
LEMMA ParseStep ==
  ASSUME IInv, parse_specifier
  PROVE  IInv'
<1> DEFINE flag == parse_flag(At(i))
           k    == IF flag = {} THEN i ELSE i + 1
           end  == WidthEnd(k)
           len  == parse_length(end)
           c    == At(end + len[2])
<1>1. /\ state = "SPECIFIER" /\ state' = parse_type(c).state
      /\ i' = end + len[2] + 1 /\ UNCHANGED <<fmt, percent>>
  BY DEF parse_specifier, In
<1>2. fmt \in Seq(STRING) /\ Len(fmt) \in Nat /\ i \in 1..(Len(fmt) + 1)
  BY <1>1 DEF IInv
<1>3. k \in 1..(Len(fmt) + 1)
  <2>1. flag # {} => i <= Len(fmt)
    BY <1>2, NulIsNothing DEF At
  <2> HIDE DEF flag
  <2> QED
    BY <1>2, <2>1
<1> HIDE DEF k
<1>4. end \in 1..(Len(fmt) + 1)
  BY <1>2, <1>3, WidthEnds
<1> HIDE DEF end
<1>5. len[2] \in {0, 1, 2}
  BY DEF parse_length
<1> HIDE DEF len
<1>6. state' # "INVALID" => end + len[2] <= Len(fmt)
  BY <1>1, NulIsNothing DEF At
<1>7. state' # "INVALID" => i' \in 1..(Len(fmt) + 1)
  BY <1>1, <1>2, <1>4, <1>5, <1>6
<1>8. percent \in 1..Len(fmt)
  BY <1>1 DEF IInv
<1> QED
  BY <1>1, <1>2, <1>7, <1>8 DEF IInv

(* Every step keeps the index in its place. *)
LEMMA StepInv == IInv /\ [Next]_vars => IInv'
<1> SUFFICES ASSUME IInv, [Next]_vars PROVE IInv'
  OBVIOUS
<1>0. fmt \in Seq(STRING) /\ Len(fmt) \in Nat
  BY DEF IInv
<1>1. CASE Call
  <2>1. fmt' \in Seq(STRING)
    BY <1>1, PrintfAssumption DEF Call
  <2> QED
    BY <1>1, <2>1 DEF Call, IInv
<1>2. CASE EndOfFormat
  BY <1>2 DEF EndOfFormat, In, AtNul, IInv
<1>3. CASE Percent
  <2>1. i \in 1..Len(fmt)
    BY <1>0, <1>3 DEF Percent, In, IInv, At, NUL
  <2> QED
    BY <1>0, <1>3, <2>1 DEF Percent, IInv
<1>4. CASE Literal
  <2>1. i \in 1..Len(fmt)
    BY <1>0, <1>4 DEF Literal, In, IInv, At
  <2> QED
    BY <1>0, <1>4, <2>1 DEF Literal, In, IInv
<1>5. CASE parse_specifier
  BY <1>5, ParseStep
<1>6. CASE Number
  BY <1>6 DEF Number, In, IInv
<1>7. CASE Pointer
  BY <1>7 DEF Pointer, In, IInv
<1>8. CASE String
  BY <1>8 DEF String, In, IInv
<1>9. CASE Character
  BY <1>9 DEF Character, In, IInv
<1>10. CASE Invalid
  BY <1>0, <1>10 DEF Invalid, In, AfterInvalid, IInv
<1>11. CASE Terminate
  BY <1>11 DEF Terminate, IInv
<1>12. CASE UNCHANGED vars
  BY <1>12 DEF IInv
<1> QED
  BY <1>1, <1>2, <1>3, <1>4, <1>5, <1>6, <1>7, <1>8, <1>9, <1>10, <1>11, <1>12
     DEF Next, vsnprintf

(* The inductive invariant holds in every reachable state. *)
THEOREM Invariance == Spec => []IInv
<1>1. Init => IInv
  BY DEF Init, IInv
<1> QED
  BY <1>1, StepInv, PTL DEF Spec

(* vsnprintf() never looks at what follows the NUL of its format, for      *)
(* every format, well-formed or not.                                       *)
THEOREM NoOverread == Spec => []FormatNotOverread
<1>1. IInv => FormatNotOverread
  BY DEF IInv, FormatNotOverread, In
<1> QED
  BY <1>1, Invariance, PTL
-----------------------------------------------------------------------------
(* What is printed. *)

(* The characters of a text.  (That a literal is a STRING is more than the *)
(* provers know.)                                                          *)
Chr == (STRING \cup {Hex[j] : j \in 1..16} \cup {HEX[j] : j \in 1..16}
        \cup {"0", "x", "-", "%", "c"}) \ {NUL}

(* The constants are positive, and a char has an even number of values. *)
LEMMA Constants ==
  /\ BYTE \in Nat \ {0} /\ BYTE % 2 = 0 /\ TMP \in Nat \ {0} /\ MEM \in Nat \ {0}
  /\ SIZE \in Nat \ {0} /\ SIZE < MEM /\ MEM < Word
  BY PrintfAssumption

(* Induction, as the least number that is not in a set. *)
LEMMA Induction ==
  ASSUME NEW S, 0 \in S, \A m \in Nat : m \in S => m + 1 \in S
  PROVE  \A n \in Nat : n \in S
<1> SUFFICES ASSUME NEW n \in Nat, n \notin S PROVE FALSE
  OBVIOUS
<1> DEFINE T == {m \in Nat : m \notin S}
<1>1. T \subseteq Nat /\ T # {}
  OBVIOUS
<1>2. PICK m \in T : \A k \in T : m <= k
  BY <1>1, Least
<1>3. m # 0 /\ m - 1 \in Nat
  BY <1>2
<1>4. m - 1 \in S
  BY <1>2, <1>3
<1> QED
  BY <1>2, <1>3, <1>4

(* A loop over natural numbers has a value after each of its n rounds. *)
LEMMA LoopExists ==
  ASSUME NEW n \in Nat, NEW first \in Nat, NEW step \in [1..n -> [Nat -> Nat]]
  PROVE  \E g \in [0..n -> Nat] :
           g[0] = first /\ \A k \in 1..n : g[k] = step[k][g[k - 1]]
<1> DEFINE Part(m, g) == /\ g \in [0..m -> Nat] /\ g[0] = first
                         /\ \A k \in 1..m : g[k] = step[k][g[k - 1]]
           Ext(m) == \E g : Part(m, g)
           S == {m \in Nat : m <= n => Ext(m)}
<1>1. 0 \in S
  <2>1. Part(0, [k \in 0..0 |-> first])
    OBVIOUS
  <2> HIDE DEF Part
  <2>2. Ext(0)
    BY <2>1, Zenon
  <2> QED
    BY <2>2
<1>2. ASSUME NEW m \in Nat, m \in S PROVE m + 1 \in S
  <2> HIDE DEF Ext
  <2> SUFFICES ASSUME m + 1 <= n PROVE Ext(m + 1)
    OBVIOUS
  <2>0. Ext(m)
    BY <1>2
  <2>1. PICK g : Part(m, g)
    BY <2>0, Zenon DEF Ext
  <2>2. g \in [0..m -> Nat] /\ g[0] = first
    BY <2>1
  <2>3. \A k \in 1..m : g[k] = step[k][g[k - 1]]
    BY <2>1
  <2> HIDE DEF Part
  <2> DEFINE v == step[m + 1][g[m]]
             h == [k \in 0..(m + 1) |-> IF k = m + 1 THEN v ELSE g[k]]
  <2>4. v \in Nat
    <3>1. g[m] \in Nat /\ step[m + 1] \in [Nat -> Nat]
      BY <2>2
    <3> QED
      BY <3>1
  <2> HIDE DEF v
  <2>5. h[m + 1] = v /\ \A k \in 0..m : h[k] = g[k]
    OBVIOUS
  <2>6. h \in [0..(m + 1) -> Nat]
    <3>1. \A k \in 0..(m + 1) : (IF k = m + 1 THEN v ELSE g[k]) \in Nat
      BY <2>2, <2>4
    <3> QED
      BY <3>1
  <2> HIDE DEF h
  <2>7. ASSUME NEW k \in 1..(m + 1)
        PROVE  h[k] = step[k][h[k - 1]]
    <3>1. CASE k = m + 1
      <4>1. m \in 0..m /\ k - 1 = m
        BY <3>1
      <4>2. h[k - 1] = g[m]
        BY <2>5, <4>1, Zenon
      <4> QED
        BY <2>5, <3>1, <4>2, Zenon DEF v
    <3>2. CASE k # m + 1
      <4>1. k \in 1..m /\ k \in 0..m /\ k - 1 \in 0..m
        BY <3>2
      <4>2. h[k] = g[k] /\ h[k - 1] = g[k - 1]
        BY <2>5, <4>1
      <4> QED
        BY <2>3, <4>1, <4>2
    <3> QED
      BY <3>1, <3>2
  <2>8. h[0] = first
    <3>1. 0 \in 0..m
      OBVIOUS
    <3> QED
      BY <2>2, <2>5, <3>1, Zenon
  <2>9. Part(m + 1, h)
    BY <2>6, <2>7, <2>8 DEF Part
  <2> QED
    BY <2>9, Zenon DEF Ext
<1> HIDE DEF S, Ext
<1>3. n \in S
  BY <1>1, <1>2, Induction
<1>4. Ext(n)
  BY <1>3 DEF S
<1>5. PICK g : Part(n, g)
  BY <1>4, Zenon DEF Ext
<1> QED
  BY <1>5, Zenon

(* What follows one from the other, round by round, is a natural number. *)
LEMMA LoopRange ==
  ASSUME NEW n \in Nat, NEW f, f[0] \in Nat,
         \A k \in 1..n : f[k - 1] \in Nat => f[k] \in Nat
  PROVE  \A k \in 0..n : f[k] \in Nat
<1> DEFINE T == {m \in Nat : m <= n => f[m] \in Nat}
<1>1. 0 \in T
  OBVIOUS
<1>2. ASSUME NEW m \in Nat, m \in T PROVE m + 1 \in T
  <2> SUFFICES ASSUME m + 1 <= n PROVE f[m + 1] \in Nat
    OBVIOUS
  <2>1. f[m] \in Nat /\ m + 1 \in 1..n /\ (m + 1) - 1 = m
    BY <1>2
  <2> QED
    BY <2>1
<1> HIDE DEF T
<1>3. \A m \in Nat : m \in T
  BY <1>1, <1>2, Induction
<1> QED
  BY <1>3 DEF T

(* The value of a digit. *)
digit(c) == (CHOOSE d \in 1..10 : Hex[d] = c) - 1

(* The width is a u8, whatever the digits. *)
LEMMA WidthRange ==
  ASSUME fmt \in Seq(STRING), NEW k \in 1..(Len(fmt) + 1)
  PROVE  parse_width(k) \in 0..(BYTE - 1)
<1> DEFINE n == WidthEnd(k) - k
           d(j) == digit(At(k + j - 1))
           W(f) == f = [j \in 0..n |-> IF j = 0 THEN 0 ELSE u8(f[j - 1] * 10 + d(j))]
           w == CHOOSE f : W(f)
           step == [j \in 1..n |-> [x \in Nat |-> u8(x * 10 + d(j))]]
<1>1. parse_width(k) = w[n]
  BY Zenon DEF parse_width, digit
<1>2. n \in Nat /\ WidthEnd(k) \in k..(Len(fmt) + 1)
  BY WidthEnds
<1>3. ASSUME NEW j \in 1..n PROVE d(j) \in Nat
  <2>1. is_digit(At(k + j - 1))
    <3>1. k + j - 1 \in k..(WidthEnd(k) - 1)
      BY <1>2
    <3> QED
      BY <3>1, WidthEnds
  <2> DEFINE c == At(k + j - 1)
  <2>2. \E e \in 1..10 : Hex[e] = c
    BY <2>1 DEF is_digit
  <2> HIDE DEF c
  <2> DEFINE v == CHOOSE e \in 1..10 : Hex[e] = c
  <2>3. v \in 1..10
    BY <2>2, Zenon
  <2>4. digit(c) = v - 1
    BY Zenon DEF digit
  <2> HIDE DEF v
  <2>5. v - 1 \in Nat
    BY <2>3
  <2> QED
    BY <2>4, <2>5 DEF c
<1>4. ASSUME NEW x \in Nat, NEW j \in 1..n PROVE u8(x * 10 + d(j)) \in 0..(BYTE - 1)
  <2>1. x * 10 + d(j) \in Nat
    BY <1>3
  <2> HIDE DEF d
  <2> QED
    BY <2>1, Constants DEF u8
<1> HIDE DEF d, n
<1>5. step \in [1..n -> [Nat -> Nat]]
  <2>1. \A j \in 1..n : \A x \in Nat : u8(x * 10 + d(j)) \in Nat
    BY <1>4, Constants
  <2> QED
    BY <2>1
<1> HIDE DEF step
<1>6. PICK g \in [0..n -> Nat] : g[0] = 0 /\ \A j \in 1..n : g[j] = step[j][g[j - 1]]
  <2>1. 0 \in Nat
    OBVIOUS
  <2> QED
    BY <1>2, <1>5, <2>1, LoopExists, Zenon
<1>7. W(g)
  <2>1. ASSUME NEW j \in 0..n
        PROVE  g[j] = IF j = 0 THEN 0 ELSE u8(g[j - 1] * 10 + d(j))
    <3>1. CASE j = 0
      BY <1>6, <3>1
    <3>2. CASE j # 0
      <4>1. j \in 1..n /\ g[j - 1] \in Nat
        BY <1>2, <3>2
      <4>2. g[j] = step[j][g[j - 1]]
        BY <1>6, <4>1, Zenon
      <4>3. step[j] = [x \in Nat |-> u8(x * 10 + d(j))]
        BY <4>1, Zenon DEF step
      <4> QED
        BY <3>2, <4>1, <4>2, <4>3
    <3> QED
      BY <3>1, <3>2
  <2>2. g = [j \in 0..n |-> g[j]]
    OBVIOUS
  <2> QED
    BY <2>1, <2>2, Zenon
<1>8. W(w)
  <2> HIDE DEF W
  <2> QED
    BY <1>7, Zenon
<1>9. \A j \in 0..n : w[j] = IF j = 0 THEN 0 ELSE u8(w[j - 1] * 10 + d(j))
  <2> HIDE DEF w
  <2>1. w = [j \in 0..n |-> IF j = 0 THEN 0 ELSE u8(w[j - 1] * 10 + d(j))]
    BY <1>8
  <2> QED
    BY <2>1, Zenon
<1> HIDE DEF w, W
<1>10. w[0] = 0
  BY <1>2, <1>9
<1>11. ASSUME NEW j \in 1..n, w[j - 1] \in Nat PROVE w[j] \in 0..(BYTE - 1)
  <2>1. j \in 0..n /\ j # 0
    OBVIOUS
  <2>2. w[j] = u8(w[j - 1] * 10 + d(j))
    BY <1>9, <2>1, Zenon
  <2> QED
    BY <1>4, <1>11, <2>2
<1>12. \A j \in 0..n : w[j] \in Nat
  <2>1. \A j \in 1..n : w[j - 1] \in Nat => w[j] \in Nat
    BY <1>11, Constants
  <2>2. w[0] \in Nat
    BY <1>10
  <2> QED
    BY <1>2, <2>1, <2>2, LoopRange, Zenon
<1>13. CASE n = 0
  BY <1>1, <1>10, <1>13, Constants
<1>14. CASE n # 0
  <2>1. n \in 1..n /\ n - 1 \in 0..n
    BY <1>2, <1>14
  <2> QED
    BY <1>1, <1>11, <1>12, <2>1
<1> QED
  BY <1>13, <1>14

(* The sizes of the integers: even, and none larger than a u64. *)
LEMMA ValuesRange ==
  ASSUME NEW sp
  PROVE  /\ Values(sp) \in Nat /\ Values(sp) <= Word /\ Word \in Nat
         /\ \E h \in Nat \ {0} : Values(sp) = 2 * h
         /\ \E h \in Nat \ {0} : Word = 2 * h
<1>1. PICK h \in Nat \ {0} : BYTE = 2 * h
  <2>1. BYTE = 2 * (BYTE \div 2) /\ BYTE \div 2 \in Nat \ {0}
    BY Constants
  <2> QED
    BY <2>1
<1> DEFINE s == h * BYTE
           x == Short * Short
           y == x * x
<1>2. s \in Nat \ {0} /\ Short = 2 * s /\ Short \in Nat \ {0} /\ BYTE <= Short
  BY <1>1 DEF Short
<1> HIDE DEF s
<1>3. x \in Nat \ {0} /\ x = 2 * (s * Short) /\ s * Short \in Nat \ {0} /\ Short <= x
  BY <1>2
<1> HIDE DEF x
<1>4. y \in Nat \ {0} /\ x <= y
  BY <1>3
<1>5. y = 2 * ((s * Short) * x) /\ (s * Short) * x \in Nat \ {0}
  <2> DEFINE z == s * Short
  <2>1. z \in Nat \ {0} /\ x = 2 * z /\ x \in Nat \ {0}
    BY <1>3
  <2> HIDE DEF z
  <2>2. y = 2 * (z * x) /\ z * x \in Nat \ {0}
    BY <2>1
  <2> QED
    BY <2>2 DEF z
<1>6. Word = y
  BY <1>2 DEF Word, x
<1> HIDE DEF y
<1>7. Values(sp) \in {BYTE, Short, Word}
  BY DEF Values
<1>8. \E k \in Nat \ {0} : Word = 2 * k
  BY <1>5, <1>6
<1>9. \E k \in Nat \ {0} : Values(sp) = 2 * k
  BY <1>1, <1>2, <1>7, <1>8
<1>10. BYTE <= Word /\ Short <= Word /\ Word \in Nat /\ BYTE \in Nat
  BY <1>1, <1>2, <1>3, <1>4, <1>6
<1>11. Values(sp) \in Nat /\ Values(sp) <= Word
  BY <1>2, <1>7, <1>10
<1> QED
  BY <1>8, <1>9, <1>10, <1>11

(* A buffer is smaller than the address space. *)
LEMMA WordType == Word \in Nat \ {0} /\ SIZE < Word
<1>1. Word \in Nat /\ MEM < Word
  BY ValuesRange, Constants
<1> HIDE DEF Word
<1> QED
  BY <1>1, Constants

(* The characters of digits. *)
LEMMA HexChars == \A j \in 1..16 : Hex[j] \in Chr /\ HEX[j] \in Chr
<1> SUFFICES ASSUME NEW j \in 1..16 PROVE Hex[j] \in Chr /\ HEX[j] \in Chr
  OBVIOUS
<1>1. \/ j = 1 \/ j = 2 \/ j = 3 \/ j = 4 \/ j = 5 \/ j = 6 \/ j = 7 \/ j = 8
      \/ j = 9 \/ j = 10 \/ j = 11 \/ j = 12 \/ j = 13 \/ j = 14 \/ j = 15 \/ j = 16
  OBVIOUS
<1>2. Hex[j] # NUL
  BY <1>1 DEF Hex, NUL
<1>3. HEX[j] # NUL
  BY <1>1 DEF HEX, NUL
<1> QED
  BY <1>2, <1>3, Zenon DEF Chr

(* The digits of a number are characters. *)
LEMMA DigitsType ==
  ASSUME NEW n \in Nat, NEW base \in {10, 16}, NEW table \in {Hex, HEX}
  PROVE  Digits(n, base, table) \in Seq(Chr)
<1> DEFINE Q(f) == f = [k \in 0..TMP |-> IF k = 0 THEN n ELSE f[k - 1] \div base]
           q == CHOOSE f : Q(f)
           step == [k \in 1..TMP |-> [x \in Nat |-> x \div base]]
           len == Cardinality({k \in 0..(TMP - 1) : q[k] > 0})
<1>1. Digits(n, base, table) = [k \in 1..len |-> table[1 + (q[len - k] % base)]]
  BY Zenon DEF Digits
<1>2. TMP \in Nat /\ TMP > 0
  BY Constants
<1>3. step \in [1..TMP -> [Nat -> Nat]]
  OBVIOUS
<1> HIDE DEF step
<1>4. PICK g \in [0..TMP -> Nat] : g[0] = n /\ \A k \in 1..TMP : g[k] = step[k][g[k - 1]]
  BY <1>2, <1>3, LoopExists, Zenon
<1>5. Q(g)
  <2>1. ASSUME NEW k \in 0..TMP
        PROVE  g[k] = IF k = 0 THEN n ELSE g[k - 1] \div base
    <3>1. CASE k = 0
      BY <1>4, <3>1
    <3>2. CASE k # 0
      <4>1. k \in 1..TMP /\ g[k - 1] \in Nat
        BY <1>2, <3>2
      <4>2. g[k] = step[k][g[k - 1]]
        BY <1>4, <4>1, Zenon
      <4>3. step[k] = [x \in Nat |-> x \div base]
        BY <4>1, Zenon DEF step
      <4> QED
        BY <3>2, <4>1, <4>2, <4>3
    <3> QED
      BY <3>1, <3>2
  <2>2. g = [k \in 0..TMP |-> g[k]]
    OBVIOUS
  <2> QED
    BY <2>1, <2>2, Zenon
<1>6. Q(q)
  <2> HIDE DEF Q
  <2> QED
    BY <1>5, Zenon
<1>7. \A k \in 0..TMP : q[k] = IF k = 0 THEN n ELSE q[k - 1] \div base
  <2> HIDE DEF q
  <2>1. q = [k \in 0..TMP |-> IF k = 0 THEN n ELSE q[k - 1] \div base]
    BY <1>6
  <2> QED
    BY <2>1, Zenon
<1> HIDE DEF q, Q
<1>8. \A k \in 0..TMP : q[k] \in Nat
  <2>1. q[0] \in Nat
    BY <1>2, <1>7
  <2>2. ASSUME NEW k \in 1..TMP, q[k - 1] \in Nat PROVE q[k] \in Nat
    <3>1. k \in 0..TMP /\ k # 0
      OBVIOUS
    <3>2. q[k] = q[k - 1] \div base
      BY <1>7, <3>1, Zenon
    <3> QED
      BY <2>2, <3>2
  <2> QED
    BY <1>2, <2>1, <2>2, LoopRange, Zenon
<1>9. len \in 0..TMP
  <2> DEFINE S == {k \in 0..(TMP - 1) : q[k] > 0}
  <2>1. IsFiniteSet(0..(TMP - 1)) /\ Cardinality(0..(TMP - 1)) = TMP
    <3>1. 0 \in Int /\ TMP - 1 \in Int /\ ~(0 > TMP - 1) /\ (TMP - 1) - 0 + 1 = TMP
      BY <1>2
    <3> QED
      BY <3>1, FS_Interval, Zenon
  <2>2. S \subseteq 0..(TMP - 1)
    OBVIOUS
  <2> HIDE DEF S
  <2>3. IsFiniteSet(S) /\ Cardinality(S) <= Cardinality(0..(TMP - 1))
    BY <2>1, <2>2, FS_Subset
  <2>4. Cardinality(S) \in Nat
    BY <2>3, FS_CardinalityType
  <2> QED
    BY <1>2, <2>1, <2>3, <2>4 DEF S
<1> HIDE DEF len
<1>10. ASSUME NEW k \in 1..len PROVE table[1 + (q[len - k] % base)] \in Chr
  <2>1. len - k \in 0..TMP
    BY <1>2, <1>9
  <2>2. q[len - k] \in Nat
    BY <1>8, <2>1
  <2>3. 1 + (q[len - k] % base) \in 1..16
    <3> DEFINE x == q[len - k]
    <3>1. x \in Nat
      BY <2>2
    <3> HIDE DEF x
    <3>2. x % 10 \in 0..9 /\ x % 16 \in 0..15
      BY <3>1
    <3> QED
      BY <3>2 DEF x
  <2> QED
    BY <2>3, HexChars
<1>11. [k \in 1..len |-> table[1 + (q[len - k] % base)]] \in [1..len -> Chr]
  BY <1>10
<1> QED
  BY <1>1, <1>9, <1>11

(* A text appended to a text. *)
LEMMA Concat ==
  ASSUME NEW s \in Seq(Chr), NEW t \in Seq(Chr)
  PROVE  s \o t \in Seq(Chr) /\ Len(s \o t) = Len(s) + Len(t)
OBVIOUS

(* The beginning of a text. *)
LEMMA Prefix ==
  ASSUME NEW s \in Seq(Chr), NEW n \in 0..Len(s)
  PROVE  SubSeq(s, 1, n) \in Seq(Chr) /\ Len(SubSeq(s, 1, n)) = n
OBVIOUS

(* A run of zeros. *)
LEMMA ZerosType ==
  ASSUME NEW n \in Nat
  PROVE  Zeros(n) \in Seq(Chr) /\ Len(Zeros(n)) = n
<1>1. "0" \in Chr
  BY DEF Chr, NUL
<1>2. Zeros(n) \in [1..n -> Chr]
  BY <1>1 DEF Zeros
<1> QED
  BY <1>2 DEF Zeros

(* The specification of a number. *)
Flags == {"ZERO_PADDING", "PREFIX", "SIGNED", "UPPERCASE"}
Specs == [flags : SUBSET Flags, width : Nat, length : {0, 1, 2, 8}, base : {10, 16}]

(* What number() writes before the digits. *)
Lead(neg, pre) == (IF neg THEN <<"-">> ELSE <<>>) \o (IF pre THEN <<"0", "x">> ELSE <<>>)

(* It is a text of up to three characters. *)
LEMMA LeadType ==
  ASSUME NEW neg \in BOOLEAN, NEW pre \in BOOLEAN
  PROVE  /\ Lead(neg, pre) \in Seq(Chr)
         /\ Len(Lead(neg, pre)) = (IF neg THEN 1 ELSE 0) + (IF pre THEN 2 ELSE 0)
<1>1. "-" \in Chr /\ "0" \in Chr /\ "x" \in Chr
  BY DEF Chr, NUL
<1>2. /\ (IF neg THEN <<"-">> ELSE <<>>) \in Seq(Chr)
      /\ Len(IF neg THEN <<"-">> ELSE <<>>) = IF neg THEN 1 ELSE 0
  BY <1>1
<1>3. /\ (IF pre THEN <<"0", "x">> ELSE <<>>) \in Seq(Chr)
      /\ Len(IF pre THEN <<"0", "x">> ELSE <<>>) = IF pre THEN 2 ELSE 0
  BY <1>1
<1> QED
  BY <1>2, <1>3, Concat DEF Lead

(* A loop that runs out of room makes fewer rounds. *)
LEMMA RoundsType ==
  ASSUME NEW n \in Nat, NEW room \in Nat
  PROVE  Rounds(n, room) \in 0..n /\ RoomAfter(n, room) \in Nat
<1>1. Word \in Nat \ {0}
  BY ValuesRange, Constants
<1>2. (room - n) % Word \in Nat
  BY <1>1
<1> QED
  BY <1>2 DEF Rounds, RoomAfter, Smaller

(* With enough room it makes them all. *)
LEMMA RoundsEnough ==
  ASSUME NEW n \in Nat, NEW room \in Nat, n < room, room < Word
  PROVE  Rounds(n, room) = n /\ RoomAfter(n, room) = room - n
<1>1. Word \in Nat \ {0}
  BY ValuesRange, Constants
<1>2. (room - n) % Word = room - n
  BY <1>1
<1> QED
  BY <1>2 DEF Rounds, RoomAfter, Smaller

(* What number() writes is a text, in whatever room. *)
LEMMA NumberType ==
  ASSUME NEW room \in Nat, NEW n \in 0..(Word - 1), NEW sp \in Specs
  PROVE  number(room, n, sp) \in Seq(Chr)
<1> DEFINE neg   == "SIGNED" \in sp.flags /\ n >= Word \div 2 /\ room > 1
           abs   == IF neg THEN Word - n ELSE n
           room1 == IF neg THEN room - 1 ELSE room
           pre   == "PREFIX" \in sp.flags /\ room1 > 2
           room2 == IF pre THEN room1 - 2 ELSE room1
           ds    == Digits(abs, sp.base, Table(sp))
           pad   == IF "ZERO_PADDING" \in sp.flags /\ sp.width > Len(ds)
                    THEN sp.width - Len(ds) ELSE 0
<1>1. number(room, n, sp) =
        IF abs = 0 THEN Lead(neg, pre) \o <<"0">>
        ELSE Lead(neg, pre) \o Zeros(Rounds(pad, room2))
                            \o SubSeq(ds, 1, Rounds(Len(ds), RoomAfter(pad, room2)))
  BY Zenon DEF number, Lead
<1>2. Word \in Nat /\ sp.width \in Nat /\ sp.base \in {10, 16}
  BY ValuesRange DEF Specs
<1>3. abs \in Nat /\ room2 \in Nat /\ neg \in BOOLEAN /\ pre \in BOOLEAN
  BY <1>2
<1> HIDE DEF abs, room2, neg, pre
<1>4. ds \in Seq(Chr)
  <2>1. Table(sp) \in {Hex, HEX}
    BY DEF Table
  <2> QED
    BY <1>2, <1>3, <2>1, DigitsType
<1> HIDE DEF ds
<1>5. pad \in Nat /\ Len(ds) \in Nat
  BY <1>2, <1>4
<1> HIDE DEF pad
<1>6. Zeros(Rounds(pad, room2)) \in Seq(Chr)
  <2>1. Rounds(pad, room2) \in 0..pad
    BY <1>3, <1>5, RoundsType, Zenon
  <2>2. Rounds(pad, room2) \in Nat
    BY <1>5, <2>1
  <2> QED
    BY <2>2, ZerosType
<1>7. SubSeq(ds, 1, Rounds(Len(ds), RoomAfter(pad, room2))) \in Seq(Chr)
  BY <1>3, <1>4, <1>5, RoundsType, Prefix
<1>8. <<"0">> \in Seq(Chr)
  <2>1. "0" \in Chr
    BY DEF Chr, NUL
  <2> QED
    BY <2>1
<1>9. Lead(neg, pre) \in Seq(Chr)
  BY <1>3, LeadType
<1>10. Lead(neg, pre) \o Zeros(Rounds(pad, room2)) \in Seq(Chr)
  BY <1>6, <1>9, Concat
<1> QED
  BY <1>1, <1>7, <1>8, <1>9, <1>10, Concat

(* The number that the low bytes of an argument stand for. *)
Value(n, sp) ==
  IF "SIGNED" \in sp.flags /\ (n % Values(sp)) >= Values(sp) \div 2
  THEN (n % Values(sp)) - Values(sp) ELSE n % Values(sp)

(* number_truncate() gives a negative number as the hardware does. *)
LEMMA TruncateValue ==
  ASSUME NEW n \in 0..(Word - 1), NEW sp \in Specs
  PROVE  /\ Value(n, sp) \in Int
         /\ number_truncate(n, sp) \in 0..(Word - 1)
         /\ number_truncate(n, sp) =
              IF Value(n, sp) < 0 THEN Word + Value(n, sp) ELSE Value(n, sp)
         /\ "SIGNED" \in sp.flags =>
              (Value(n, sp) < 0 <=> number_truncate(n, sp) >= Word \div 2)
         /\ Value(n, sp) < 0 => "SIGNED" \in sp.flags
<1> DEFINE V == Values(sp)
           low == n % V
<1>1. V \in Nat /\ V <= Word /\ Word \in Nat
  BY ValuesRange
<1>2. PICK h \in Nat \ {0} : V = 2 * h
  BY ValuesRange
<1>3. PICK g \in Nat \ {0} : Word = 2 * g
  BY ValuesRange
<1> HIDE DEF V
<1>4. V \div 2 = h /\ Word \div 2 = g /\ h <= g
  BY <1>1, <1>2, <1>3
<1>5. low \in 0..(V - 1)
  BY <1>1, <1>2
<1>6. /\ number_truncate(n, sp) = IF "SIGNED" \in sp.flags /\ low >= V \div 2
                                  THEN Word - V + low ELSE low
      /\ Value(n, sp) = IF "SIGNED" \in sp.flags /\ low >= V \div 2 THEN low - V ELSE low
  BY DEF number_truncate, Value, V
<1> HIDE DEF low
<1> QED
  BY <1>1, <1>2, <1>3, <1>4, <1>5, <1>6

(* The parts of the text of a number. *)
Abs(v) == IF v < 0 THEN 0 - v ELSE v

TextDigits(n, sp) ==
  IF Value(n, sp) = 0 THEN <<"0">> ELSE Digits(Abs(Value(n, sp)), sp.base, Table(sp))

Padding(n, sp) ==
  IF "ZERO_PADDING" \in sp.flags /\ Value(n, sp) # 0 /\ sp.width > Len(TextDigits(n, sp))
  THEN sp.width - Len(TextDigits(n, sp)) ELSE 0

(* The text of a number is made of its parts. *)
LEMMA NumberTextParts ==
  ASSUME NEW n \in 0..(Word - 1), NEW sp \in Specs
  PROVE  LET lead == Lead(Value(n, sp) < 0, "PREFIX" \in sp.flags)
             pad  == Padding(n, sp)
             ds   == TextDigits(n, sp)
             text == NumberText(n, sp)
         IN  /\ text = lead \o Zeros(pad) \o ds
             /\ lead \in Seq(Chr) /\ pad \in Nat /\ ds \in Seq(Chr) /\ text \in Seq(Chr)
             /\ Len(text) = Len(lead) + pad + Len(ds)
<1> DEFINE value == Value(n, sp)
           lead == Lead(value < 0, "PREFIX" \in sp.flags)
           pad  == Padding(n, sp)
           ds   == TextDigits(n, sp)
           zs   == IF "ZERO_PADDING" \in sp.flags /\ value # 0 /\ sp.width > Len(ds)
                   THEN Zeros(sp.width - Len(ds)) ELSE <<>>
<1>1. NumberText(n, sp) = lead \o zs \o ds
  BY Zenon DEF NumberText, Value, Lead, TextDigits, Abs
<1>2. value \in Int /\ sp.base \in {10, 16} /\ sp.width \in Nat
  BY TruncateValue DEF Specs
<1>3. ds \in Seq(Chr) /\ Len(ds) \in Nat
  <2>1. "0" \in Chr
    BY DEF Chr, NUL
  <2>2. <<"0">> \in Seq(Chr)
    BY <2>1
  <2>3. Digits(Abs(value), sp.base, Table(sp)) \in Seq(Chr)
    <3>1. Table(sp) \in {Hex, HEX} /\ Abs(value) \in Nat
      BY <1>2 DEF Table, Abs
    <3> QED
      BY <1>2, <3>1, DigitsType
  <2> QED
    BY <2>2, <2>3 DEF TextDigits
<1> HIDE DEF ds, value
<1>4. zs = Zeros(pad) /\ pad \in Nat
  <2>1. Zeros(0) = <<>>
    BY DEF Zeros
  <2> QED
    BY <1>2, <1>3, <2>1 DEF Padding, ds, value
<1> HIDE DEF zs, pad
<1>5. lead \in Seq(Chr)
  <2>1. (value < 0) \in BOOLEAN
    BY <1>2
  <2>2. ("PREFIX" \in sp.flags) \in BOOLEAN
    OBVIOUS
  <2> QED
    BY <2>1, <2>2, LeadType, Zenon
<1> HIDE DEF lead
<1>6. Zeros(pad) \in Seq(Chr) /\ Len(Zeros(pad)) = pad
  BY <1>4, ZerosType
<1>7. lead \o Zeros(pad) \in Seq(Chr) /\ Len(lead \o Zeros(pad)) = Len(lead) + pad
  BY <1>5, <1>6, Concat
<1>8. /\ (lead \o Zeros(pad)) \o ds \in Seq(Chr)
      /\ Len((lead \o Zeros(pad)) \o ds) = Len(lead) + pad + Len(ds)
  BY <1>3, <1>7, Concat
<1>9. NumberText(n, sp) = lead \o Zeros(pad) \o ds
  BY <1>1, <1>4
<1> QED
  BY <1>3, <1>4, <1>5, <1>8, <1>9 DEF lead, pad, ds, value

(* Given room for the whole text and its NUL, number() writes the text of  *)
(* the argument.                                                           *)
LEMMA NumberFits ==
  ASSUME NEW n \in 0..(Word - 1), NEW sp \in Specs, NEW room \in Nat,
         Len(NumberText(n, sp)) < room, room < Word
  PROVE  number(room, number_truncate(n, sp), sp) = NumberText(n, sp)
<1> DEFINE m     == number_truncate(n, sp)
           value == Value(n, sp)
           neg   == "SIGNED" \in sp.flags /\ m >= Word \div 2 /\ room > 1
           abs   == IF neg THEN Word - m ELSE m
           room1 == IF neg THEN room - 1 ELSE room
           pre   == "PREFIX" \in sp.flags /\ room1 > 2
           room2 == IF pre THEN room1 - 2 ELSE room1
           ds    == Digits(abs, sp.base, Table(sp))
           pad   == IF "ZERO_PADDING" \in sp.flags /\ sp.width > Len(ds)
                    THEN sp.width - Len(ds) ELSE 0
           text  == NumberText(n, sp)
           lead  == Lead(value < 0, "PREFIX" \in sp.flags)
           tpad  == Padding(n, sp)
           tds   == TextDigits(n, sp)
<1>1. number(room, m, sp) =
        IF abs = 0 THEN Lead(neg, pre) \o <<"0">>
        ELSE Lead(neg, pre) \o Zeros(Rounds(pad, room2))
                            \o SubSeq(ds, 1, Rounds(Len(ds), RoomAfter(pad, room2)))
  BY Zenon DEF number, Lead
<1>2. /\ text = lead \o Zeros(tpad) \o tds
      /\ lead \in Seq(Chr) /\ tpad \in Nat /\ tds \in Seq(Chr)
      /\ Len(text) = Len(lead) + tpad + Len(tds)
  BY NumberTextParts
<1>3. /\ value \in Int /\ m \in 0..(Word - 1)
      /\ m = IF value < 0 THEN Word + value ELSE value
      /\ "SIGNED" \in sp.flags => (value < 0 <=> m >= Word \div 2)
      /\ value < 0 => "SIGNED" \in sp.flags
  BY TruncateValue
<1>4. Len(lead) = (IF value < 0 THEN 1 ELSE 0) + (IF "PREFIX" \in sp.flags THEN 2 ELSE 0)
  <2>1. (value < 0) \in BOOLEAN
    BY <1>3
  <2>2. ("PREFIX" \in sp.flags) \in BOOLEAN
    OBVIOUS
  <2> QED
    BY <2>1, <2>2, LeadType, Zenon
<1>5. Len(tds) \in Nat /\ Word \in Nat /\ Len(text) < room
  <2>1. Word \in Nat
    BY ValuesRange
  <2>2. tds \in Seq(Chr)
    BY <1>2
  <2> HIDE DEF tds
  <2> QED
    BY <2>1, <2>2
<1> HIDE DEF m, value, text, tds, tpad
<1>6. neg <=> value < 0
  BY <1>2, <1>3, <1>4, <1>5
<1>7. abs = Abs(value) /\ room1 = room - (IF neg THEN 1 ELSE 0)
  BY <1>3, <1>5, <1>6 DEF Abs
<1>8. pre <=> "PREFIX" \in sp.flags
  BY <1>2, <1>4, <1>5, <1>6, <1>7
<1>9. /\ Lead(neg, pre) = lead
      /\ room2 = room - Len(lead) /\ room2 \in Nat
  <2>1. Lead(neg, pre) = lead
    BY <1>6, <1>8 DEF Lead
  <2>2. room2 = room - Len(lead)
    BY <1>4, <1>5, <1>6, <1>7, <1>8
  <2>3. Len(lead) <= room /\ Len(lead) \in Nat
    BY <1>2, <1>4, <1>5
  <2> QED
    BY <2>1, <2>2, <2>3
<1> HIDE DEF neg, pre, abs, room1, room2, lead
<1>10. CASE value = 0
  <2>1. abs = 0 /\ tds = <<"0">> /\ tpad = 0
    BY <1>7, <1>10 DEF tds, tpad, TextDigits, Padding, value, Abs
  <2>2. Zeros(0) = <<>>
    BY DEF Zeros
  <2>3. text = lead \o <<>> \o <<"0">> /\ lead \o <<>> = lead
    BY <1>2, <2>1, <2>2
  <2> QED
    BY <1>1, <1>9, <2>1, <2>3 DEF m, text
<1>11. CASE value # 0
  <2>1. abs # 0 /\ tds = ds
    BY <1>3, <1>7, <1>11 DEF tds, TextDigits, value, Abs
  <2>2. tpad = pad
    BY <1>11, <2>1 DEF tpad, Padding, tds, value
  <2> HIDE DEF ds, pad
  <2>3. pad \in Nat /\ Len(ds) \in Nat /\ pad + Len(ds) < room2 /\ room2 < Word
    BY <1>2, <1>5, <1>9, <2>1, <2>2
  <2>4. Rounds(pad, room2) = pad /\ RoomAfter(pad, room2) = room2 - pad
    BY <1>9, <2>3, RoundsEnough
  <2>5. Rounds(Len(ds), room2 - pad) = Len(ds)
    <3>1. room2 - pad \in Nat /\ Len(ds) < room2 - pad /\ room2 - pad < Word
      BY <1>5, <1>9, <2>3
    <3> QED
      BY <2>3, <3>1, RoundsEnough, Zenon
  <2>6. SubSeq(ds, 1, Len(ds)) = ds
    BY <1>2, <2>1
  <2> QED
    BY <1>1, <1>2, <1>9, <2>1, <2>2, <2>4, <2>5, <2>6 DEF m, text
<1> QED
  BY <1>3, <1>10, <1>11

-----------------------------------------------------------------------------
(* The types of the parser's state. *)
TypeInv ==
  /\ fmt \in Formats \cup {<<>>} /\ i \in Nat /\ percent \in Nat
  /\ state \in {"NONE", "SPECIFIER", "NUMBER", "PTR", "STR", "CHAR", "INVALID", "END",
                "RETURN"}
  /\ size \in 1..SIZE
  /\ spec \in [flags : SUBSET Flags, width : 0..(BYTE - 1), length : {0, 1, 2, 8},
               base : {0, 10, 16}]
  /\ state \in {"NUMBER", "PTR"} => spec.base \in {10, 16}
  /\ state = "PTR" => "SIGNED" \notin spec.flags

(* What the buffer holds: as long as the text so far fits, it is the text  *)
(* so far, and the cursor is behind it.                                    *)
BufInv ==
  /\ ideal \in Seq(Chr) /\ bufp \in Nat
  /\ buf = [k \in 0..(MEM - 1) |-> buf[k]]
  /\ size = SIZE /\ Len(ideal) < SIZE =>
       bufp = Len(ideal) /\ \A k \in 1..Len(ideal) : buf[k - 1] = ideal[k]

(* And when the call has returned, the text is terminated. *)
EndInv ==
  state = "RETURN" /\ calls > 0 /\ size = SIZE /\ Len(ideal) < SIZE => buf[bufp] = NUL

TextInv == TypeInv /\ BufInv /\ EndInv

(* A step of the parser keeps the types. *)
LEMMA ParseTypes ==
  ASSUME IInv, TypeInv, parse_specifier
  PROVE  TypeInv'
<1> DEFINE flag == parse_flag(At(i))
           k    == IF flag = {} THEN i ELSE i + 1
           end  == WidthEnd(k)
           len  == parse_length(end)
           type == parse_type(At(end + len[2]))
<1>1. /\ state = "SPECIFIER" /\ state' = type.state /\ i' = end + len[2] + 1
      /\ spec' = [flags |-> flag \cup type.flags, width |-> parse_width(k),
                  length |-> len[1], base |-> type.base]
      /\ UNCHANGED <<fmt, percent, size>>
  BY DEF parse_specifier, In
<1>2. fmt \in Seq(STRING) /\ Len(fmt) \in Nat /\ i \in 1..(Len(fmt) + 1)
  BY <1>1 DEF IInv
<1>3. k \in 1..(Len(fmt) + 1)
  <2>1. flag # {} => i <= Len(fmt)
    BY <1>2, NulIsNothing DEF At
  <2> HIDE DEF flag
  <2> QED
    BY <1>2, <2>1
<1>4. flag \subseteq Flags
  BY DEF parse_flag, Flags
<1> HIDE DEF k, flag
<1>5. end \in 1..(Len(fmt) + 1) /\ parse_width(k) \in 0..(BYTE - 1)
  BY <1>2, <1>3, WidthEnds, WidthRange
<1> HIDE DEF end
<1>6. len[1] \in {0, 1, 2, 8} /\ len[2] \in {0, 1, 2}
  BY DEF parse_length
<1> HIDE DEF len
<1>7. /\ type.state \in {"NUMBER", "PTR", "STR", "CHAR", "INVALID"}
      /\ type.base \in {0, 10, 16} /\ type.flags \subseteq Flags
      /\ type.state \in {"NUMBER", "PTR"} => type.base \in {10, 16}
      /\ type.state = "PTR" => "SIGNED" \notin type.flags
  BY DEF parse_type, Type, Flags
<1>8. "SIGNED" \notin flag
  BY DEF flag, parse_flag
<1> HIDE DEF type
<1>9. i' \in Nat
  BY <1>1, <1>2, <1>5, <1>6
<1>10. spec' \in [flags : SUBSET Flags, width : 0..(BYTE - 1), length : {0, 1, 2, 8},
                  base : {0, 10, 16}]
  BY <1>1, <1>4, <1>5, <1>6, <1>7
<1>11. /\ state' \in {"NUMBER", "PTR"} => spec'.base \in {10, 16}
       /\ state' = "PTR" => "SIGNED" \notin spec'.flags
  BY <1>1, <1>7, <1>8
<1> QED
  BY <1>1, <1>7, <1>9, <1>10, <1>11 DEF TypeInv

(* Writing what was asked for, if it fits, keeps the text so far. *)
LEMMA PutKeeps ==
  ASSUME BufInv, TypeInv, NEW s \in Seq(Chr), NEW text \in Seq(Chr), Put(s, text),
         size' \in 1..SIZE, size' <= size,
         size' = SIZE /\ Len(ideal) + Len(text) < SIZE => s = text
  PROVE  BufInv'
<1>1. /\ ideal \in Seq(Chr) /\ bufp \in Nat /\ Len(ideal) \in Nat /\ Len(text) \in Nat
      /\ Len(s) \in Nat
  BY DEF BufInv
<1>2. ideal' = ideal \o text /\ bufp' = bufp + Len(s)
  BY DEF Put
<1>3. ideal' \in Seq(Chr) /\ Len(ideal') = Len(ideal) + Len(text) /\ bufp' \in Nat
  BY <1>1, <1>2, Concat
<1>4. DOMAIN buf = 0..(MEM - 1)
  BY DEF BufInv
<1>5. /\ buf' = [k \in 0..(MEM - 1) |-> buf'[k]]
      /\ \A k \in 0..(MEM - 1) : buf'[k] = IF k \in bufp..(bufp + Len(s) - 1)
                                           THEN s[k - bufp + 1] ELSE buf[k]
  BY <1>4 DEF Put
<1>6. ASSUME size' = SIZE, Len(ideal') < SIZE
      PROVE  bufp' = Len(ideal') /\ \A k \in 1..Len(ideal') : buf'[k - 1] = ideal'[k]
  <2>1. size = SIZE /\ Len(ideal) < SIZE /\ s = text
    BY <1>1, <1>3, <1>6, Constants DEF TypeInv
  <2>2. bufp = Len(ideal) /\ \A k \in 1..Len(ideal) : buf[k - 1] = ideal[k]
    BY <2>1 DEF BufInv
  <2>3. ASSUME NEW k \in 1..Len(ideal') PROVE buf'[k - 1] = ideal'[k]
    <3>1. k \in 1..(Len(ideal) + Len(text)) /\ k - 1 \in 0..(MEM - 1)
      BY <1>1, <1>3, <1>6, Constants
    <3>2. CASE k <= Len(ideal)
      <4>1. buf'[k - 1] = buf[k - 1] /\ k \in 1..Len(ideal)
        BY <1>1, <1>5, <2>2, <3>1, <3>2
      <4>2. ideal'[k] = ideal[k]
        BY <1>1, <1>2, <3>1, <3>2
      <4> QED
        BY <2>2, <4>1, <4>2
    <3>3. CASE k > Len(ideal)
      <4>1. k - 1 \in bufp..(bufp + Len(s) - 1) /\ (k - 1) - bufp + 1 = k - Len(ideal)
        BY <1>1, <2>1, <2>2, <3>1, <3>3
      <4>2. buf'[k - 1] = s[k - Len(ideal)]
        BY <1>5, <3>1, <4>1
      <4>3. ideal'[k] = text[k - Len(ideal)]
        BY <1>1, <1>2, <3>1, <3>3
      <4> QED
        BY <2>1, <4>2, <4>3
    <3> QED
      BY <1>1, <3>1, <3>2, <3>3
  <2> QED
    BY <1>2, <1>3, <2>1, <2>2, <2>3
<1> QED
  BY <1>3, <1>5, <1>6 DEF BufInv

(* The room that a conversion is told it has, while the text fits. *)
LEMMA RoomLeft ==
  ASSUME BufInv, TypeInv
  PROVE  /\ remaining \in Nat
         /\ size = SIZE /\ Len(ideal) < SIZE =>
              remaining = SIZE - Len(ideal) /\ remaining < Word
<1>1. /\ Word \in Nat \ {0} /\ SIZE \in Nat /\ SIZE < Word /\ size \in Nat /\ bufp \in Nat
      /\ Len(ideal) \in Nat
  <2>1. size \in Nat /\ bufp \in Nat /\ Len(ideal) \in Nat
    BY Constants DEF BufInv, TypeInv
  <2> QED
    BY <2>1, WordType, Constants
<1>2. remaining \in Nat
  BY <1>1 DEF remaining
<1>3. ASSUME size = SIZE, Len(ideal) < SIZE
      PROVE  remaining = SIZE - Len(ideal) /\ remaining < Word
  <2>1. bufp = Len(ideal)
    BY <1>3 DEF BufInv
  <2> QED
    BY <1>1, <1>3, <2>1 DEF remaining
<1> QED
  BY <1>2, <1>3

(* A number has a base when it is converted. *)
LEMMA NumberSpec ==
  ASSUME TypeInv, state \in {"NUMBER", "PTR"}
  PROVE  spec \in Specs /\ [spec EXCEPT !.length = 0] \in Specs
<1>1. /\ spec \in [flags : SUBSET Flags, width : 0..(BYTE - 1), length : {0, 1, 2, 8},
                   base : {0, 10, 16}]
      /\ spec.base \in {10, 16}
  BY DEF TypeInv
<1>2. 0..(BYTE - 1) \subseteq Nat
  BY Constants
<1>3. spec \in Specs
  BY <1>1, <1>2 DEF Specs
<1> QED
  BY <1>3 DEF Specs

(* A number is written whole, if it fits. *)
LEMMA NumberStep ==
  ASSUME BufInv, TypeInv, Number
  PROVE  BufInv'
<1>1. PICK n \in Numbers :
        Put(number(remaining, number_truncate(n, spec), spec), NumberText(n, spec))
  BY DEF Number
<1> DEFINE m == number_truncate(n, spec)
           s == number(remaining, m, spec)
           text == NumberText(n, spec)
<1>2. n \in 0..(Word - 1) /\ spec \in Specs /\ size' = size /\ size \in 1..SIZE
  BY PrintfAssumption, NumberSpec DEF Number, In, TypeInv
<1>3. m \in 0..(Word - 1) /\ text \in Seq(Chr) /\ remaining \in Nat
  BY <1>2, TruncateValue, NumberTextParts, RoomLeft
<1>4. s \in Seq(Chr)
  BY <1>2, <1>3, NumberType
<1>5. ASSUME size' = SIZE, Len(ideal) + Len(text) < SIZE PROVE s = text
  <2>1. Len(ideal) \in Nat /\ Len(text) \in Nat /\ SIZE \in Nat
    BY <1>3, Constants DEF BufInv
  <2>2. remaining = SIZE - Len(ideal) /\ remaining < Word
    BY <1>2, <1>5, <2>1, RoomLeft
  <2>3. Len(text) < remaining
    BY <1>5, <2>1, <2>2
  <2> QED
    BY <1>2, <1>3, <2>2, <2>3, NumberFits
<1> HIDE DEF s, text
<1>6. Put(s, text)
  BY <1>1 DEF s, text
<1>7. size' <= size
  BY <1>2, Constants
<1> QED
  BY <1>2, <1>3, <1>4, <1>5, <1>6, <1>7, PutKeeps

(* A pointer is told the whole buffer's room, which is more than enough. *)
LEMMA PointerStep ==
  ASSUME BufInv, TypeInv, Pointer
  PROVE  BufInv'
<1> DEFINE sp == [spec EXCEPT !.length = 0]
<1>1. PICK n \in Numbers : Put(pointer(size, n, spec), NumberText(n, sp))
  BY DEF Pointer
<1> DEFINE s == number(size, n, sp)
           text == NumberText(n, sp)
<1>2. /\ n \in 0..(Word - 1) /\ sp \in Specs /\ size' = size /\ size \in 1..SIZE
      /\ sp.length = 0 /\ "SIGNED" \notin sp.flags /\ state = "PTR"
  BY PrintfAssumption, NumberSpec DEF Pointer, In, TypeInv
<1>3. pointer(size, n, spec) = s
  <2>1. sp.flags = spec.flags /\ sp.width = spec.width /\ sp.base = spec.base
    BY DEF TypeInv
  <2> HIDE DEF sp
  <2>2. Table(sp) = Table(spec)
    BY <2>1 DEF Table
  <2> QED
    BY <2>1, <2>2, Zenon DEF pointer, number
<1>4. number_truncate(n, sp) = n
  <2>1. Values(sp) = Word /\ Word \in Nat \ {0}
    BY <1>2, ValuesRange, Constants DEF Values
  <2>2. n % Word = n
    BY <1>2, <2>1
  <2> HIDE DEF sp
  <2> QED
    BY <1>2, <2>1, <2>2 DEF number_truncate
<1> HIDE DEF sp
<1>5. text \in Seq(Chr) /\ size \in Nat /\ size < Word
  <2>1. text \in Seq(Chr)
    BY <1>2, NumberTextParts
  <2>2. size \in Nat /\ size < Word
    BY <1>2, Constants, WordType
  <2> QED
    BY <2>1, <2>2
<1>6. s \in Seq(Chr)
  BY <1>2, <1>5, NumberType
<1>7. ASSUME size' = SIZE, Len(ideal) + Len(text) < SIZE PROVE s = text
  <2>1. Len(ideal) \in Nat /\ Len(text) \in Nat /\ SIZE \in Nat
    BY <1>5, Constants DEF BufInv
  <2>2. Len(text) < size
    BY <1>2, <1>7, <2>1
  <2> QED
    BY <1>2, <1>4, <1>5, <2>2, NumberFits
<1> HIDE DEF s, text
<1>8. Put(s, text)
  BY <1>1, <1>3 DEF text
<1>9. size' <= size
  BY <1>2, Constants
<1> QED
  BY <1>2, <1>5, <1>6, <1>7, <1>8, <1>9, PutKeeps

(* A string is copied up to its NUL. *)
LEMMA StringStep ==
  ASSUME BufInv, TypeInv, String
  PROVE  BufInv'
<1>1. PICK text \in Strings : Put(string(remaining, text), text)
  BY DEF String
<1> DEFINE s == string(remaining, text)
<1>2. size' = size /\ size \in 1..SIZE /\ size' <= size
  BY Constants DEF String, TypeInv
<1>3. text \in Seq(Chr) /\ Len(text) \in Nat
  <2>1. text \in Seq(STRING \ {NUL})
    BY PrintfAssumption
  <2>2. STRING \ {NUL} \subseteq Chr
    BY Zenon DEF Chr
  <2> QED
    BY <2>1, <2>2
<1>4. remaining \in Nat
  BY RoomLeft
<1>5. s \in Seq(Chr)
  <2>1. Smaller(remaining, Len(text)) \in 0..Len(text)
    BY <1>3, <1>4 DEF Smaller
  <2> QED
    BY <1>3, <2>1, Prefix DEF string
<1>6. ASSUME size' = SIZE, Len(ideal) + Len(text) < SIZE PROVE s = text
  <2>1. Len(ideal) \in Nat /\ SIZE \in Nat
    BY Constants DEF BufInv
  <2>2. remaining = SIZE - Len(ideal)
    BY <1>2, <1>3, <1>6, <2>1, RoomLeft
  <2>3. Smaller(remaining, Len(text)) = Len(text)
    BY <1>3, <1>6, <2>1, <2>2 DEF Smaller
  <2> QED
    BY <1>3, <2>3 DEF string
<1> HIDE DEF s
<1>7. Put(s, text)
  BY <1>1 DEF s
<1> QED
  BY <1>2, <1>3, <1>5, <1>6, <1>7, PutKeeps

(* One character of the format, of the arguments, or the % of an invalid   *)
(* specification, which takes one from the room.                           *)
LEMMA CharacterSteps ==
  ASSUME IInv, BufInv, TypeInv, Literal \/ Character \/ Invalid
  PROVE  BufInv'
<1>1. size \in 1..SIZE /\ SIZE \in Nat /\ SIZE < Word /\ Word \in Nat
  BY Constants, WordType DEF TypeInv
<1>2. CASE Literal
  <2>1. Put(<<At(i)>>, <<At(i)>>) /\ size' = size /\ At(i) # NUL /\ i <= Len(fmt) + 1
    BY <1>2 DEF Literal, In, IInv
  <2>2. At(i) \in Chr
    <3>1. i \in 1..Len(fmt) /\ fmt \in Seq(STRING)
      BY <1>2, <2>1 DEF Literal, In, IInv, At
    <3>2. At(i) \in STRING
      BY <3>1 DEF At
    <3> QED
      BY <2>1, <3>2, Zenon DEF Chr
  <2>3. <<At(i)>> \in Seq(Chr) /\ size' \in 1..SIZE /\ size' <= size
    BY <1>1, <2>1, <2>2
  <2> QED
    BY <2>1, <2>3, PutKeeps
<1>3. CASE Character
  <2>1. Put(character(size, "c"), <<"c">>) /\ size' = size /\ size > 1
    BY <1>3 DEF Character, In
  <2>2. "c" \in Chr
    BY DEF Chr, NUL
  <2>3. (size - 1) % Word = size - 1
    BY <1>1
  <2>4. character(size, "c") = <<"c">>
    BY <1>1, <2>1, <2>3 DEF character
  <2>5. <<"c">> \in Seq(Chr) /\ Put(<<"c">>, <<"c">>) /\ size' \in 1..SIZE /\ size' <= size
    BY <1>1, <2>1, <2>2, <2>4
  <2> QED
    BY <2>5, PutKeeps
<1>4. CASE Invalid
  <2>1. Put(IF size' > 0 THEN <<"%">> ELSE <<>>, <<"%">>) /\ size' = size - 1 /\ size > 1
    BY <1>4 DEF Invalid, In
  <2>2. "%" \in Chr
    BY DEF Chr, NUL
  <2>3. <<"%">> \in Seq(Chr) /\ Put(<<"%">>, <<"%">>) /\ size' \in 1..SIZE /\ size' <= size
    BY <1>1, <2>1, <2>2
  <2> QED
    BY <2>3, PutKeeps
<1> QED
  BY <1>2, <1>3, <1>4

(* Every step keeps the types, the text so far and its end. *)
LEMMA TextStep == IInv /\ TextInv /\ [Next]_vars => TextInv'
<1> SUFFICES ASSUME IInv, TypeInv, BufInv, EndInv, [Next]_vars PROVE TextInv'
  BY DEF TextInv
<1>0. size \in 1..SIZE /\ SIZE \in Nat \ {0}
  BY Constants DEF TypeInv
<1>1. CASE Call
  <2>1. TypeInv'
    <3>1. spec' \in [flags : SUBSET Flags, width : 0..(BYTE - 1), length : {0, 1, 2, 8},
                     base : {0, 10, 16}]
      BY <1>1, Constants DEF Call, NoSpec
    <3> QED
      BY <1>0, <1>1, <3>1 DEF Call, TypeInv
  <2>2. BufInv'
    BY <1>1 DEF Call, BufInv
  <2> QED
    BY <1>1, <2>1, <2>2 DEF Call, TextInv, EndInv
<1>2. CASE EndOfFormat \/ Percent \/ parse_specifier
  <2>1. state' # "RETURN" /\ UNCHANGED <<size, bufp, buf, ideal>>
    <3>1. ASSUME NEW c PROVE parse_type(c).state # "RETURN"
      BY DEF parse_type, Type
    <3>2. CASE parse_specifier
      BY <3>1, <3>2 DEF parse_specifier
    <3> QED
      BY <1>2, <3>2 DEF EndOfFormat, Percent, AtNul
  <2>2. TypeInv'
    <3>1. CASE EndOfFormat
      BY <3>1 DEF EndOfFormat, AtNul, TypeInv
    <3>2. CASE Percent
      <4>1. NoSpec \in [flags : SUBSET Flags, width : 0..(BYTE - 1), length : {0, 1, 2, 8},
                        base : {0, 10, 16}]
        BY Constants DEF NoSpec
      <4> QED
        BY <3>2, <4>1 DEF Percent, TypeInv
    <3>3. CASE parse_specifier
      BY <3>3, ParseTypes
    <3> QED
      BY <1>2, <3>1, <3>2, <3>3
  <2> QED
    BY <2>1, <2>2 DEF TextInv, BufInv, EndInv
<1>3. CASE Literal \/ Character \/ Invalid
  <2>1. state' # "RETURN"
    BY <1>3 DEF Literal, Character, Invalid, In
  <2>2. TypeInv'
    <3>1. CASE Literal
      BY <3>1 DEF Literal, In, TypeInv
    <3>2. CASE Character
      BY <3>2 DEF Character, TypeInv
    <3>3. CASE Invalid
      BY <1>0, <3>3 DEF Invalid, In, AfterInvalid, TypeInv
    <3> QED
      BY <1>3, <3>1, <3>2, <3>3
  <2> QED
    BY <1>3, <2>1, <2>2, CharacterSteps DEF TextInv, EndInv
<1>4. CASE Number \/ Pointer \/ String
  <2>1. state' = "NONE" /\ UNCHANGED <<fmt, i, spec, percent, size>>
    BY <1>4 DEF Number, Pointer, String
  <2>2. TypeInv'
    BY <2>1 DEF TypeInv
  <2> QED
    BY <1>4, <2>1, <2>2, NumberStep, PointerStep, StringStep DEF TextInv, EndInv
<1>5. CASE Terminate
  <2>1. /\ state' = "RETURN" /\ UNCHANGED <<fmt, i, spec, percent, size, bufp, ideal>>
        /\ buf' = [buf EXCEPT ![bufp] = NUL]
    BY <1>5 DEF Terminate, Terminated
  <2>2. TypeInv'
    BY <2>1 DEF TypeInv
  <2>3. DOMAIN buf = 0..(MEM - 1) /\ bufp \in Nat /\ Len(ideal) \in Nat
    BY DEF BufInv
  <2>4. buf' = [k \in 0..(MEM - 1) |-> buf'[k]]
    BY <2>1, <2>3
  <2>5. ASSUME size = SIZE, Len(ideal) < SIZE
        PROVE  /\ bufp = Len(ideal) /\ \A k \in 1..Len(ideal) : buf'[k - 1] = ideal[k]
               /\ buf'[bufp] = NUL
    <3>1. bufp = Len(ideal) /\ \A k \in 1..Len(ideal) : buf[k - 1] = ideal[k]
      BY <2>5 DEF BufInv
    <3>2. bufp \in 0..(MEM - 1)
      BY <2>3, <2>5, <3>1, Constants
    <3>3. ASSUME NEW k \in 1..Len(ideal) PROVE buf'[k - 1] = buf[k - 1]
      <4>1. k - 1 \in 0..(MEM - 1) /\ k - 1 # bufp
        BY <2>3, <3>1, <3>2, Constants
      <4> QED
        BY <2>1, <2>3, <4>1
    <3> QED
      BY <2>1, <2>3, <3>1, <3>2, <3>3
  <2> QED
    BY <2>1, <2>2, <2>3, <2>4, <2>5 DEF TextInv, BufInv, EndInv
<1>6. CASE UNCHANGED vars
  <2>1. TypeInv'
    BY <1>6 DEF TypeInv
  <2>2. BufInv'
    BY <1>6 DEF BufInv
  <2>3. EndInv'
    BY <1>6 DEF EndInv
  <2> QED
    BY <2>1, <2>2, <2>3 DEF TextInv
<1> QED
  BY <1>1, <1>2, <1>3, <1>4, <1>5, <1>6 DEF Next, vsnprintf

(* What is printed is the buffer up to the first NUL: the text. *)
LEMMA Printed == TextInv => ExactIfFits
<1> SUFFICES ASSUME TypeInv, BufInv, EndInv, state = "RETURN", calls > 0, size = SIZE,
                    Len(ideal) < SIZE
             PROVE  Text = ideal
  BY DEF TextInv, ExactIfFits
<1> DEFINE nuls == {k \in DOMAIN buf : buf[k] = NUL}
           First(k) == \A j \in nuls : k <= j
           end == CHOOSE k \in nuls \cup {MEM} : First(k)
<1>1. /\ buf[bufp] = NUL /\ bufp = Len(ideal) /\ bufp \in Nat /\ ideal \in Seq(Chr)
      /\ \A k \in 1..Len(ideal) : buf[k - 1] = ideal[k]
      /\ DOMAIN buf = 0..(MEM - 1)
  BY DEF BufInv, EndInv
<1>2. bufp \in nuls /\ bufp < MEM /\ MEM \in Nat
  BY <1>1, Constants
<1>3. First(bufp)
  <2> SUFFICES ASSUME NEW j \in nuls, j < bufp PROVE FALSE
    BY <1>1
  <2>1. j + 1 \in 1..Len(ideal) /\ (j + 1) - 1 = j
    BY <1>1
  <2>2. buf[j] = ideal[j + 1]
    BY <1>1, <2>1
  <2>3. ideal[j + 1] # NUL
    <3>1. ideal[j + 1] \in Chr
      BY <1>1, <2>1
    <3> QED
      BY <3>1, Zenon DEF Chr
  <2> QED
    BY <2>2, <2>3
<1>4. end \in nuls \cup {MEM} /\ First(end)
  <2> HIDE DEF First, nuls
  <2> QED
    BY <1>2, <1>3
<1>5. end = bufp
  <2> HIDE DEF end
  <2>1. end <= bufp
    BY <1>2, <1>4
  <2>2. end \in nuls
    BY <1>1, <1>2, <1>4, <2>1
  <2>3. bufp <= end /\ end \in Int
    BY <1>1, <1>3, <2>2
  <2> QED
    BY <1>1, <2>1, <2>3
<1>6. Text = [k \in 1..end |-> buf[k - 1]]
  BY Zenon DEF Text
<1> HIDE DEF end
<1> QED
  BY <1>1, <1>5, <1>6

(* The invariant of the text holds in every reachable state. *)
LEMMA TextInvariance == Spec => []TextInv
<1>1. Init => TextInv
  <2> SUFFICES ASSUME Init PROVE TextInv
    OBVIOUS
  <2>1. TypeInv
    <3>1. NoSpec \in [flags : SUBSET Flags, width : 0..(BYTE - 1), length : {0, 1, 2, 8},
                      base : {0, 10, 16}]
      BY Constants DEF NoSpec
    <3> QED
      BY <3>1, Constants DEF Init, TypeInv
  <2>2. BufInv /\ EndInv
    BY DEF Init, BufInv, EndInv
  <2> QED
    BY <2>1, <2>2 DEF TextInv
<1> QED
  BY <1>1, TextStep, Invariance, PTL DEF Spec

(* If the text that a format and its arguments stand for fits in the       *)
(* buffer, vsnprintf() leaves exactly that text, for every format, number, *)
(* string and size of the buffer and whatever the buffer held before: the  *)
(* truncation, sign extension, prefix and padding of number() included.    *)
THEOREM TextIsExact == Spec => []ExactIfFits
  BY TextInvariance, Printed, PTL

(* The state of the parser keeps its types as long as the cursor is in the *)
(* memory that is modelled: a width is a u8 whatever its digits are, and   *)
(* the size never drops below one.                                         *)
THEOREM TypeCorrect == Spec => [](bufp < MEM => TypeOK)
<1>1. TextInv => (bufp < MEM => TypeOK)
  BY Constants DEF TextInv, TypeInv, BufInv, TypeOK
<1> QED
  BY <1>1, TextInvariance, PTL

=============================================================================
