------------------------------ MODULE Strings -------------------------------
(***************************************************************************)
(* The functions of src/string.c that the device tree parser and the test  *)
(* kernel use.  A C string is the sequence of its bytes without the NUL; a *)
(* loop over strings is said by the index at which it stops.               *)
(***************************************************************************)
EXTENDS Integers, Sequences

Byte(s, j) == IF j <= Len(s) THEN s[j] ELSE 0

(* Mutant: strings are the same as soon as one of them ends. *)
strcmp_Prefix(s, t) ==
  IF \A j \in 1..Len(s) : j <= Len(t) => s[j] = t[j] THEN 0 ELSE 1

strcmp(s, t) ==
  LET Stop(j) == j = Len(s) + 1 \/ s[j] # Byte(t, j)
      n == CHOOSE j \in 1..(Len(s) + 1) : Stop(j) /\ \A i \in 1..(j - 1) : ~Stop(i)
  IN  Byte(s, n) - Byte(t, n)

(* With n = 0 it still compares the first character; nobody passes 0. *)
strncmp(s, t, n) ==
  LET Stop(j) == j >= n \/ j = Len(s) + 1 \/ s[j] # Byte(t, j)
      k == CHOOSE j \in 1..(Len(s) + 1) : Stop(j) /\ \A i \in 1..(j - 1) : ~Stop(i)
  IN  Byte(s, k) - Byte(t, k)

(* What buf, a function from indices to bytes, becomes: at most n - 1      *)
(* characters are copied; then a NUL is written, not after the last of     *)
(* them but n bytes after the first.                                       *)
strncpy(buf, src, n) ==
  [k \in DOMAIN buf |-> IF k = n THEN 0
                        ELSE IF k < n - 1 /\ k < Len(src) THEN src[k + 1]
                        ELSE buf[k]]
=============================================================================
