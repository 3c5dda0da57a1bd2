------------------------------ MODULE MCPrintf ------------------------------
(***************************************************************************)
(* Constants for model checking Printf: chars of 8 values, so that a u64   *)
(* has 2^24 and a u8 counts to 7.                                          *)
(***************************************************************************)
EXTENDS Printf

(* All formats of up to four characters. *)
Alphabet == {"%", "0", "#", "6", "l", "h", "d", "X", "s", "p", "c"}
AllFormats == UNION {[1..n -> Alphabet] : n \in 0..4}

(* Zero, one, and numbers that are negative as a char, a short, a long. *)
SomeNumbers == {0, 1, 4, 2 ^ 5 + 9, 2 ^ 23, 2 ^ 24 - 1}
SomeStrings == {<<>>, <<"t", "e", "x", "t">>}

(* The messages of the shell, scaled down: "%ds\r\n" and                   *)
(* "Unknown Command: %s\r\n".                                              *)
ShellFormats == {<<"%", "d", "s", "n">>, <<"U", ":", "%", "s", "r", "n">>}
Few == {0, 1}
Commands == {[k \in 1..n |-> "c"] : n \in 1..9}
=============================================================================
