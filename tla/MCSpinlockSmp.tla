--------------------------- MODULE MCSpinlockSmp ----------------------------
(* Two harts are enough for every pair of contexts to meet; a third one    *)
(* spins while the lock changes hands.                                     *)
EXTENDS SpinlockSmp
=============================================================================
