------------------------------ MODULE Spinlock ------------------------------
(***************************************************************************)
(* struct spinlock of include/arch/spinlock.h.  amoswap is atomic, so each *)
(* operation on the lock word is one step.  A spin_trylock that fails      *)
(* stores 1 over 1: the spinning in spin_lock changes nothing, and         *)
(* spin_lock is the step whose amoswap returns 0.                          *)
(***************************************************************************)

VARIABLE lock     \* the lock word, 0 free and 1 held

spin_init   == lock' = 0
spin_lock   == lock = 0 /\ lock' = 1
spin_unlock == lock' = 0
=============================================================================
