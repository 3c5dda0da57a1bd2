------------------------------- MODULE MCBoot -------------------------------
(***************************************************************************)
(* Model checking Boot with 8 gigapages of 64 words, pages of 4 words and  *)
(* .bss of every size up to two pages.                                     *)
(***************************************************************************)
EXTENDS Boot

Sizes == 0..8
=============================================================================
