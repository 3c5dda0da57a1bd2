-------------------------------- MODULE MCMm --------------------------------
(***************************************************************************)
(* Model checking Mm with four entries per table: the lower half of the    *)
(* address space is pages 0..31, the direct map 224..239, and the kernel's *)
(* sections are somewhere in 240..255.                                     *)
(***************************************************************************)
EXTENDS Mm

Ram == 2..15

(* RAM reads as zero when the kernel starts, as it does under QEMU. *)
Zeroed == {ZeroPTE}

(* Calls for every address, canonical or not.  The page is the serial      *)
(* port, as for a driver, or one that alloc_get_page() returns, which is   *)
(* an address of the direct map (the tests of ktest/kmain.c pass it on).   *)
Later == (0..(VA_SIZE - 1)) \X {SERIAL, pa_to_va(12)} \X {{"R"}, {"R", "W"}}
=============================================================================
