------------------------------- MODULE UartTx -------------------------------
(***************************************************************************)
(* The transmit half of the NS16550A, external hardware modelled from how  *)
(* serial_putc() uses it: poll LSR.THRE, then write THR.  With the FIFO    *)
(* enabled THRE is 1 when the FIFO is empty, and a write to a full FIFO is *)
(* lost.  Only the number of characters in the FIFO matters.               *)
(***************************************************************************)
EXTENDS Naturals

CONSTANT TxDepth     \* 16 in the hardware

ASSUME TxAssumption == TxDepth \in Nat \ {0}

VARIABLES
  tx,        \* number of characters in the FIFO
  overrun    \* history: a character was written to a full FIFO

txVars == <<tx, overrun>>

TxInit == tx = 0 /\ overrun = FALSE

THRE == tx = 0

WriteThr ==
  IF tx < TxDepth THEN tx' = tx + 1 /\ UNCHANGED overrun
                  ELSE overrun' = TRUE /\ UNCHANGED tx

(* The line takes a character from the FIFO. *)
Transmit == tx > 0 /\ tx' = tx - 1 /\ UNCHANGED overrun

TxTypeOK == tx \in 0..TxDepth /\ overrun \in BOOLEAN
=============================================================================
