------------------------------- MODULE UartRx -------------------------------
(***************************************************************************)
(* The receive half of the NS16550A serial port, external hardware         *)
(* modelled from how src/drivers/serial.c programs it: serial_init()       *)
(* enables and clears the FIFOs (with the receive trigger left at one      *)
(* byte), serial_irq_enable() sets IER.ERBFI, serial_irq() reads RBR.      *)
(*                                                                         *)
(* A byte is represented by its arrival number, so that a property can     *)
(* tell which byte ended up where and in which order.  A byte that finds   *)
(* the FIFO full is lost inside the UART and gets no number: nothing the   *)
(* kernel can see changes.                                                 *)
(***************************************************************************)
EXTENDS Naturals, Sequences

CONSTANTS
  FifoDepth,   \* 16 in the hardware
  MaxBytes     \* bound on the number of bytes that arrive

ASSUME UartAssumption == FifoDepth \in Nat \ {0} /\ MaxBytes \in Nat

VARIABLES
  rx,       \* received bytes not yet read through RBR, oldest first
  fcr,      \* "FIFO_ENABLE" once the FIFOs are on
  ier,      \* "ERBFI": received-data interrupt enabled
  rxcount   \* number of the next byte to arrive

uartVars == <<rx, fcr, ier, rxcount>>

UartInit ==
  /\ rx = <<>>
  /\ fcr = {}
  /\ ier = {}
  /\ rxcount = 0

(* The interrupt line: asserted until RBR has been read empty. *)
DataReady == "ERBFI" \in ier /\ rx # <<>>

(* A byte arrives.  Without the FIFO a second byte overwrites the first. *)
Receive ==
  /\ rxcount < MaxBytes
  /\ \/ "FIFO_ENABLE" \in fcr /\ Len(rx) < FifoDepth /\ rx' = Append(rx, rxcount)
     \/ "FIFO_ENABLE" \notin fcr /\ rx' = <<rxcount>>
  /\ rxcount' = rxcount + 1

(* Writing FCR with FIFO_ENABLE, RX_FIFO_CLEAR and TX_FIFO_CLEAR. *)
WriteFcr ==
  /\ fcr' = {"FIFO_ENABLE"}
  /\ rx' = <<>>

WriteIer(bits) == ier' = bits

(* Reading RBR takes the oldest byte.  The driver does not look at         *)
(* LSR.DTR first; with nothing received the register holds no byte that    *)
(* ever arrived, represented by a number no byte has.                      *)
RbrByte == IF rx = <<>> THEN MaxBytes ELSE Head(rx)
ReadRbr == rx' = IF rx = <<>> THEN rx ELSE Tail(rx)

UartTypeOK ==
  /\ rx \in Seq(Nat)
  /\ fcr \subseteq {"FIFO_ENABLE"}
  /\ ier \subseteq {"ERBFI"}
  /\ rxcount \in Nat
=============================================================================
