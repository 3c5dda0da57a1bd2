-------------------------------- MODULE Plic --------------------------------
(***************************************************************************)
(* The platform-level interrupt controller and its driver,                 *)
(* src/drivers/plic.c.  The driver's functions are single register         *)
(* accesses; the registers are external hardware, modelled from the        *)
(* claim/complete handshake handle_irq() performs: a level-triggered       *)
(* gateway turns an asserted line into one request, forwards no other      *)
(* request for that line until the request is completed, and at completion *)
(* forwards a new one at once if the line is still asserted.               *)
(*                                                                         *)
(* One hart, one context (the S-mode context of hart 0), as in the kernel. *)
(***************************************************************************)
EXTENDS Naturals

CONSTANTS
  Irqs,      \* interrupt numbers wired to the PLIC
  WordBits,  \* width of an enable register, 32 in the hardware
  MaxPrio    \* highest priority

ASSUME PlicAssumption ==
  /\ Irqs \subseteq Nat \ {0}
  /\ WordBits \in Nat \ {0}
  /\ MaxPrio \in Nat \ {0}

VARIABLES
  prio,       \* priority register of every interrupt; 0 never interrupts
  threshold,  \* the hart ignores priorities up to this one
  enabled,    \* the bits set in the hart's enable registers
  pending,    \* requests forwarded by the gateways and not yet claimed
  claimed     \* requests claimed and not yet completed

plicVars == <<prio, threshold, enabled, pending, claimed>>

PlicInit ==
  /\ prio = [q \in Irqs |-> 0]
  /\ threshold = 0
  /\ enabled = {}
  /\ pending = {}
  /\ claimed = {}

-----------------------------------------------------------------------------
(* The driver's configuration functions. *)

plic_irq_set_priority(irq, p) == prio' = [prio EXCEPT ![irq] = p]

plic_hart_set_threshold(t) == threshold' = t

(* One store to the enable register that holds the bit of irq: the other   *)
(* bits of that register become 0.                                         *)
plic_hart_enable_irq(irq) ==
  enabled' = {irq} \cup {q \in enabled : q \div WordBits # irq \div WordBits}

-----------------------------------------------------------------------------
(* The claim/complete handshake. *)

(* Some enabled request is above the threshold: SEIP is 1. *)
ExternalPending == \E q \in pending \cap enabled : prio[q] > threshold

Claimable == {q \in pending \cap enabled : prio[q] > 0}

(* A read of the claim register returns the claimable request of highest   *)
(* priority, the lowest number breaking ties, and 0 if there is none.      *)
ClaimedIrq ==
  IF Claimable = {} THEN 0
  ELSE CHOOSE q \in Claimable :
         \A r \in Claimable : \/ prio[q] > prio[r]
                              \/ prio[q] = prio[r] /\ q <= r

plic_hart_claim_irq ==
  /\ pending' = pending \ {ClaimedIrq}
  /\ claimed' = claimed \cup ({ClaimedIrq} \ {0})

(* The gateway of irq sees its line asserted. *)
Forward(irq) == pending' = pending \cup ({irq} \ claimed)

(* Mutant: the completion is written to the context of another hart. *)
plic_hart_complete_irq_WrongHart(irq, asserted) == UNCHANGED <<claimed, pending>>

plic_hart_complete_irq(irq, asserted) ==
  /\ claimed' = claimed \ {irq}
  /\ pending' = IF asserted THEN pending \cup {irq} ELSE pending

PlicTypeOK ==
  /\ prio \in [Irqs -> 0..MaxPrio]
  /\ threshold \in 0..MaxPrio
  /\ enabled \subseteq Irqs
  /\ pending \subseteq Irqs
  /\ claimed \subseteq Irqs
=============================================================================
