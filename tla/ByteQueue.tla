----------------------------- MODULE ByteQueue ------------------------------
(***************************************************************************)
(* What the receive path promises the shell, whatever it is built from: a  *)
(* queue.  Once the port is open every byte that arrives is put at the end *)
(* of the queue, and the shell takes bytes from the front, so it gets each *)
(* byte once and in the order of arrival.  Bytes are arrival numbers.      *)
(***************************************************************************)
EXTENDS Naturals, Sequences

VARIABLES
  open,      \* serial_init() has run
  arrived,   \* number of the next byte
  queue      \* bytes that arrived and have not been taken

vars == <<open, arrived, queue>>

Init ==
  /\ open = FALSE
  /\ arrived = 0
  /\ queue = <<>>

Open ==
  /\ ~open
  /\ open' = TRUE
  /\ UNCHANGED <<arrived, queue>>

(* Before the port is open a byte is not kept. *)
Arrive ==
  /\ arrived' = arrived + 1
  /\ queue' = IF open THEN Append(queue, arrived) ELSE queue
  /\ UNCHANGED open

Take ==
  /\ queue # <<>>
  /\ queue' = Tail(queue)
  /\ UNCHANGED <<open, arrived>>

Next == Open \/ Arrive \/ Take

Spec == Init /\ [][Next]_vars
=============================================================================
