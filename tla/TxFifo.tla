------------------------------- MODULE TxFifo -------------------------------
(***************************************************************************)
(* What the transmit queue between lwIP and the Ethernet interface         *)
(* promises its callers: a FIFO of at most Capacity packets.  A packet is  *)
(* refused only when the queue is full, and the periodic main function     *)
(* takes everything that is queued, oldest first, in one go.               *)
(***************************************************************************)
EXTENDS Naturals, Sequences

CONSTANTS Packets, Capacity

VARIABLES
  queue,      \* the packets waiting for the wire, oldest first
  refused     \* the packets that were turned away and that nobody holds

vars == <<queue, refused>>

Init ==
  /\ queue = <<>>
  /\ refused = {}

\* A packet is accepted.
Put(p) ==
  /\ Len(queue) < Capacity
  /\ queue' = Append(queue, p)
  /\ UNCHANGED refused

\* A packet is turned away: the queue is full.
Refuse(p) ==
  /\ Len(queue) = Capacity
  /\ refused' = refused \cup {p}
  /\ UNCHANGED queue

\* Everything waiting goes out.
Flush ==
  /\ queue # <<>>
  /\ queue' = <<>>
  /\ UNCHANGED refused

Next ==
  \/ \E p \in Packets : Put(p) \/ Refuse(p)
  \/ Flush

Spec == Init /\ [][Next]_vars

=============================================================================
