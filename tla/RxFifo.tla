------------------------------- MODULE RxFifo -------------------------------
(***************************************************************************)
(* What the Ethernet driver promises the stack about received frames: each *)
(* one is handed up once and in the order of arrival.  A frame may be lost *)
(* when there is no room for it, which changes nothing here.               *)
(***************************************************************************)
EXTENDS Sequences

CONSTANT Frames

VARIABLES
  queue,    \* the frames that were received and not handed up yet
  given     \* the frame handed up last, and a bit that changes each time

Init == queue = <<>> /\ given \in [frame : Frames, bit : BOOLEAN]

Arrive(f) == queue' = Append(queue, f) /\ UNCHANGED given

HandUp ==
  /\ queue # <<>>
  /\ queue' = Tail(queue)
  /\ given' = [frame |-> Head(queue), bit |-> ~given.bit]

Next == HandUp \/ \E f \in Frames : Arrive(f)

Spec == Init /\ [][Next]_<<queue, given>>

=============================================================================
