------------------------------ MODULE Enc28j60 ------------------------------
(***************************************************************************)
(* The receive side of ports/enc28j60.c: ethernet_handler, recive_packet   *)
(* and recive_packet_error against a controller that goes on receiving     *)
(* while the handler talks to it over SPI.                                 *)
(*                                                                         *)
(* The controller writes frames into a ring in its memory, each behind a   *)
(* header that says where the next one starts, counts them in EPKTCNT, and *)
(* pulls its INT pin low while an interrupt flag is set; the pin's falling *)
(* edge is latched by the GPIO port.  Every access of the handler to the   *)
(* controller is a step.  Handlers do not preempt each other, so a frame   *)
(* is sent (enc_send_packet, from SysTick) only while this one is idle.    *)
(*                                                                         *)
(* The controller is external: its actions say what the driver relies on.  *)
(* The loop also tests ESTAT.INT, but by precedence the test is of CLKRDY, *)
(* which is set once the oscillator runs.                                  *)
(***************************************************************************)
EXTENDS Integers, Sequences, SequencesExt

CONSTANTS
  RingSize,       \* RX_END + 1, the bytes of the receive ring
  Frames,         \* what a frame can contain
  Size,           \* [Frames -> Nat]: bytes a frame takes in the ring
  MaxSize,        \* the longest frame the controller accepts (MAMXFL), with its header
  MaxCount        \* the largest value of EPKTCNT (255)

ASSUME FramesAssumption == Frames # {} /\ Size \in [Frames -> 1 .. MaxSize]

\* The ring has room for three of the longest frames, and two bytes more (6655 and 1524),
\* and three frames can be counted: what is left after an overrun and recive_packet.
ASSUME RingAssumption ==
  /\ {RingSize, MaxSize, MaxCount} \subseteq Nat \ {0}
  /\ RingSize > 3 * MaxSize + 1
  /\ MaxCount > 2

VARIABLES
  ring,             \* the frames in the ring, oldest first, and where they start
  ERXWRPT,          \* where the controller writes next
  ERXRDPT,          \* the controller does not write to or past this byte
  EPKTCNT,          \* frames received and not yet released
  flags,            \* the flags of EIR that are set, except PKTIF
  edge,             \* the GPIO port has latched a falling edge of INT
  enc_next_packet,  \* where the driver expects the next header
  hd,               \* the handler: where it is, and its local variables
  given             \* the frame last passed to TcpIp_RxIndication, and a toggle

hw == <<ring, ERXWRPT, EPKTCNT, flags>>
vars == <<hw, ERXRDPT, edge, enc_next_packet, hd, given>>

Bytes == 0 .. RingSize - 1
Move(a, n) == (a + n) % RingSize

-----------------------------------------------------------------------------
(* The controller.                                                         *)

EIR == flags \cup (IF EPKTCNT > 0 THEN {"PKTIF"} ELSE {})

\* INT goes low when the first flag is set.
Latched(before, after) == edge' = (edge \/ (before = {} /\ after # {}))

FreeSpace == (ERXRDPT - ERXWRPT - 1) % RingSize

\* The bytes n bytes from a on take.
Span(a, n) == {Move(a, k) : k \in 0 .. n - 1}

\* A frame of n bytes that is stored overwrites what the space it is given holds.
Overwritten(p, n) == Span(p.at, Size[p.frame]) \cap Span(ERXWRPT, n) # {}
Kept(n) == IF \E i \in DOMAIN ring : Overwritten(ring[i], n)
           THEN SelectSeq(ring, LAMBDA p : ~Overwritten(p, n))
           ELSE ring

\* A frame arrives: it is stored or dropped.
Arrive(f) ==
  /\ IF FreeSpace >= Size[f] /\ EPKTCNT < MaxCount
     THEN /\ ring' = Append(Kept(Size[f]), [at |-> ERXWRPT, frame |-> f])
          /\ ERXWRPT' = Move(ERXWRPT, Size[f])
          /\ EPKTCNT' = EPKTCNT + 1
          /\ UNCHANGED flags
     ELSE /\ flags' = flags \cup {"RXERIF"}
          /\ UNCHANGED <<ring, ERXWRPT, EPKTCNT>>
  /\ Latched(EIR, EIR')
  /\ UNCHANGED <<ERXRDPT, enc_next_packet, hd, given>>

-----------------------------------------------------------------------------
(* enc_send_packet, up to the end of its busy loop.                        *)

Transmit(outcome) ==
  /\ hd.at = "idle"
  /\ flags' = (flags \ {"TXIF"}) \cup outcome
  /\ UNCHANGED <<ring, ERXWRPT, ERXRDPT, EPKTCNT, enc_next_packet, hd, given>>
  /\ Latched(EIR \ {"TXIF"}, EIR')

-----------------------------------------------------------------------------
(* ethernet_handler.                                                       *)

Goto(pc) == hd' = [hd EXCEPT !.at = pc]

\* The interrupt is taken; GPIOIntClear.
Enter ==
  /\ hd.at = "idle" /\ edge
  /\ edge' = FALSE
  /\ Goto("loop")
  /\ UNCHANGED <<hw, ERXRDPT, enc_next_packet, given>>

\* Mutation: one pass instead of a loop.
LoopOnce ==
  /\ hd.at = "loop"
  /\ hd' = [hd EXCEPT !.at = IF EIR # {} /\ hd.status = {} THEN "clear" ELSE "idle",
                      !.status = {}]
  /\ UNCHANGED <<hw, ERXRDPT, edge, enc_next_packet, given>>

\* The condition of the loop.
Loop ==
  /\ hd.at = "loop"
  /\ hd' = [hd EXCEPT !.at = IF EIR # {} THEN "clear" ELSE "idle", !.status = {}]
  /\ UNCHANGED <<hw, ERXRDPT, edge, enc_next_packet, given>>

ClearGpio ==
  /\ hd.at = "clear"
  /\ edge' = FALSE
  /\ Goto("status")
  /\ UNCHANGED <<hw, ERXRDPT, enc_next_packet, given>>

ReadStatus ==
  /\ hd.at = "status"
  /\ hd' = [hd EXCEPT !.status = EIR, !.path = "packet",
                      !.at = IF "PKTIF" \in EIR THEN "header" ELSE "transmit"]
  /\ UNCHANGED <<hw, ERXRDPT, edge, enc_next_packet, given>>

\* Mutation: the flag of the overrun is not looked at.
TransmitProcessIgnoresOverrun ==
  /\ hd.at = "transmit"
  /\ flags' = flags \ (hd.status \cap {"TXIF", "TXERIF"})
  /\ Goto("loop")
  /\ UNCHANGED <<ring, ERXWRPT, ERXRDPT, EPKTCNT, edge, enc_next_packet, given>>

\* trasmit_process for the flags that were read; then the overrun, if there was one.
TransmitProcess ==
  /\ hd.at = "transmit"
  /\ flags' = flags \ (hd.status \cap {"TXIF", "TXERIF"})
  /\ hd' = IF "RXERIF" \in hd.status THEN [hd EXCEPT !.at = "header", !.path = "error"]
           ELSE [hd EXCEPT !.at = "loop"]
  /\ UNCHANGED <<ring, ERXWRPT, ERXRDPT, EPKTCNT, edge, enc_next_packet, given>>

-----------------------------------------------------------------------------
(* recive_packet and recive_packet_error.                                  *)

Stored(a) == {i \in DOMAIN ring : ring[i].at = a}

\* Without the frame that starts at a.
Released(a) == IF Stored(a) = {} THEN ring ELSE RemoveAt(ring, CHOOSE i \in Stored(a) : TRUE)

Returned == IF hd.path = "packet" THEN "transmit" ELSE "loop"

\* The header at enc_next_packet is read.  Where there is none the bytes can be anything,
\* and a length above 1536 makes the function return at once.
ReadHeader ==
  /\ hd.at = "header"
  /\ IF Stored(enc_next_packet) # {}
     THEN /\ \E i \in Stored(enc_next_packet) :
               enc_next_packet' = Move(enc_next_packet, Size[ring[i].frame])
          /\ hd' = [hd EXCEPT !.at = "data", !.start = enc_next_packet]
     ELSE /\ enc_next_packet' \in Bytes
          /\ \E pc \in {"data", Returned} :
               hd' = [hd EXCEPT !.at = pc, !.start = enc_next_packet]
  /\ UNCHANGED <<hw, ERXRDPT, edge, given>>

\* The frame is copied to incomming_frame.
ReadData ==
  /\ hd.at = "data"
  /\ \E f \in Frames :
       /\ \A i \in Stored(hd.start) : f = ring[i].frame
       /\ hd' = [hd EXCEPT !.at = "free", !.frame = f]
  /\ UNCHANGED <<hw, ERXRDPT, edge, enc_next_packet, given>>

\* Mutation: the space of every frame that has arrived is released.
FreeAll ==
  /\ hd.at = "free"
  /\ ERXRDPT' = Move(ERXWRPT, RingSize - 1)
  /\ ring' = Released(hd.start)
  /\ Goto("decrement")
  /\ UNCHANGED <<ERXWRPT, EPKTCNT, flags, edge, enc_next_packet, given>>

\* Mutation: the byte before the next header, also where the ring wraps.
FreeNoWrap ==
  /\ hd.at = "free"
  /\ ERXRDPT' = enc_next_packet - 1
  /\ ring' = Released(hd.start)
  /\ Goto("decrement")
  /\ UNCHANGED <<ERXWRPT, EPKTCNT, flags, edge, enc_next_packet, given>>

\* Its space is released: up to the byte before the next header, or to the end of the ring.
Free ==
  /\ hd.at = "free"
  /\ ERXRDPT' = IF enc_next_packet = 0 THEN RingSize - 1 ELSE enc_next_packet - 1
  /\ ring' = Released(hd.start)
  /\ Goto("decrement")
  /\ UNCHANGED <<ERXWRPT, EPKTCNT, flags, edge, enc_next_packet, given>>

\* ECON2.PKTDEC.
Decrement ==
  /\ hd.at = "decrement"
  /\ EPKTCNT' = IF EPKTCNT > 0 THEN EPKTCNT - 1 ELSE MaxCount
  /\ Goto(IF hd.path = "packet" THEN "deliver" ELSE "clear error")
  /\ UNCHANGED <<ring, ERXWRPT, flags, ERXRDPT, edge, enc_next_packet, given>>

\* Mutation: the flag stays set.
ClearErrorForgotten ==
  /\ hd.at = "clear error"
  /\ Goto("count")
  /\ UNCHANGED <<hw, ERXRDPT, edge, enc_next_packet, given>>

\* Only in recive_packet_error: the flag is cleared, then the frames left are counted.
ClearError ==
  /\ hd.at = "clear error"
  /\ flags' = flags \ {"RXERIF"}
  /\ Goto("count")
  /\ UNCHANGED <<ring, ERXWRPT, EPKTCNT, ERXRDPT, edge, enc_next_packet, given>>

ReadCount ==
  /\ hd.at = "count"
  /\ hd' = [hd EXCEPT !.at = "deliver", !.more = EPKTCNT > 0]
  /\ UNCHANGED <<hw, ERXRDPT, edge, enc_next_packet, given>>

\* Mutation: the error path returns without handing the frame up.
DeliverOnlyPackets ==
  /\ hd.at = "deliver"
  /\ given' = IF hd.path = "packet" THEN [frame |-> hd.frame, bit |-> ~given.bit] ELSE given
  /\ Goto(IF hd.path = "error" /\ hd.more THEN "header" ELSE Returned)
  /\ UNCHANGED <<hw, ERXRDPT, edge, enc_next_packet>>

\* reciving_autosar, and back to the caller's loop.
Deliver ==
  /\ hd.at = "deliver"
  /\ given' = [frame |-> hd.frame, bit |-> ~given.bit]
  /\ Goto(IF hd.path = "error" /\ hd.more THEN "header" ELSE Returned)
  /\ UNCHANGED <<hw, ERXRDPT, edge, enc_next_packet>>

-----------------------------------------------------------------------------
Init ==
  /\ ring = <<>> /\ ERXWRPT = 0 /\ ERXRDPT = 0 /\ EPKTCNT = 0
  /\ flags = {} /\ edge = FALSE
  /\ enc_next_packet = 0
  /\ \E f \in Frames :
       /\ hd = [at |-> "idle", status |-> {}, path |-> "packet", start |-> 0,
                frame |-> f, more |-> FALSE]
       /\ given = [frame |-> f, bit |-> FALSE]

Handler ==
  \/ Enter \/ Loop \/ ClearGpio \/ ReadStatus \/ TransmitProcess
  \/ ReadHeader \/ ReadData \/ Free \/ Decrement \/ ClearError \/ ReadCount \/ Deliver

Next ==
  \/ Handler
  \/ \E f \in Frames : Arrive(f)
  \/ \E outcome \in {{"TXIF"}, {"TXIF", "TXERIF"}} : Transmit(outcome)

\* A pending interrupt is taken and its handler runs on.
Spec == Init /\ [][Next]_vars /\ WF_vars(Handler)

-----------------------------------------------------------------------------
(* Properties.                                                             *)

Places == {"idle", "loop", "clear", "status", "header", "data", "free", "decrement",
           "clear error", "count", "deliver", "transmit"}

TypeOK ==
  /\ ring \in Seq([at : Bytes, frame : Frames])
  /\ {ERXWRPT, ERXRDPT, enc_next_packet} \subseteq Bytes
  /\ EPKTCNT \in 0 .. MaxCount
  /\ flags \subseteq {"RXERIF", "TXIF", "TXERIF"} /\ edge \in BOOLEAN
  /\ hd \in [at : Places, status : SUBSET {"PKTIF", "RXERIF", "TXIF", "TXERIF"},
             path : {"packet", "error"}, start : Bytes, frame : Frames, more : BOOLEAN]
  /\ given \in [frame : Frames, bit : BOOLEAN]

\* A header is read only where the oldest frame starts, and PKTDEC never meets a count of
\* 0.  After an overrun recive_packet_error is called without a look at EPKTCNT, although
\* recive_packet has just taken a frame.
HeaderThere ==
  /\ hd.at = "header" => ring # <<>> /\ ring[1].at = enc_next_packet
  /\ hd.at = "decrement" => EPKTCNT > 0

\* The first byte that holds an unreleased frame.
Oldest == IF hd.at \in {"data", "free"} THEN hd.start ELSE enc_next_packet

\* How far byte a is behind the first one.
Behind(a) == (a - Oldest) % RingSize

\* EPKTCNT counts the frames, which follow each other without a gap from the oldest to
\* ERXWRPT, and all of them lie in the space ERXRDPT protects: an arriving frame never
\* overwrites one that the driver still has to read.
RingConsistent ==
  /\ EPKTCNT = Len(ring) + (IF hd.at = "decrement" THEN 1 ELSE 0)
  /\ (IF ring = <<>> THEN ERXWRPT ELSE ring[1].at) = Oldest
  /\ \A i \in DOMAIN ring :
       Behind(ring[i].at) + Size[ring[i].frame] =
         Behind(IF i = Len(ring) THEN ERXWRPT ELSE ring[i + 1].at)
  /\ Behind(ERXWRPT) + FreeSpace \in {RingSize - 1, RingSize - 2}

InHand == hd.at \in {"decrement", "clear error", "count", "deliver"}
Unread == [i \in DOMAIN ring |-> ring[i].frame]

\* The frame in hand and those in the ring.
Received == IF InHand THEN <<hd.frame>> \o Unread ELSE Unread

Fifo == INSTANCE RxFifo WITH queue <- Received, given <- given

\* Every frame the controller has stored is handed up once, in the order of arrival.
ImplementsFifo == Fifo!Spec

\* While frames wait, another one is handed up: no falling edge of INT is lost between
\* the clearing of the GPIO port, the reading of EIR and the end of the loop.
FramesHandedUp == \A b \in BOOLEAN : ring # <<>> /\ given.bit = b ~> given.bit # b

\* An overrun does not last: the controller goes back to receiving.
OverrunEnds == "RXERIF" \in flags ~> "RXERIF" \notin flags

=============================================================================
