------------------------------ MODULE TxQueue -------------------------------
(***************************************************************************)
(* The transmit path of the stack: buffer_list, the array of pending       *)
(* frames between lwIP and the Ethernet interface, and the ownership of    *)
(* the pbufs in it.                                                        *)
(*                                                                         *)
(* lwIP 1.4 sends a pbuf synchronously and the sender frees it afterwards. *)
(* This stack defers transmission: netif->linkoutput, that is              *)
(* enc_low_level_output, only stores a pointer to the pbuf in a slot, and  *)
(* TcpIp_MainFunction, run from the SysTick interrupt, sends it later and  *)
(* frees it if the sender has set p->free_buffer.  Most senders had their  *)
(* pbuf_free commented out for that reason; some did not.                  *)
(*                                                                         *)
(* Interrupt handlers have the same priority and do not preempt each       *)
(* other, so a handler is one step.  The main thread is preempted by all   *)
(* of them: its call of enc_low_level_output is three steps.               *)
(***************************************************************************)
EXTENDS Naturals, FiniteSets

CONSTANTS
  Pbufs,          \* blocks of memory a pbuf can occupy
  NULL,
  ListSize,       \* length of buffer_list (20)
  MaxNoBuffers,   \* max_no_buffers, the slots enc_low_level_output looks at (10)
  RefMod,         \* number of values of the u16_t p->ref
  Configurations  \* the sets of senders that take part

ASSUME PbufsAssumption == IsFiniteSet(Pbufs) /\ NULL \notin Pbufs

ASSUME SizeAssumption ==
  /\ ListSize \in Nat
  /\ MaxNoBuffers \in 1 .. ListSize

ASSUME RefAssumption == RefMod \in Nat /\ RefMod > ListSize + 1

AllFeatures ==
  {"segment", "rexmit", "control", "held", "arp_reply", "echo", "probe", "main"}

\* The senders that keep their pbuf or hand it over with free_buffer.
AdaptedSenders == {"segment", "control"}

ASSUME ConfigurationsAssumption == Configurations \subseteq SUBSET AllFeatures

VARIABLES
  features,       \* the senders of this behaviour
  buffer_list,    \* [Slots -> [used, p]]
  heap,           \* the blocks that are allocated
  ref,            \* p->ref
  free_buffer,    \* p->free_buffer
  unacked,        \* the pbufs of the segments a TCP pcb still holds
  sent,           \* the held segments that have been on the wire
  mainpc,         \* where the main thread is in enc_low_level_output
  leaked          \* pbufs refused by a full queue that no one else holds

vars == <<features, buffer_list, heap, ref, free_buffer, unacked, sent, mainpc, leaked>>

Slots == 0 .. ListSize - 1

EmptySlot == [used |-> FALSE, p |-> NULL]

Idle == [at |-> "idle", slot |-> 0, p |-> NULL]

-----------------------------------------------------------------------------
(* Slots and pbufs.                                                        *)

\* Mutation: the search runs over the whole array.
FreeSlotsWholeArray == {i \in Slots : ~buffer_list[i].used}

\* The slots enc_low_level_output may take.
FreeSlots == {i \in 0 .. MaxNoBuffers - 1 : ~buffer_list[i].used}

\* The slot its loop stops at.
FirstFree(i) == i \in FreeSlots /\ \A j \in FreeSlots : i <= j

\* Mutation: a full list loses its first entry.
LinkOutputOverwrites(p) ==
  IF FreeSlots = {}
  THEN buffer_list' = [buffer_list EXCEPT ![0].p = p]
  ELSE \E i \in FreeSlots :
         /\ FirstFree(i)
         /\ buffer_list' = [buffer_list EXCEPT ![i] = [used |-> TRUE, p |-> p]]

\* enc_low_level_output(p): a full list is left alone (ERR_MEM).
LinkOutput(p) ==
  IF FreeSlots = {}
  THEN UNCHANGED buffer_list
  ELSE \E i \in FreeSlots :
         /\ FirstFree(i)
         /\ buffer_list' = [buffer_list EXCEPT ![i] = [used |-> TRUE, p |-> p]]

\* The slots that point to p.
SlotsOf(p) == {i \in Slots : buffer_list[i].used /\ buffer_list[i].p = p}

\* n calls of pbuf_free on a reference count r of a u16_t.
RefAfterFree(r, n) == (r + RefMod - n) % RefMod

\* One of n calls of pbuf_free brings the count to 0 and returns the block.
ReachesZero(r, n) == r \in 1 .. n

\* pbuf_alloc: any free block; it sets ref and leaves free_buffer alone, so
\* that field holds whatever the memory held before.
Alloc(p) == p \in Pbufs \ heap

-----------------------------------------------------------------------------
(* Senders that run in an interrupt handler.                               *)

\* Mutation: tcp_output_segment does not clear free_buffer.
SegmentOutKeepsFlag(p) ==
  /\ "segment" \in features
  /\ Alloc(p)
  /\ heap' = heap \cup {p}
  /\ ref' = [ref EXCEPT ![p] = 1]
  /\ \E garbage \in BOOLEAN :
       free_buffer' = [free_buffer EXCEPT ![p] = garbage]
  /\ LinkOutput(p)
  /\ unacked' = unacked \cup {p}
  /\ UNCHANGED <<sent, mainpc, leaked>>

\* TcpIp_TcpTransmit: tcp_write makes a segment, tcp_output queues it and
\* moves it to pcb->unacked whatever linkoutput answered.
SegmentOut(p) ==
  /\ "segment" \in features
  /\ Alloc(p)
  /\ heap' = heap \cup {p}
  /\ ref' = [ref EXCEPT ![p] = 1]
  /\ free_buffer' = [free_buffer EXCEPT ![p] = FALSE]
  /\ LinkOutput(p)
  /\ unacked' = unacked \cup {p}
  /\ UNCHANGED <<sent, mainpc, leaked>>

\* A retransmission queues the pbuf of a segment that is held already.
Rexmit(p) ==
  /\ "rexmit" \in features
  /\ p \in unacked
  /\ free_buffer' = [free_buffer EXCEPT ![p] = FALSE]
  /\ LinkOutput(p)
  /\ UNCHANGED <<heap, ref, unacked, sent, mainpc, leaked>>

\* tcp_receive frees a segment the peer has acknowledged.  A peer can only
\* acknowledge what has been on the wire.
AckIn(p) ==
  /\ p \in unacked \cap sent
  /\ unacked' = unacked \ {p}
  /\ sent' = sent \ {p}
  /\ ref' = [ref EXCEPT ![p] = RefAfterFree(@, 1)]
  /\ heap' = IF ReachesZero(ref[p], 1) THEN heap \ {p} ELSE heap
  /\ UNCHANGED <<buffer_list, free_buffer, mainpc, leaked>>

\* Empty ACK, RST, keep-alive, UDP datagram, ARP request: the sender hands
\* the pbuf over to the queue by setting free_buffer.
ControlOut(p) ==
  /\ "control" \in features
  /\ Alloc(p)
  /\ heap' = heap \cup {p}
  /\ ref' = [ref EXCEPT ![p] = 1]
  /\ free_buffer' = [free_buffer EXCEPT ![p] = TRUE]
  /\ LinkOutput(p)
  /\ leaked' = IF FreeSlots = {} THEN leaked \cup {p} ELSE leaked
  /\ UNCHANGED <<unacked, sent, mainpc>>

\* etharp_update_arp_entry sends the copy etharp_query made while the
\* address was unknown.  Its pbuf_free is commented out and nobody has set
\* free_buffer in the copy.
HeldOut(p) ==
  /\ "held" \in features
  /\ Alloc(p)
  /\ heap' = heap \cup {p}
  /\ ref' = [ref EXCEPT ![p] = 1]
  /\ \E garbage \in BOOLEAN :
       free_buffer' = [free_buffer EXCEPT ![p] = garbage]
  /\ LinkOutput(p)
  /\ leaked' = IF FreeSlots = {} THEN leaked \cup {p} ELSE leaked
  /\ UNCHANGED <<unacked, sent, mainpc>>

\* The senders that still follow lwIP's synchronous discipline: queue the
\* pbuf, then free it.
QueueThenFree(p) ==
  /\ Alloc(p)
  /\ ref' = [ref EXCEPT ![p] = 0]
  /\ \E garbage \in BOOLEAN :
       free_buffer' = [free_buffer EXCEPT ![p] = garbage]
  /\ LinkOutput(p)
  /\ UNCHANGED <<heap, unacked, sent, mainpc, leaked>>

\* etharp_arp_input answers in the pbuf of the request and frees it.
ArpReply(p) == "arp_reply" \in features /\ QueueThenFree(p)

\* icmp_input answers in the pbuf of the echo request and frees it.
EchoReply(p) == "echo" \in features /\ QueueThenFree(p)

\* tcp_zero_window_probe frees its probe.
ZeroWindowProbe(p) == "probe" \in features /\ QueueThenFree(p)

-----------------------------------------------------------------------------
(* TcpIp_MainFunction.                                                     *)

\* Mutation: the entry is sent again every period.
MainFunctionNoReset ==
  /\ \E i \in Slots : buffer_list[i].used
  /\ LET frees(p) == IF free_buffer[p] THEN Cardinality(SlotsOf(p)) ELSE 0
     IN /\ ref' = [p \in Pbufs |-> RefAfterFree(ref[p], frees(p))]
        /\ heap' = {p \in heap : ~ReachesZero(ref[p], frees(p))}
  /\ sent' = sent \cup {p \in unacked : SlotsOf(p) # {}}
  /\ UNCHANGED <<buffer_list, free_buffer, unacked, mainpc, leaked>>

\* Mutation: the buffer is never freed.
MainFunctionNoFree ==
  /\ \E i \in Slots : buffer_list[i].used
  /\ buffer_list' =
       [i \in Slots |-> IF buffer_list[i].used THEN EmptySlot ELSE buffer_list[i]]
  /\ sent' = sent \cup {p \in unacked : SlotsOf(p) # {}}
  /\ UNCHANGED <<heap, ref, free_buffer, unacked, mainpc, leaked>>

\* Mutation: only the first slot is served.
MainFunctionOneSlot ==
  /\ buffer_list[0].used
  /\ LET frees(p) == IF free_buffer[p] /\ 0 \in SlotsOf(p) THEN 1 ELSE 0
     IN /\ ref' = [p \in Pbufs |-> RefAfterFree(ref[p], frees(p))]
        /\ heap' = {p \in heap : ~ReachesZero(ref[p], frees(p))}
  /\ buffer_list' = [buffer_list EXCEPT ![0] = EmptySlot]
  /\ sent' = sent \cup {p \in unacked : 0 \in SlotsOf(p)}
  /\ UNCHANGED <<free_buffer, unacked, mainpc, leaked>>

\* Every used slot is sent in index order, its pbuf freed if free_buffer is
\* set, and the slot cleared.
MainFunction ==
  /\ \E i \in Slots : buffer_list[i].used
  /\ LET frees(p) == IF free_buffer[p] THEN Cardinality(SlotsOf(p)) ELSE 0
     IN /\ ref' = [p \in Pbufs |-> RefAfterFree(ref[p], frees(p))]
        /\ heap' = {p \in heap : ~ReachesZero(ref[p], frees(p))}
  /\ buffer_list' =
       [i \in Slots |-> IF buffer_list[i].used THEN EmptySlot ELSE buffer_list[i]]
  /\ sent' = sent \cup {p \in unacked : SlotsOf(p) # {}}
  /\ UNCHANGED <<free_buffer, unacked, mainpc, leaked>>

-----------------------------------------------------------------------------
(* enc_low_level_output called from main(), for instance for the ARP       *)
(* request that precedes the SYN of TcpIp_TcpConnect.                      *)

\* The loop finds buffer_list[i].used == 0.
MainScan(p) ==
  /\ "main" \in features
  /\ mainpc = Idle
  /\ Alloc(p)
  /\ heap' = heap \cup {p}
  /\ ref' = [ref EXCEPT ![p] = 1]
  /\ free_buffer' = [free_buffer EXCEPT ![p] = TRUE]
  /\ \E i \in FreeSlots :
       /\ FirstFree(i)
       /\ mainpc' = [at |-> "store", slot |-> i, p |-> p]
  /\ UNCHANGED <<buffer_list, unacked, sent, leaked>>

\* buffer_list[i].p = p, whatever is in the slot by now.
MainStore ==
  /\ mainpc.at = "store"
  /\ buffer_list' = [buffer_list EXCEPT ![mainpc.slot].p = mainpc.p]
  /\ mainpc' = [mainpc EXCEPT !.at = "commit"]
  /\ UNCHANGED <<heap, ref, free_buffer, unacked, sent, leaked>>

\* buffer_list[i].used = 1.
MainCommit ==
  /\ mainpc.at = "commit"
  /\ buffer_list' =
       [buffer_list EXCEPT ![mainpc.slot] = [used |-> TRUE, p |-> @.p]]
  /\ mainpc' = Idle
  /\ UNCHANGED <<heap, ref, free_buffer, unacked, sent, leaked>>

-----------------------------------------------------------------------------
Init ==
  /\ features \in Configurations
  /\ buffer_list = [i \in Slots |-> EmptySlot]
  /\ heap = {}
  /\ ref = [p \in Pbufs |-> 0]
  /\ free_buffer = [p \in Pbufs |-> FALSE]
  /\ unacked = {}
  /\ sent = {}
  /\ mainpc = Idle
  /\ leaked = {}

Send(p) ==
  \/ SegmentOut(p) \/ Rexmit(p) \/ ControlOut(p) \/ HeldOut(p)
  \/ ArpReply(p) \/ EchoReply(p) \/ ZeroWindowProbe(p)

Next ==
  /\ \/ \E p \in Pbufs : Send(p) \/ AckIn(p) \/ MainScan(p)
     \/ MainStore \/ MainCommit
     \/ MainFunction
  /\ UNCHANGED features

Spec == Init /\ [][Next]_vars

\* SysTick fires for ever and runs TcpIp_MainFunction every tenth tick.
FairSpec == Spec /\ WF_vars(MainFunction /\ UNCHANGED features)

-----------------------------------------------------------------------------
(* Properties.                                                             *)

\* Types.  Beyond the types: enc_low_level_output never takes a slot beyond
\* max_no_buffers, although buffer_list is twice as long.
TypeOK ==
  /\ features \subseteq AllFeatures
  /\ buffer_list \in [Slots -> [used : BOOLEAN, p : Pbufs \cup {NULL}]]
  /\ \A i \in Slots : buffer_list[i].used => i < MaxNoBuffers
  /\ heap \subseteq Pbufs
  /\ ref \in [Pbufs -> 0 .. RefMod - 1]
  /\ free_buffer \in [Pbufs -> BOOLEAN]
  /\ unacked \subseteq Pbufs
  /\ sent \subseteq Pbufs
  /\ mainpc \in [at : {"idle", "store", "commit"}, slot : 0 .. MaxNoBuffers - 1,
                 p : Pbufs \cup {NULL}]
  /\ leaked \subseteq Pbufs

\* A slot TcpIp_MainFunction is going to send points to a pbuf that is still
\* allocated.
NoDanglingPointer ==
  \A i \in Slots :
    buffer_list[i].used => buffer_list[i].p \in heap

\* The same when main() may be preempted while it claims a slot: a slot may
\* then hold no pbuf at all, but never one that has been freed.
NoFreedPointer ==
  features \subseteq {"control", "main"} =>
    \A i \in Slots :
      buffer_list[i].used => buffer_list[i].p \in heap \cup {NULL}

\* pbuf_free is never called on a pbuf whose count is 0: TcpIp_MainFunction
\* may run at any time and frees the pbuf of every slot with free_buffer.
NoDoubleFree ==
  \A p \in Pbufs : free_buffer[p] => Cardinality(SlotsOf(p)) <= ref[p]

\* Every allocated pbuf is in a slot, in a segment, in the hands of the main
\* thread, or was refused by a full queue: TcpIp_MainFunction loses none.
NoOrphan ==
  \A p \in heap :
    \/ SlotsOf(p) # {}
    \/ p \in unacked
    \/ p \in leaked
    \/ mainpc.p = p

\* Why the two kinds of sender that were adapted to the queue are safe: a
\* live pbuf has one reference, is in at most one slot, and is freed either by
\* its segment or by TcpIp_MainFunction.
Ownership ==
  /\ mainpc = Idle
  /\ \A i \in Slots : buffer_list[i].used => buffer_list[i].p \in heap
  /\ \A i, j \in Slots :
       /\ buffer_list[i].used
       /\ buffer_list[j].used
       /\ buffer_list[i].p = buffer_list[j].p
       => i = j
  /\ \A p \in heap : ref[p] = 1
  /\ sent \subseteq unacked
  /\ unacked \subseteq heap
  /\ \A p \in unacked : ~free_buffer[p]
  /\ \A i \in Slots :
       buffer_list[i].used /\ ~free_buffer[buffer_list[i].p] =>
         buffer_list[i].p \in unacked \ sent

\* With the senders that were adapted to the queue, TcpIp_MainFunction reads no
\* pbuf that was freed, frees none twice and forgets none.
AdaptedSafe ==
  features \subseteq AdaptedSenders =>
    NoDanglingPointer /\ NoDoubleFree /\ NoOrphan

\* With these senders every pbuf has one owner: the queue, or the segment list of TCP
\* that has not been acknowledged yet.
AdaptedOwnership == features \subseteq AdaptedSenders => Ownership

\* The used slots are the first ones.
UsedIsPrefix ==
  \E d \in 0 .. MaxNoBuffers :
    \A i \in Slots : buffer_list[i].used <=> i < d

\* lwip/pbuf.h: "the reference count always equals the number of pointers
\* that refer to this pbuf."
RefCountsPointers ==
  \A p \in Pbufs :
    (SlotsOf(p) # {} \/ p \in unacked) =>
      ref[p] = Cardinality(SlotsOf(p)) + (IF p \in unacked THEN 1 ELSE 0)

\* Whatever is queued leaves the queue.
QueuedIsSent ==
  \A i \in Slots : buffer_list[i].used ~> ~buffer_list[i].used

\* The pbufs of the used slots in the order TcpIp_MainFunction reads them.
Depth == Cardinality({i \in Slots : buffer_list[i].used})
Waiting == [k \in 1 .. Depth |-> buffer_list[k - 1].p]

\* The queue the FIFO is compared with; main() as a sender is not part of the claim.
InterruptsOnly == "main" \notin features
Queue == IF InterruptsOnly THEN Waiting ELSE <<>>
Refused == IF InterruptsOnly THEN leaked ELSE {}

Fifo == INSTANCE TxFifo WITH
  Packets  <- Pbufs,
  Capacity <- MaxNoBuffers,
  queue    <- Queue,
  refused  <- Refused

\* Handlers that run one at a time use the array as a FIFO: slots are filled
\* from 0 and emptied together, so transmission order is queueing order.
ImplementsFifo == Fifo!Spec

=============================================================================
