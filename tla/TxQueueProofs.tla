---------------------------- MODULE TxQueueProofs ---------------------------
(***************************************************************************)
(* Proofs about the transmit queue, for every number of slots and pbufs.   *)
(***************************************************************************)
EXTENDS TxQueue, FiniteSetTheorems, SequenceTheorems, TLAPS

USE DEF Slots

LEMMA SizeFacts ==
  /\ ListSize \in Nat /\ MaxNoBuffers \in Nat
  /\ MaxNoBuffers >= 1 /\ MaxNoBuffers <= ListSize
  /\ RefMod \in Nat /\ RefMod > ListSize + 1
  BY SizeAssumption, RefAssumption

\* pbuf_free of a pbuf with one reference, and no call of it at all.
LEMMA RefAfterFreeFacts ==
  /\ RefAfterFree(1, 1) = 0
  /\ \A r \in 0 .. RefMod - 1 : RefAfterFree(r, 0) = r
  /\ \A r \in 0 .. RefMod - 1 : \A n \in 0 .. ListSize :
       RefAfterFree(r, n) \in 0 .. RefMod - 1
<1>1. RefAfterFree(1, 1) = 0
  BY SizeFacts DEF RefAfterFree
<1>2. ASSUME NEW r \in 0 .. RefMod - 1 PROVE RefAfterFree(r, 0) = r
  <2>1. (r + RefMod) % RefMod = r
    BY SizeFacts
  <2>2. QED BY <2>1, SizeFacts DEF RefAfterFree
<1>3. ASSUME NEW r \in 0 .. RefMod - 1, NEW n \in 0 .. ListSize
      PROVE  RefAfterFree(r, n) \in 0 .. RefMod - 1
  <2>1. r + RefMod - n \in Nat
    BY SizeFacts
  <2>2. QED BY <2>1, SizeFacts DEF RefAfterFree
<1>4. QED BY <1>1, <1>2, <1>3

\* A pbuf is in at most ListSize slots.
LEMMA SlotsOfFinite ==
  ASSUME NEW p
  PROVE  IsFiniteSet(SlotsOf(p)) /\ Cardinality(SlotsOf(p)) \in 0 .. ListSize
<1>1. IsFiniteSet(Slots) /\ Cardinality(Slots) = ListSize
  BY SizeFacts, FS_Interval
<1>2. SlotsOf(p) \in SUBSET Slots
  BY DEF SlotsOf
<1>3. IsFiniteSet(SlotsOf(p)) /\ Cardinality(SlotsOf(p)) <= ListSize
  BY <1>1, <1>2, FS_Subset
<1>4. Cardinality(SlotsOf(p)) \in Nat
  BY <1>3, FS_CardinalityType
<1>5. QED BY <1>3, <1>4, SizeFacts

\* linkoutput leaves an array of slots of which only the first MaxNoBuffers
\* can be in use.
LEMMA LinkOutputType ==
  ASSUME TypeOK, NEW p \in Pbufs, LinkOutput(p)
  PROVE  /\ buffer_list' \in [Slots -> [used : BOOLEAN, p : Pbufs \cup {NULL}]]
         /\ \A i \in Slots : buffer_list'[i].used => i < MaxNoBuffers
<1>1. CASE FreeSlots = {}
  BY <1>1 DEF TypeOK, LinkOutput
<1>2. CASE FreeSlots # {}
  <2>1. PICK i \in FreeSlots :
          buffer_list' = [buffer_list EXCEPT ![i] = [used |-> TRUE, p |-> p]]
    BY <1>2 DEF LinkOutput
  <2>2. i \in Slots /\ i < MaxNoBuffers
    BY SizeFacts DEF FreeSlots
  <2>3. QED BY <2>1, <2>2 DEF TypeOK
<1>3. QED BY <1>1, <1>2

-----------------------------------------------------------------------------
\* The state of the transmit path is well typed, and the slots beyond
\* max_no_buffers stay unused, with every sender and with a preempted main().
THEOREM TypeCorrect == Spec => []TypeOK
<1>1. Init => TypeOK
  BY SizeFacts, ConfigurationsAssumption DEF Init, TypeOK, EmptySlot, Idle
<1>2. TypeOK /\ [Next]_vars => TypeOK'
  <2> SUFFICES ASSUME TypeOK, [Next]_vars PROVE TypeOK'
    OBVIOUS
  <2>0. features' = features
    BY DEF Next, vars
  <2>1. ASSUME NEW p \in Pbufs, SegmentOut(p) PROVE TypeOK'
    BY <2>0, <2>1, LinkOutputType, SizeFacts DEF SegmentOut, TypeOK
  <2>2. ASSUME NEW p \in Pbufs, Rexmit(p) PROVE TypeOK'
    BY <2>0, <2>2, LinkOutputType, SizeFacts DEF Rexmit, TypeOK
  <2>3. ASSUME NEW p \in Pbufs, ControlOut(p) PROVE TypeOK'
    BY <2>0, <2>3, LinkOutputType, SizeFacts DEF ControlOut, TypeOK
  <2>4. ASSUME NEW p \in Pbufs, HeldOut(p) PROVE TypeOK'
    BY <2>0, <2>4, LinkOutputType, SizeFacts DEF HeldOut, TypeOK
  <2>5. ASSUME NEW p \in Pbufs, QueueThenFree(p) PROVE TypeOK'
    BY <2>0, <2>5, LinkOutputType, SizeFacts DEF QueueThenFree, TypeOK
  <2>6. ASSUME NEW p \in Pbufs, AckIn(p) PROVE TypeOK'
    <3>1. RefAfterFree(ref[p], 1) \in 0 .. RefMod - 1
      BY RefAfterFreeFacts, SizeFacts DEF TypeOK
    <3>2. QED BY <2>0, <2>6, <3>1 DEF AckIn, TypeOK
  <2>7. ASSUME NEW p \in Pbufs, MainScan(p) PROVE TypeOK'
    <3>1. PICK i \in FreeSlots :
            mainpc' = [at |-> "store", slot |-> i, p |-> p]
      BY <2>7 DEF MainScan
    <3>2. i \in 0 .. MaxNoBuffers - 1
      BY DEF FreeSlots
    <3>3. QED BY <2>0, <2>7, <3>1, <3>2, SizeFacts DEF MainScan, TypeOK
  <2>8. CASE MainStore
    BY <2>0, <2>8, SizeFacts DEF MainStore, TypeOK
  <2>9. CASE MainCommit
    BY <2>0, <2>9, SizeFacts DEF MainCommit, TypeOK, Idle
  <2>10. CASE MainFunction
    <3>1. ASSUME NEW p \in Pbufs
          PROVE  RefAfterFree(ref[p],
                   IF free_buffer[p] THEN Cardinality(SlotsOf(p)) ELSE 0)
                 \in 0 .. RefMod - 1
      <4>1. (IF free_buffer[p] THEN Cardinality(SlotsOf(p)) ELSE 0)
              \in 0 .. ListSize
        BY SlotsOfFinite, SizeFacts
      <4>2. QED BY <4>1, RefAfterFreeFacts DEF TypeOK
    <3>2. ref' \in [Pbufs -> 0 .. RefMod - 1]
      BY <2>10, <3>1 DEF MainFunction
    <3>3. /\ buffer_list' \in [Slots -> [used : BOOLEAN, p : Pbufs \cup {NULL}]]
          /\ \A i \in Slots : buffer_list'[i].used => i < MaxNoBuffers
      BY <2>10 DEF MainFunction, TypeOK, EmptySlot
    <3>4. QED BY <2>0, <2>10, <3>2, <3>3 DEF MainFunction, TypeOK
  <2>11. CASE UNCHANGED vars
    BY <2>11 DEF vars, TypeOK
  <2>12. QED
    BY <2>1, <2>2, <2>3, <2>4, <2>5, <2>6, <2>7, <2>8, <2>9, <2>10, <2>11
       DEF Next, Send, ArpReply, EchoReply, ZeroWindowProbe
<1>3. QED BY <1>1, <1>2, PTL DEF Spec

-----------------------------------------------------------------------------
(* Ownership: the two kinds of sender that were adapted to the queue.      *)

\* What linkoutput of a pbuf that is in no slot does to the slots.
LEMMA LinkOutputSlots ==
  ASSUME TypeOK, NEW p \in Pbufs, LinkOutput(p)
  PROVE  \/ UNCHANGED buffer_list
         \/ \E k \in Slots :
              /\ ~buffer_list[k].used
              /\ buffer_list'[k] = [used |-> TRUE, p |-> p]
              /\ \A i \in Slots : i # k => buffer_list'[i] = buffer_list[i]
<1>1. CASE FreeSlots = {}
  BY <1>1 DEF LinkOutput
<1>2. CASE FreeSlots # {}
  <2>1. PICK k \in FreeSlots :
          buffer_list' = [buffer_list EXCEPT ![k] = [used |-> TRUE, p |-> p]]
    BY <1>2 DEF LinkOutput
  <2>2. k \in Slots /\ ~buffer_list[k].used
    BY SizeFacts DEF FreeSlots
  <2>3. QED BY <2>1, <2>2 DEF TypeOK
<1>3. QED BY <1>1, <1>2

\* A pbuf that is in at most one slot is freed at most once per period.
LEMMA OwnedSlots ==
  ASSUME Ownership, NEW p
  PROVE  Cardinality(SlotsOf(p)) = IF SlotsOf(p) = {} THEN 0 ELSE 1
<1>1. CASE SlotsOf(p) = {}
  BY <1>1, FS_EmptySet
<1>2. CASE SlotsOf(p) # {}
  <2>1. PICK i : i \in SlotsOf(p)
    BY <1>2
  <2>2. SlotsOf(p) = {i}
    BY <2>1 DEF SlotsOf, Ownership
  <2>3. Cardinality({i}) = 1
    BY FS_Singleton
  <2>4. QED BY <1>2, <2>2, <2>3
<1>3. QED BY <1>1, <1>2

\* Every step of an adapted sender, of a peer's acknowledgement and of
\* TcpIp_MainFunction preserves Ownership.
LEMMA OwnershipStep ==
  ASSUME features \subseteq AdaptedSenders, TypeOK, Ownership, [Next]_vars
  PROVE  Ownership'
<1>1. ASSUME NEW p \in Pbufs, SegmentOut(p) PROVE Ownership'
  <2>1. p \notin heap /\ p \notin unacked /\ p \notin sent
    BY <1>1 DEF SegmentOut, Alloc, Ownership
  <2>2. CASE UNCHANGED buffer_list
    BY <1>1, <2>1, <2>2 DEF SegmentOut, Ownership, TypeOK
  <2>3. ASSUME NEW k \in Slots,
               ~buffer_list[k].used,
               buffer_list'[k] = [used |-> TRUE, p |-> p],
               \A i \in Slots : i # k => buffer_list'[i] = buffer_list[i]
        PROVE  Ownership'
    <3>1. /\ heap' = heap \cup {p} /\ unacked' = unacked \cup {p}
          /\ sent' = sent /\ mainpc' = mainpc
      BY <1>1 DEF SegmentOut
    <3>2. /\ ref'[p] = 1 /\ ~free_buffer'[p]
          /\ \A q \in heap : ref'[q] = ref[q] /\ (free_buffer'[q] <=> free_buffer[q])
      BY <1>1, <2>1 DEF SegmentOut, TypeOK
    <3>3. /\ buffer_list'[k].used /\ buffer_list'[k].p = p
          /\ \A i \in Slots : i # k => buffer_list'[i] = buffer_list[i]
      BY <2>3
    <3>4. mainpc' = Idle /\ \A q \in heap' : ref'[q] = 1
      BY <3>1, <3>2 DEF Ownership
    <3>5. /\ sent' \subseteq unacked' /\ unacked' \subseteq heap'
          /\ \A q \in unacked' : ~free_buffer'[q]
      BY <2>1, <3>1, <3>2 DEF Ownership
    <3>6. \A i \in Slots : buffer_list'[i].used => buffer_list'[i].p \in heap'
      BY <3>1, <3>3 DEF Ownership
    <3>7. \A i, j \in Slots :
            /\ buffer_list'[i].used
            /\ buffer_list'[j].used
            /\ buffer_list'[i].p = buffer_list'[j].p
            => i = j
      BY <2>1, <3>3 DEF Ownership
    <3>8. \A i \in Slots :
            buffer_list'[i].used /\ ~free_buffer'[buffer_list'[i].p] =>
              buffer_list'[i].p \in unacked' \ sent'
      BY <2>1, <3>1, <3>2, <3>3 DEF Ownership
    <3>9. QED BY <3>4, <3>5, <3>6, <3>7, <3>8 DEF Ownership
  <2>4. QED BY <1>1, <2>2, <2>3, LinkOutputSlots DEF SegmentOut
<1>2. ASSUME NEW p \in Pbufs, ControlOut(p) PROVE Ownership'
  <2>1. p \notin heap /\ p \notin unacked /\ p \notin sent
    BY <1>2 DEF ControlOut, Alloc, Ownership
  <2>2. CASE UNCHANGED buffer_list
    BY <1>2, <2>1, <2>2 DEF ControlOut, Ownership, TypeOK
  <2>3. ASSUME NEW k \in Slots,
               ~buffer_list[k].used,
               buffer_list'[k] = [used |-> TRUE, p |-> p],
               \A i \in Slots : i # k => buffer_list'[i] = buffer_list[i]
        PROVE  Ownership'
    <3>1. /\ heap' = heap \cup {p} /\ unacked' = unacked
          /\ sent' = sent /\ mainpc' = mainpc
      BY <1>2 DEF ControlOut
    <3>2. /\ ref'[p] = 1 /\ free_buffer'[p]
          /\ \A q \in heap : ref'[q] = ref[q] /\ (free_buffer'[q] <=> free_buffer[q])
      BY <1>2, <2>1 DEF ControlOut, TypeOK
    <3>3. /\ buffer_list'[k].used /\ buffer_list'[k].p = p
          /\ \A i \in Slots : i # k => buffer_list'[i] = buffer_list[i]
      BY <2>3
    <3>4. mainpc' = Idle /\ \A q \in heap' : ref'[q] = 1
      BY <3>1, <3>2 DEF Ownership
    <3>5. /\ sent' \subseteq unacked' /\ unacked' \subseteq heap'
          /\ \A q \in unacked' : ~free_buffer'[q]
      BY <2>1, <3>1, <3>2 DEF Ownership
    <3>6. \A i \in Slots : buffer_list'[i].used => buffer_list'[i].p \in heap'
      BY <3>1, <3>3 DEF Ownership
    <3>7. \A i, j \in Slots :
            /\ buffer_list'[i].used
            /\ buffer_list'[j].used
            /\ buffer_list'[i].p = buffer_list'[j].p
            => i = j
      BY <2>1, <3>3 DEF Ownership
    <3>8. \A i \in Slots :
            buffer_list'[i].used /\ ~free_buffer'[buffer_list'[i].p] =>
              buffer_list'[i].p \in unacked' \ sent'
      BY <2>1, <3>1, <3>2, <3>3 DEF Ownership
    <3>9. QED BY <3>4, <3>5, <3>6, <3>7, <3>8 DEF Ownership
  <2>4. QED BY <1>2, <2>2, <2>3, LinkOutputSlots DEF ControlOut
<1>3. ASSUME NEW p \in Pbufs, AckIn(p) PROVE Ownership'
  <2>1. /\ p \in heap /\ ref[p] = 1 /\ ~free_buffer[p]
        /\ \A i \in Slots : buffer_list[i].used => buffer_list[i].p # p
    BY <1>3 DEF AckIn, Ownership
  <2>2. heap' = heap \ {p}
    BY <1>3, <2>1 DEF AckIn, ReachesZero
  <2>3. QED BY <1>3, <2>1, <2>2 DEF AckIn, Ownership, TypeOK
<1>4. CASE MainFunction
  <2> DEFINE frees(p) == IF free_buffer[p] THEN Cardinality(SlotsOf(p)) ELSE 0
  <2>1. \A i \in Slots : ~buffer_list'[i].used
    BY <1>4 DEF MainFunction, EmptySlot
  <2>2. ASSUME NEW p \in heap PROVE frees(p) \in {0, 1}
    BY OwnedSlots
  <2>3. ASSUME NEW p \in heap, frees(p) = 0 PROVE p \in heap' /\ ref'[p] = 1
    <3>1. ~ReachesZero(ref[p], frees(p))
      BY <2>3 DEF ReachesZero
    <3>2. ref[p] = 1 /\ p \in Pbufs
      BY DEF Ownership, TypeOK
    <3>3. RefAfterFree(ref[p], frees(p)) = 1
      BY <2>3, <3>2, RefAfterFreeFacts, SizeFacts
    <3>4. QED BY <1>4, <3>1, <3>2, <3>3 DEF MainFunction
  <2>4. ASSUME NEW p \in heap, frees(p) = 1 PROVE p \notin heap'
    <3>1. ref[p] = 1
      BY DEF Ownership
    <3>2. ReachesZero(ref[p], frees(p))
      BY <2>4, <3>1 DEF ReachesZero
    <3>3. QED BY <1>4, <3>2 DEF MainFunction
  <2>5. ASSUME NEW p \in unacked PROVE frees(p) = 0 /\ p \in heap
    BY DEF Ownership
  <2>6. heap' \subseteq heap
    BY <1>4 DEF MainFunction
  <2> HIDE DEF frees
  <2>7. \A p \in heap' : ref'[p] = 1
    BY <2>2, <2>3, <2>4, <2>6
  <2>8. unacked' \subseteq heap' /\ sent' \subseteq unacked'
    BY <1>4, <2>3, <2>5 DEF MainFunction, Ownership
  <2>9. QED BY <1>4, <2>1, <2>7, <2>8 DEF MainFunction, Ownership
<1>5. CASE UNCHANGED vars
  BY <1>5 DEF vars, Ownership
<1>6. QED
  BY <1>1, <1>2, <1>3, <1>4, <1>5
     DEF Next, Send, Rexmit, HeldOut, ArpReply, EchoReply, ZeroWindowProbe,
         MainScan, MainStore, MainCommit, Ownership, Idle, AdaptedSenders

\* Nothing is forgotten either: a pbuf that leaves its slot without being freed
\* is that of a segment.
LEMMA NoOrphanStep ==
  ASSUME features \subseteq AdaptedSenders, TypeOK, Ownership, NoOrphan, [Next]_vars
  PROVE  NoOrphan'
<1>1. ASSUME NEW p \in Pbufs, LinkOutput(p), NEW q, SlotsOf(q) # {}
      PROVE  SlotsOf(q)' # {}
  <2>1. PICK i \in Slots : buffer_list[i].used /\ buffer_list[i].p = q
    BY <1>1 DEF SlotsOf
  <2>2. buffer_list'[i] = buffer_list[i]
    BY <1>1, <2>1, LinkOutputSlots
  <2>3. QED BY <2>1, <2>2 DEF SlotsOf
<1>2. ASSUME NEW p \in Pbufs, SegmentOut(p) PROVE NoOrphan'
  BY <1>1, <1>2 DEF SegmentOut, NoOrphan
<1>3. ASSUME NEW p \in Pbufs, ControlOut(p) PROVE NoOrphan'
  <2>1. p \in leaked' \/ SlotsOf(p)' # {}
    <3>1. CASE FreeSlots = {}
      BY <1>3, <3>1 DEF ControlOut
    <3>2. CASE FreeSlots # {}
      <4>1. PICK k \in FreeSlots :
              buffer_list' = [buffer_list EXCEPT ![k] = [used |-> TRUE, p |-> p]]
        BY <1>3, <3>2 DEF ControlOut, LinkOutput
      <4>2. k \in Slots
        BY SizeFacts DEF FreeSlots
      <4>3. QED BY <4>1, <4>2 DEF SlotsOf, TypeOK
    <3>3. QED BY <3>1, <3>2
  <2>2. QED BY <1>1, <1>3, <2>1 DEF ControlOut, NoOrphan
<1>4. ASSUME NEW p \in Pbufs, AckIn(p) PROVE NoOrphan'
  <2>1. p \in heap /\ ref[p] = 1
    BY <1>4 DEF AckIn, Ownership
  <2>2. heap' = heap \ {p}
    BY <1>4, <2>1 DEF AckIn, ReachesZero
  <2>3. QED BY <1>4, <2>2 DEF AckIn, NoOrphan, SlotsOf
<1>5. CASE MainFunction
  <2> SUFFICES ASSUME NEW q \in heap'
               PROVE  q \in unacked \/ q \in leaked \/ mainpc.p = q
    BY <1>5 DEF MainFunction, NoOrphan
  <2>1. q \in heap /\ ref[q] = 1
        /\ ~ReachesZero(ref[q], IF free_buffer[q] THEN Cardinality(SlotsOf(q)) ELSE 0)
    BY <1>5 DEF MainFunction, Ownership
  <2>2. CASE SlotsOf(q) = {}
    BY <2>1, <2>2 DEF NoOrphan
  <2>3. CASE SlotsOf(q) # {}
    <3>1. Cardinality(SlotsOf(q)) = 1
      BY <2>3, OwnedSlots
    <3>2. ~free_buffer[q]
      BY <2>1, <3>1 DEF ReachesZero
    <3>3. QED BY <2>3, <3>2 DEF SlotsOf, Ownership
  <2>4. QED BY <2>2, <2>3
<1>6. CASE UNCHANGED vars
  BY <1>6 DEF vars, NoOrphan, SlotsOf
<1>7. QED
  BY <1>2, <1>3, <1>4, <1>5, <1>6
     DEF Next, Send, Rexmit, HeldOut, ArpReply, EchoReply, ZeroWindowProbe,
         MainScan, MainStore, MainCommit, Ownership, Idle, AdaptedSenders

\* With the senders that were adapted to deferred transmission every pbuf has
\* one owner: the slot that is going to be sent, or the segment that keeps it.
THEOREM AdaptedSendersOwn == Spec => []AdaptedOwnership
<1>1. Init => AdaptedOwnership
  BY DEF Init, AdaptedOwnership, Ownership, EmptySlot, Idle
<1>2. TypeOK /\ AdaptedOwnership /\ [Next]_vars => AdaptedOwnership'
  <2> SUFFICES ASSUME TypeOK, AdaptedOwnership, [Next]_vars,
                      features' \subseteq AdaptedSenders
               PROVE  Ownership'
    BY DEF AdaptedOwnership
  <2>1. features' = features
    BY DEF Next, vars
  <2>2. Ownership
    BY <2>1 DEF AdaptedOwnership
  <2>3. QED BY <2>1, <2>2, OwnershipStep
<1>3. QED BY <1>1, <1>2, TypeCorrect, PTL DEF Spec

\* Hence TcpIp_MainFunction never reads a pbuf that has been freed, never frees
\* one twice and forgets none, whatever the sizes of the queue and of the memory
\* and in whatever order segments, control packets and acknowledgements come.
THEOREM AdaptedSendersSafe == Spec => []AdaptedSafe
<1> DEFINE Kept == features \subseteq AdaptedSenders => NoOrphan
<1>1. Init => Kept
  BY DEF Init, NoOrphan
<1>2. TypeOK /\ AdaptedOwnership /\ Kept /\ [Next]_vars => Kept'
  <2> SUFFICES ASSUME TypeOK, AdaptedOwnership, Kept, [Next]_vars,
                      features' \subseteq AdaptedSenders
               PROVE  NoOrphan'
    OBVIOUS
  <2>1. features' = features
    BY DEF Next, vars
  <2>2. QED BY <2>1, NoOrphanStep DEF AdaptedOwnership
<1>3. TypeOK /\ Ownership => NoDanglingPointer /\ NoDoubleFree
  <2> SUFFICES ASSUME TypeOK, Ownership PROVE NoDanglingPointer /\ NoDoubleFree
    OBVIOUS
  <2>1. NoDanglingPointer
    BY DEF Ownership, NoDanglingPointer
  <2>2. ASSUME NEW p \in Pbufs, free_buffer[p]
        PROVE  Cardinality(SlotsOf(p)) <= ref[p]
    <3>1. CASE SlotsOf(p) = {}
      <4>1. Cardinality(SlotsOf(p)) = 0
        BY <3>1, OwnedSlots
      <4>2. QED BY <4>1, SizeFacts DEF TypeOK
    <3>2. CASE SlotsOf(p) # {}
      <4>1. ref[p] = 1
        BY <3>2 DEF SlotsOf, Ownership
      <4>2. QED BY <3>2, <4>1, OwnedSlots
    <3>3. QED BY <3>1, <3>2
  <2>3. QED BY <2>1, <2>2 DEF NoDoubleFree
<1>4. TypeOK /\ AdaptedOwnership /\ Kept => AdaptedSafe
  BY <1>3 DEF AdaptedOwnership, AdaptedSafe
<1>5. QED
  BY <1>1, <1>2, <1>4, TypeCorrect, AdaptedSendersOwn, PTL DEF Spec

-----------------------------------------------------------------------------
(* The array is a FIFO as long as main() does not enter it.                *)

\* The number of packets waiting, when the used slots are the first d.
LEMMA DepthOfPrefix ==
  ASSUME NEW d \in 0 .. MaxNoBuffers,
         \A i \in Slots : buffer_list[i].used <=> i < d
  PROVE  Depth = d
<1>1. {i \in Slots : buffer_list[i].used} = 0 .. d - 1
  BY SizeFacts
<1>2. Cardinality(0 .. d - 1) = d
  BY FS_Interval, SizeFacts
<1>3. QED BY <1>1, <1>2 DEF Depth

\* linkoutput appends to the packets waiting, or finds the queue full.
LEMMA LinkOutputFifo ==
  ASSUME TypeOK, UsedIsPrefix, NEW p \in Pbufs, LinkOutput(p)
  PROVE  /\ UsedIsPrefix'
         /\ \/ FreeSlots = {} /\ Len(Waiting) = MaxNoBuffers /\ Waiting' = Waiting
            \/ /\ FreeSlots # {} /\ Len(Waiting) < MaxNoBuffers
               /\ Waiting' = Append(Waiting, p)
<1>1. PICK d \in 0 .. MaxNoBuffers :
        \A i \in Slots : buffer_list[i].used <=> i < d
  BY DEF UsedIsPrefix
<1>2. Depth = d
  BY <1>1, DepthOfPrefix
<1>3. Waiting \in Seq(Pbufs \cup {NULL}) /\ Len(Waiting) = d
  <2>1. \A k \in 1 .. d : k - 1 \in Slots
    BY SizeFacts
  <2>2. QED BY <1>2, <2>1, SizeFacts DEF Waiting, TypeOK
<1>4. CASE FreeSlots = {}
  <2>1. d = MaxNoBuffers
    <3>1. SUFFICES ASSUME d < MaxNoBuffers PROVE FALSE
      BY SizeFacts
    <3>2. d \in FreeSlots
      BY <1>1, <3>1, SizeFacts DEF FreeSlots
    <3>3. QED BY <3>2, <1>4
  <2>2. UNCHANGED buffer_list
    BY <1>4 DEF LinkOutput
  <2>3. QED
    BY <1>3, <1>4, <2>1, <2>2 DEF UsedIsPrefix, Waiting, Depth
<1>5. CASE FreeSlots # {}
  <2>1. PICK i \in FreeSlots :
          /\ FirstFree(i)
          /\ buffer_list' = [buffer_list EXCEPT ![i] = [used |-> TRUE, p |-> p]]
    BY <1>5 DEF LinkOutput
  <2>2. i \in 0 .. MaxNoBuffers - 1 /\ i \in Slots /\ ~(i < d)
    BY <1>1, SizeFacts DEF FreeSlots
  <2>3. d \in FreeSlots
    BY <1>1, <2>2, SizeFacts DEF FreeSlots
  <2>4. i = d
    BY <2>1, <2>2, <2>3, SizeFacts DEF FirstFree
  <2>5. \A j \in Slots : buffer_list'[j].used <=> j < d + 1
    BY <1>1, <2>1, <2>2, <2>4, SizeFacts DEF TypeOK
  <2>6. d + 1 \in 0 .. MaxNoBuffers
    BY <2>2, <2>4, SizeFacts
  <2>7. Depth' = d + 1
    <3>1. {j \in Slots : buffer_list'[j].used} = 0 .. (d + 1) - 1
      BY <2>5, <2>6, SizeFacts
    <3>2. Cardinality(0 .. (d + 1) - 1) = d + 1
      BY FS_Interval, SizeFacts
    <3>3. QED BY <3>1, <3>2 DEF Depth
  <2>8. UsedIsPrefix'
    BY <2>5, <2>6 DEF UsedIsPrefix
  <2>9. Waiting' = Append(Waiting, p)
    <3>1. Waiting' = [k \in 1 .. d + 1 |-> buffer_list'[k - 1].p]
      BY <2>7 DEF Waiting
    <3>2. /\ Append(Waiting, p) \in Seq(Pbufs \cup {NULL})
          /\ Len(Append(Waiting, p)) = d + 1
          /\ \A k \in 1 .. d : Append(Waiting, p)[k] = Waiting[k]
          /\ Append(Waiting, p)[d + 1] = p
      BY <1>3, AppendProperties
    <3>3. ASSUME NEW k \in 1 .. d + 1
          PROVE  buffer_list'[k - 1].p = IF k = d + 1 THEN p ELSE Waiting[k]
      <4>1. k - 1 \in Slots
        BY <2>6, SizeFacts
      <4>2. CASE k = d + 1
        BY <2>1, <2>2, <2>4, <4>2, SizeFacts DEF TypeOK
      <4>3. CASE k # d + 1
        <5>1. k \in 1 .. d /\ k - 1 # i
          BY <2>4, <4>3, SizeFacts
        <5>2. Waiting[k] = buffer_list[k - 1].p
          BY <1>2, <5>1 DEF Waiting
        <5>3. QED BY <2>1, <4>1, <4>3, <5>1, <5>2 DEF TypeOK
      <4>4. QED BY <4>2, <4>3
    <3>4. \A k \in 1 .. d + 1 : Waiting'[k] = Append(Waiting, p)[k]
      BY <3>1, <3>2, <3>3
    <3>5. Waiting' \in Seq(Pbufs \cup {NULL}) /\ Len(Waiting') = d + 1
      <4>1. ASSUME NEW k \in 1 .. d + 1
            PROVE  buffer_list'[k - 1].p \in Pbufs \cup {NULL}
        BY <1>3, <3>3, ElementOfSeq
      <4>2. QED BY <3>1, <4>1, SizeFacts
    <3> DEFINE old == Append(Waiting, p)
               new == Waiting'
    <3> HIDE DEF old, new
    <3>6. /\ old \in Seq(Pbufs \cup {NULL}) /\ new \in Seq(Pbufs \cup {NULL})
          /\ Len(new) = Len(old) /\ \A k \in 1 .. Len(new) : new[k] = old[k]
      BY <3>2, <3>4, <3>5 DEF old, new
    <3>7. new = old
      BY <3>6, SeqEqual
    <3>8. QED BY <3>7 DEF old, new
  <2>10. Len(Waiting) < MaxNoBuffers
    BY <1>3, <2>2, <2>4, SizeFacts
  <2>11. QED BY <1>5, <2>8, <2>9, <2>10
<1>6. QED BY <1>4, <1>5

\* One step of the transmit path is a step of the FIFO or changes nothing.
LEMMA FifoStep ==
  ASSUME InterruptsOnly, TypeOK, UsedIsPrefix, mainpc = Idle, [Next]_vars
  PROVE  UsedIsPrefix' /\ mainpc' = Idle /\ [Fifo!Next]_(Fifo!vars)
<1>0. Queue = Waiting /\ Queue' = Waiting' /\ Refused = leaked /\ Refused' = leaked'
  BY DEF Next, vars, Queue, Refused, InterruptsOnly
<1> USE <1>0 DEF Fifo!Next, Fifo!vars, Fifo!Put, Fifo!Refuse, Fifo!Flush
<1>1. ASSUME NEW p \in Pbufs, SegmentOut(p)
      PROVE  UsedIsPrefix' /\ mainpc' = Idle /\ [Fifo!Next]_(Fifo!vars)
  BY <1>1, LinkOutputFifo DEF SegmentOut
<1>2. ASSUME NEW p \in Pbufs, Rexmit(p)
      PROVE  UsedIsPrefix' /\ mainpc' = Idle /\ [Fifo!Next]_(Fifo!vars)
  BY <1>2, LinkOutputFifo DEF Rexmit
<1>3. ASSUME NEW p \in Pbufs, ControlOut(p)
      PROVE  UsedIsPrefix' /\ mainpc' = Idle /\ [Fifo!Next]_(Fifo!vars)
  BY <1>3, LinkOutputFifo DEF ControlOut
<1>4. ASSUME NEW p \in Pbufs, HeldOut(p)
      PROVE  UsedIsPrefix' /\ mainpc' = Idle /\ [Fifo!Next]_(Fifo!vars)
  BY <1>4, LinkOutputFifo DEF HeldOut
<1>5. ASSUME NEW p \in Pbufs, QueueThenFree(p)
      PROVE  UsedIsPrefix' /\ mainpc' = Idle /\ [Fifo!Next]_(Fifo!vars)
  BY <1>5, LinkOutputFifo DEF QueueThenFree
<1>6. ASSUME NEW p \in Pbufs, AckIn(p)
      PROVE  UsedIsPrefix' /\ mainpc' = Idle /\ [Fifo!Next]_(Fifo!vars)
  BY <1>6 DEF AckIn, UsedIsPrefix, Waiting, Depth
<1>7. CASE MainFunction
  <2>1. \A i \in Slots : ~buffer_list'[i].used
    BY <1>7 DEF MainFunction, EmptySlot
  <2>2. UsedIsPrefix'
    <3>1. \A i \in Slots : buffer_list'[i].used <=> i < 0
      BY <2>1, SizeFacts
    <3>2. 0 \in 0 .. MaxNoBuffers
      BY SizeFacts
    <3>3. QED BY <3>1, <3>2 DEF UsedIsPrefix
  <2>3. Depth' = 0
    <3>1. {i \in Slots : buffer_list'[i].used} = {}
      BY <2>1
    <3>2. QED BY <3>1, FS_EmptySet DEF Depth
  <2>4. Waiting' = <<>>
    BY <2>3 DEF Waiting
  <2>5. Waiting # <<>>
    <3>1. PICK d \in 0 .. MaxNoBuffers :
            \A i \in Slots : buffer_list[i].used <=> i < d
      BY DEF UsedIsPrefix
    <3>2. Depth = d /\ d > 0
      BY <1>7, <3>1, DepthOfPrefix, SizeFacts DEF MainFunction
    <3>3. 1 \in DOMAIN Waiting
      BY <3>2, SizeFacts DEF Waiting
    <3>4. QED BY <3>3
  <2>6. QED BY <1>7, <2>2, <2>4, <2>5 DEF MainFunction
<1>8. CASE UNCHANGED vars
  BY <1>8 DEF vars, UsedIsPrefix, Waiting, Depth
<1>9. QED
  BY <1>1, <1>2, <1>3, <1>4, <1>5, <1>6, <1>7, <1>8
     DEF Next, Send, ArpReply, EchoReply, ZeroWindowProbe, MainScan, MainStore,
         MainCommit, Idle, InterruptsOnly

\* As long as only interrupt handlers send, buffer_list implements the bounded
\* FIFO: a packet is refused only when all max_no_buffers slots are taken, and
\* packets leave in the order they were queued.
THEOREM TxQueueImplementsFifo == Spec => ImplementsFifo
<1> DEFINE InOrder == InterruptsOnly => UsedIsPrefix /\ mainpc = Idle
<1>1. Init => InOrder /\ Fifo!Init
  <2> SUFFICES ASSUME Init PROVE UsedIsPrefix /\ mainpc = Idle /\ Fifo!Init
    OBVIOUS
  <2>1. \A i \in Slots : buffer_list[i].used <=> i < 0
    BY SizeFacts DEF Init, EmptySlot
  <2>2. 0 \in 0 .. MaxNoBuffers
    BY SizeFacts
  <2>3. Depth = 0
    BY <2>1, <2>2, DepthOfPrefix
  <2>4. Waiting = <<>>
    BY <2>3 DEF Waiting
  <2>5. QED
    BY <2>1, <2>2, <2>4 DEF Init, UsedIsPrefix, Fifo!Init, Queue, Refused
<1>2. TypeOK /\ InOrder /\ [Next]_vars => InOrder' /\ [Fifo!Next]_(Fifo!vars)
  <2> SUFFICES ASSUME TypeOK, InOrder, [Next]_vars
               PROVE  InOrder' /\ [Fifo!Next]_(Fifo!vars)
    OBVIOUS
  <2>1. InterruptsOnly' <=> InterruptsOnly
    BY DEF Next, vars, InterruptsOnly
  <2>2. CASE InterruptsOnly
    BY <2>1, <2>2, FifoStep DEF Idle
  <2>3. CASE ~InterruptsOnly
    BY <2>1, <2>3 DEF Queue, Refused, Fifo!vars
  <2>4. QED BY <2>2, <2>3
<1>3. QED
  BY <1>1, <1>2, TypeCorrect, PTL DEF Spec, ImplementsFifo, Fifo!Spec

-----------------------------------------------------------------------------
(* main() interrupted while it claims a slot.  Handlers may take the slot  *)
(* it has chosen, so slots may lose their pbuf; but only TcpIp_MainFunction *)
(* frees, it clears what it has sent, and it frees nothing that main() is  *)
(* about to publish.                                                       *)

ClaimSafe ==
  /\ unacked = {}
  /\ \A i \in Slots : buffer_list[i].used => buffer_list[i].p \in heap \cup {NULL}
  /\ mainpc.at = "store" => mainpc.p \in heap /\ SlotsOf(mainpc.p) = {}
  /\ mainpc.at = "commit" =>
       LET p == buffer_list[mainpc.slot].p
       IN  ~buffer_list[mainpc.slot].used => p = NULL \/ (p \in heap /\ SlotsOf(p) = {})

\* TcpIp_MainFunction keeps what is in no slot it sends.
LEMMA UnqueuedStay ==
  ASSUME TypeOK, MainFunction, NEW p \in heap, SlotsOf(p) = {}
  PROVE  p \in heap'
<1>1. Cardinality(SlotsOf(p)) = 0
  BY FS_EmptySet
<1>2. ~ReachesZero(ref[p], 0)
  <2>1. ref[p] \in Nat
    BY SizeFacts DEF TypeOK
  <2> QED
    BY <2>1 DEF ReachesZero
<1>3. (IF free_buffer[p] THEN Cardinality(SlotsOf(p)) ELSE 0) = 0
  BY <1>1
<1>4. heap' = {q \in heap : ~ReachesZero(ref[q], IF free_buffer[q] THEN Cardinality(SlotsOf(q)) ELSE 0)}
  BY DEF MainFunction
<1> QED
  BY <1>2, <1>3, <1>4

\* Every step keeps ClaimSafe.
LEMMA ClaimSafeStep ==
  ASSUME TypeOK, features \subseteq {"control", "main"}, ClaimSafe, [Next]_vars
  PROVE  ClaimSafe'
<1>1. ASSUME NEW p \in Pbufs, ControlOut(p)
      PROVE  ClaimSafe'
  <2>1. /\ p \notin heap /\ heap' = heap \cup {p}
        /\ UNCHANGED <<unacked, mainpc>>
        /\ LinkOutput(p)
    BY <1>1 DEF ControlOut, Alloc
  <2>2. \/ UNCHANGED buffer_list
        \/ \E k \in Slots : /\ ~buffer_list[k].used
                            /\ buffer_list' = [buffer_list EXCEPT ![k] = [used |-> TRUE, p |-> p]]
    BY <2>1, SizeFacts DEF LinkOutput, FreeSlots, Slots
  <2>3. CASE UNCHANGED buffer_list
    BY <2>1, <2>3 DEF ClaimSafe, SlotsOf
  <2>4. ASSUME NEW k \in Slots, ~buffer_list[k].used,
               buffer_list' = [buffer_list EXCEPT ![k] = [used |-> TRUE, p |-> p]]
        PROVE  ClaimSafe'
    <3>1. ASSUME NEW q \in heap
          PROVE  SlotsOf(q)' = SlotsOf(q)
      BY <2>1, <2>4, <3>1 DEF SlotsOf, TypeOK
    <3>2. mainpc.slot \in Slots
      BY SizeFacts DEF TypeOK
    <3>3. \A i \in Slots : i # k => buffer_list'[i] = buffer_list[i]
      BY <2>4 DEF TypeOK
    <3>4. buffer_list'[k].used /\ buffer_list'[k].p = p
      BY <2>4 DEF TypeOK
    <3>5. /\ unacked' = {}
          /\ \A i \in Slots : buffer_list'[i].used => buffer_list'[i].p \in heap' \cup {NULL}
      BY <2>1, <3>3, <3>4 DEF ClaimSafe
    <3>6. mainpc'.at = "store" => mainpc'.p \in heap' /\ SlotsOf(mainpc.p)' = {}
      BY <2>1, <3>1 DEF ClaimSafe
    <3>7. ASSUME mainpc.at = "commit", ~buffer_list'[mainpc.slot].used,
                 buffer_list'[mainpc.slot].p # NULL
          PROVE  /\ buffer_list'[mainpc.slot].p \in heap'
                 /\ SlotsOf(buffer_list[mainpc.slot].p)' = {}
      BY <2>1, <3>1, <3>2, <3>3, <3>4, <3>7 DEF ClaimSafe
    <3>8. mainpc.slot # k => buffer_list'[mainpc.slot].p = buffer_list[mainpc.slot].p
      BY <3>2, <3>3
    <3> QED
      BY <2>1, <3>4, <3>5, <3>6, <3>7, <3>8 DEF ClaimSafe, SlotsOf
  <2> QED
    BY <2>2, <2>3, <2>4
<1>2. ASSUME NEW p \in Pbufs, MainScan(p)
      PROVE  ClaimSafe'
  <2>1. /\ p \notin heap /\ heap' = heap \cup {p}
        /\ UNCHANGED <<unacked, buffer_list>>
        /\ mainpc'.at = "store" /\ mainpc'.p = p
    BY <1>2 DEF MainScan, Alloc
  <2>2. SlotsOf(p) = {}
    BY <2>1, PbufsAssumption DEF ClaimSafe, SlotsOf
  <2> QED
    BY <2>1, <2>2 DEF ClaimSafe, SlotsOf
<1>3. CASE MainStore
  <2>1. /\ buffer_list' = [buffer_list EXCEPT ![mainpc.slot].p = mainpc.p]
        /\ mainpc' = [mainpc EXCEPT !.at = "commit"]
        /\ UNCHANGED <<heap, unacked>>
        /\ mainpc.p \in heap /\ SlotsOf(mainpc.p) = {}
    BY <1>3 DEF MainStore, ClaimSafe
  <2>2. mainpc.slot \in Slots
    BY SizeFacts DEF TypeOK
  <2>3. /\ \A i \in Slots : i # mainpc.slot => buffer_list'[i] = buffer_list[i]
        /\ \A i \in Slots : buffer_list'[i].used = buffer_list[i].used
        /\ buffer_list'[mainpc.slot].p = mainpc.p
    BY <2>1, <2>2 DEF TypeOK
  <2>4. mainpc'.at = "commit" /\ mainpc'.slot = mainpc.slot
    BY <2>1 DEF TypeOK
  <2>5. ~buffer_list[mainpc.slot].used => SlotsOf(mainpc.p)' = {}
    BY <2>1, <2>2, <2>3 DEF SlotsOf
  <2> QED
    BY <2>1, <2>2, <2>3, <2>4, <2>5 DEF ClaimSafe, SlotsOf
<1>4. CASE MainCommit
  <2>1. mainpc'.at = "idle"
    BY <1>4 DEF MainCommit, Idle
  <2>2. mainpc.slot \in Slots
    BY SizeFacts DEF TypeOK
  <2>3. buffer_list'[mainpc.slot].p \in heap \cup {NULL}
    BY <1>4, <2>2 DEF MainCommit, ClaimSafe, TypeOK
  <2> QED
    BY <1>4, <2>1, <2>2, <2>3 DEF MainCommit, ClaimSafe, TypeOK
<1>5. CASE MainFunction
  <2>1. /\ unacked' = {} /\ mainpc' = mainpc
        /\ \A i \in Slots : buffer_list'[i] = IF buffer_list[i].used THEN EmptySlot ELSE buffer_list[i]
    BY <1>5 DEF MainFunction, ClaimSafe
  <2>2. /\ \A i \in Slots : ~buffer_list'[i].used
        /\ \A q : SlotsOf(q)' = {}
    BY <2>1 DEF EmptySlot, SlotsOf
  <2>3. mainpc.slot \in Slots
    BY SizeFacts DEF TypeOK
  <2>4. mainpc.at = "store" => mainpc.p \in heap'
    BY <1>5, UnqueuedStay DEF ClaimSafe
  <2>5. ASSUME mainpc.at = "commit", buffer_list'[mainpc.slot].p # NULL
        PROVE  buffer_list'[mainpc.slot].p \in heap'
    <3>1. ~buffer_list[mainpc.slot].used /\ buffer_list'[mainpc.slot] = buffer_list[mainpc.slot]
      BY <2>1, <2>3, <2>5 DEF EmptySlot
    <3> QED
      BY <1>5, <2>5, <3>1, UnqueuedStay DEF ClaimSafe
  <2> QED
    BY <2>1, <2>2, <2>4, <2>5 DEF ClaimSafe, SlotsOf
<1>6. CASE UNCHANGED vars
  BY <1>6 DEF vars, ClaimSafe, SlotsOf
<1>7. ASSUME NEW p \in Pbufs
      PROVE  ~AckIn(p) /\ (Send(p) => ControlOut(p))
  BY DEF ClaimSafe, AckIn, Send, SegmentOut, Rexmit, HeldOut, ArpReply, EchoReply, ZeroWindowProbe
<1> QED
  BY <1>1, <1>2, <1>3, <1>4, <1>5, <1>6, <1>7 DEF Next

\* However handlers interrupt main() while it claims a slot, TcpIp_MainFunction never
\* sends a pbuf that was freed; for any number of slots and pbufs.
THEOREM InterruptedClaimSafe == Spec => []NoFreedPointer
<1> DEFINE Safe == features \subseteq {"control", "main"} => ClaimSafe
<1>1. Init => Safe
  BY DEF Init, ClaimSafe, EmptySlot, Idle
<1>2. TypeOK /\ Safe /\ [Next]_vars => Safe'
  BY ClaimSafeStep DEF Next, vars
<1>3. Safe => NoFreedPointer
  BY DEF ClaimSafe, NoFreedPointer
<1> QED
  BY <1>1, <1>2, <1>3, TypeCorrect, PTL DEF Spec

=============================================================================
