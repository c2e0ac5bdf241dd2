---------------------------- MODULE TcpPcbsProofs ----------------------------
(***************************************************************************)
(* The control blocks, for any number of blocks, endpoints and peers and   *)
(* for any time limits.                                                    *)
(*                                                                         *)
(* Types hold in every program.  The axioms about the lists hold in a      *)
(* program that opens connections; in one that listens the code breaks     *)
(* them, because the listening block itself becomes the connection.  The   *)
(* inductive invariant says which list each block in use is on, by what    *)
(* its state says, and which blocks the application may still use.         *)
(***************************************************************************)
EXTENDS TcpListProofs

-----------------------------------------------------------------------------
(* Types                                                                   *)

LEMMA FreshType == Fresh \in Pcb
<1>1. 0 \in 0 .. MaxRtx /\ 0 \in 0 .. MaxAge
  BY TimerAssumption
<1> QED
  BY <1>1 DEF Fresh, Pcb, States

\* One block's record is replaced.
LEMMA PcbFields ==
  ASSUME NEW t \in Tcp, NEW p \in Pcbs, NEW c \in Pcb
  PROVE  /\ [t EXCEPT !.pcb[p] = c] \in Tcp
         /\ [t EXCEPT !.pcb[p] = c].next = t.next /\ [t EXCEPT !.pcb[p] = c].head = t.head
         /\ [t EXCEPT !.pcb[p] = c].pool = t.pool
         /\ [t EXCEPT !.pcb[p] = c].pcb[p] = c
         /\ \A q \in Pcbs \ {p} : [t EXCEPT !.pcb[p] = c].pcb[q] = t.pcb[q]
BY DEF Tcp

LEMMA StateType ==
  ASSUME NEW c \in Pcb, NEW s \in States
  PROVE  /\ [c EXCEPT !.state = s] \in Pcb
         /\ [c EXCEPT !.state = s].state = s
         /\ [c EXCEPT !.state = s].local = c.local
         /\ [c EXCEPT !.state = s].rxclosed = c.rxclosed
BY DEF Pcb

\* tcp_pcb_remove.
LEMMA RemoveIs ==
  ASSUME NEW t \in Tcp, NEW l \in Lists, NEW p \in Pcbs
  PROVE  /\ Remove(t, l, p) = [Rmv(t, l, p) EXCEPT !.pcb[p] = [t.pcb[p] EXCEPT !.state = "CLOSED"]]
         /\ [t.pcb[p] EXCEPT !.state = "CLOSED"] \in Pcb
<1>1. Rmv(t, l, p) \in Tcp /\ Rmv(t, l, p).pcb = t.pcb
  BY RmvKeeps
<1>2. t.pcb[p] \in Pcb
  BY DEF Tcp
<1>3. [t.pcb[p] EXCEPT !.state = "CLOSED"] \in Pcb
  BY <1>2, StateType DEF States
<1>4. Remove(t, l, p) = [Rmv(t, l, p) EXCEPT !.pcb[p] = [t.pcb[p] EXCEPT !.state = "CLOSED"]]
  BY <1>1 DEF Remove, Tcp
<1> QED
  BY <1>3, <1>4

LEMMA RemoveType ==
  ASSUME NEW t \in Tcp, NEW l \in Lists, NEW p \in Pcbs
  PROVE  Remove(t, l, p) \in Tcp
<1>1. Rmv(t, l, p) \in Tcp
  BY RmvKeeps
<1>2. [t.pcb[p] EXCEPT !.state = "CLOSED"] \in Pcb
  <2>1. t.pcb[p] \in Pcb
    BY DEF Tcp
  <2> QED
    BY <2>1 DEF Pcb, States
<1>3. Remove(t, l, p) = [Rmv(t, l, p) EXCEPT !.pcb[p] = [t.pcb[p] EXCEPT !.state = "CLOSED"]]
  BY RemoveIs
<1> QED
  BY <1>1, <1>2, <1>3, PcbFields

LEMMA AbandonType ==
  ASSUME NEW t \in Tcp, NEW p \in Pcbs
  PROVE  Abandon(t, p) \in Tcp
<1>1. "tw" \in Lists /\ "active" \in Lists /\ {p} \in SUBSET Pcbs
  BY DEF Lists
<1> QED
  BY <1>1, RemoveType, ReleaseFields DEF Abandon

LEMMA AllocatedType ==
  ASSUME NEW t \in Tcp, NEW p \in Pcbs
  PROVE  /\ Allocated(t, p) \in Tcp
         /\ Allocated(t, p).next = [t.next EXCEPT ![p] = NULL] /\ Allocated(t, p).head = t.head
         /\ Allocated(t, p).pool = t.pool \ {p}
         /\ Allocated(t, p).pcb = [t.pcb EXCEPT ![p] = Fresh]
BY FreshType DEF Allocated, Tcp, Links, Pointer

LEMMA ClosedType ==
  ASSUME NEW t0 \in Tcp, NEW p \in Pcbs, NEW enqueued \in BOOLEAN
  PROVE  Closed(t0, p, enqueued) \in Tcp
<1> DEFINE s == t0.pcb[p].state
           t == IF s = "LISTEN" THEN t0 ELSE [t0 EXCEPT !.pcb[p].rxclosed = TRUE]
<1>1. t0.pcb[p] \in Pcb /\ [t0.pcb[p] EXCEPT !.rxclosed = TRUE] \in Pcb
  BY DEF Tcp, Pcb
<1>2. [t0 EXCEPT !.pcb[p].rxclosed = TRUE] = [t0 EXCEPT !.pcb[p] = [t0.pcb[p] EXCEPT !.rxclosed = TRUE]]
  BY DEF Tcp
<1>3. t \in Tcp
  BY <1>1, <1>2, PcbFields
<1>4. {p} \in SUBSET Pcbs /\ "bound" \in Lists /\ "listen" \in Lists /\ "active" \in Lists
  BY DEF Lists
<1>5. Closed(t0, p, enqueued) =
        CASE s = "CLOSED" -> Release(IF t.pcb[p].local = NULL THEN t ELSE Rmv(t, "bound", p), {p})
          [] s = "LISTEN" -> Remove(t, "listen", p)
          [] s = "SYN_SENT" -> Release(Remove(t, "active", p), {p})
          [] s \in {"SYN_RCVD", "ESTABLISHED"} /\ enqueued -> [t EXCEPT !.pcb[p].state = "FIN_WAIT_1"]
          [] s = "CLOSE_WAIT" /\ enqueued -> [t EXCEPT !.pcb[p].state = "LAST_ACK"]
          [] OTHER -> t
  BY DEF Closed
<1> HIDE DEF t
<1>6. ASSUME NEW z \in {"FIN_WAIT_1", "LAST_ACK"}
      PROVE  [t EXCEPT !.pcb[p].state = z] \in Tcp
  <2>1. t.pcb[p] \in Pcb /\ z \in States
    BY <1>3 DEF Tcp, States, Active, Closing
  <2>2. [t.pcb[p] EXCEPT !.state = z] \in Pcb
    BY <2>1, StateType
  <2>3. [t EXCEPT !.pcb[p].state = z] = [t EXCEPT !.pcb[p] = [t.pcb[p] EXCEPT !.state = z]]
    BY <1>3 DEF Tcp
  <2> QED
    BY <1>3, <2>2, <2>3, PcbFields
<1>7. /\ Release(t, {p}) \in Tcp /\ Release(Rmv(t, "bound", p), {p}) \in Tcp
      /\ Remove(t, "listen", p) \in Tcp /\ Release(Remove(t, "active", p), {p}) \in Tcp
  BY <1>3, <1>4, RmvKeeps, RemoveType, ReleaseFields
<1> HIDE DEF s
<1> QED
  BY <1>3, <1>5, <1>6, <1>7

LEMMA TouchedType ==
  ASSUME NEW c \in Pcb
  PROVE  /\ Touched(c) \in Pcb
         /\ Touched(c).state = c.state /\ Touched(c).local = c.local
         /\ Touched(c).rxclosed = c.rxclosed
<1>1. 0 \in 0 .. MaxAge
  BY TimerAssumption
<1> QED
  BY <1>1 DEF Touched, Pcb

LEMMA NextStateType ==
  ASSUME NEW s \in States, NEW seg
  PROVE  NextState(s, seg) \in States
BY DEF NextState, States, Active, Closing

\* The record of a block after tcp_process and tcp_receive.
NewPcb(c, seg) ==
  [Touched(c) EXCEPT !.state = NextState(c.state, seg),
                     !.nrtx = IF seg.ack THEN 0 ELSE @,
                     !.persist = IF c.state = "SYN_RCVD" /\ ~seg.ack THEN @ ELSE seg.zero,
                     !.since = IF NextState(c.state, seg) = c.state THEN @ ELSE 0]

LEMMA NewPcbType ==
  ASSUME NEW c \in Pcb, NEW seg, seg.zero \in BOOLEAN
  PROVE  /\ NewPcb(c, seg) \in Pcb
         /\ NewPcb(c, seg).state = NextState(c.state, seg)
         /\ NewPcb(c, seg).local = c.local
         /\ NewPcb(c, seg).rxclosed = c.rxclosed
<1>1. 0 \in 0 .. MaxRtx /\ 0 \in 0 .. MaxAge
  BY TimerAssumption
<1>2. Touched(c) \in Pcb /\ Touched(c).local = c.local /\ Touched(c).rxclosed = c.rxclosed
  BY TouchedType
<1>3. NextState(c.state, seg) \in States
  BY NextStateType DEF Pcb
<1> QED
  BY <1>1, <1>2, <1>3 DEF NewPcb, Pcb

\* What tcp_input does with a segment: the block comes to the front, gets its new record
\* and leaves for the TIME_WAIT list when that is its new state.
LEMMA ProcessedIs ==
  ASSUME NEW t \in Tcp, NEW p \in Pcbs, NEW seg
  PROVE  Processed(t, p, seg) =
           LET u == [MoveToFront(t, "active", p) EXCEPT !.pcb[p] = NewPcb(t.pcb[p], seg)]
           IN  IF NextState(t.pcb[p].state, seg) = "TIME_WAIT"
               THEN Reg(Rmv(u, "active", p), "tw", p) ELSE u
<1>1. t.pcb[p] \in Pcb
  BY DEF Tcp
<1>2. Touched(t.pcb[p]).state = t.pcb[p].state
  BY <1>1, TouchedType
<1> QED
  BY <1>2 DEF Processed, NewPcb

LEMMA ProcessedType ==
  ASSUME NEW t \in Tcp, NEW p \in Pcbs, NEW seg, seg.zero \in BOOLEAN
  PROVE  Processed(t, p, seg) \in Tcp
<1> DEFINE u == [MoveToFront(t, "active", p) EXCEPT !.pcb[p] = NewPcb(t.pcb[p], seg)]
<1>1. "tw" \in Lists /\ "active" \in Lists /\ t.pcb[p] \in Pcb
  BY DEF Lists, Tcp
<1>2. u \in Tcp
  BY <1>1, MoveToFrontFields, NewPcbType, PcbFields
<1>3. Processed(t, p, seg) = IF NextState(t.pcb[p].state, seg) = "TIME_WAIT"
                             THEN Reg(Rmv(u, "active", p), "tw", p) ELSE u
  BY ProcessedIs
<1> HIDE DEF u
<1>4. Reg(Rmv(u, "active", p), "tw", p) \in Tcp
  BY <1>1, <1>2, RmvKeeps, RegKeeps
<1> QED
  BY <1>2, <1>3, <1>4

LEMMA TickedFields ==
  ASSUME NEW t \in Tcp, NEW rto
  PROVE  /\ Ticked(t, rto) \in Tcp
         /\ Ticked(t, rto).next = t.next /\ Ticked(t, rto).head = t.head
         /\ Ticked(t, rto).pool = t.pool
         /\ \A p \in Pcbs : /\ Ticked(t, rto).pcb[p].state = t.pcb[p].state
                            /\ Ticked(t, rto).pcb[p].local = t.pcb[p].local
<1> DEFINE c(p) == [t.pcb[p] EXCEPT !.age = Next1(@),
                                    !.since = IF t.pcb[p].state \in {"SYN_RCVD", "TIME_WAIT"}
                                              THEN Next1(@) ELSE 0]
           d(p) == IF p \in t.pool THEN t.pcb[p]
                   ELSE IF p \in rto \cap Chain(t, "active") /\ Waiting(c(p).state)
                           /\ ~GivenUp(c(p)) /\ ~c(p).persist
                   THEN [c(p) EXCEPT !.nrtx = @ + 1]
                   ELSE c(p)
<1>1. ASSUME NEW n \in 0 .. MaxAge
      PROVE  Next1(n) \in 0 .. MaxAge
  BY TimerAssumption DEF Next1
<1>2. ASSUME NEW p \in Pcbs
      PROVE  d(p) \in Pcb /\ d(p).state = t.pcb[p].state /\ d(p).local = t.pcb[p].local
  <2>1. t.pcb[p] \in Pcb /\ 0 \in 0 .. MaxAge
    BY TimerAssumption DEF Tcp
  <2>2. c(p) \in Pcb /\ c(p).state = t.pcb[p].state /\ c(p).local = t.pcb[p].local
    <3>1. Next1(t.pcb[p].age) \in 0 .. MaxAge /\ Next1(t.pcb[p].since) \in 0 .. MaxAge
      BY <1>1, <2>1 DEF Pcb
    <3> QED
      BY <2>1, <3>1 DEF Pcb
  <2> HIDE DEF c
  <2>3. ASSUME ~GivenUp(c(p))
        PROVE  /\ [c(p) EXCEPT !.nrtx = @ + 1] \in Pcb
               /\ [c(p) EXCEPT !.nrtx = @ + 1].state = c(p).state
               /\ [c(p) EXCEPT !.nrtx = @ + 1].local = c(p).local
    <3>1. c(p).nrtx \in 0 .. MaxRtx /\ c(p).nrtx # MaxRtx
      BY <2>2, <2>3 DEF GivenUp, Pcb
    <3>2. c(p).nrtx + 1 \in 0 .. MaxRtx
      BY <3>1, TimerAssumption
    <3> QED
      BY <2>2, <3>2 DEF Pcb
  <2> QED
    BY <2>1, <2>2, <2>3
<1>3. Ticked(t, rto) = [t EXCEPT !.pcb = [p \in Pcbs |-> d(p)]]
  BY DEF Ticked
<1> HIDE DEF d
<1>4. [p \in Pcbs |-> d(p)] \in [Pcbs -> Pcb]
  BY <1>2
<1> QED
  BY <1>2, <1>3, <1>4 DEF Tcp

LEMMA TypeOKIs == TypeOK <=> usage \in Usages /\ tcp \in Tcp /\ owned \in SUBSET Pcbs
BY DEF TypeOK, Tcp, Links

LEMMA SegmentType ==
  ASSUME NEW seg \in Segment
  PROVE  seg.zero \in BOOLEAN /\ seg.ack \in BOOLEAN /\ seg.data \in BOOLEAN /\ seg.fin \in BOOLEAN
BY DEF Segment

LEMMA SlowTmrType ==
  ASSUME TypeOK, NEW rto, SlowTmr(rto)
  PROVE  tcp' \in Tcp /\ owned' \in SUBSET Pcbs
<1> DEFINE u == Ticked(tcp, rto)
           gone == Expired(tcp, u)
           goneTw == ExpiredTw(tcp, u)
           v == Unlink(u, "active", gone)
           w == Unlink(v, "tw", goneTw)
<1>1. u \in Tcp
  BY TypeOKIs, TickedFields
<1>2. "active" \in Lists /\ "tw" \in Lists
  BY DEF Lists
<1>3. gone \in SUBSET Pcbs /\ goneTw \in SUBSET Pcbs
  BY <1>2, TypeOKIs, ChainType DEF Expired, ExpiredTw
<1>4. tcp' = Release(w, gone \cup goneTw) /\ owned' = owned \ gone
  BY DEF SlowTmr
<1> HIDE DEF u, gone, goneTw
<1>5. v \in Tcp
  BY <1>1, <1>2, UnlinkKeeps
<1> HIDE DEF v
<1>6. w \in Tcp
  BY <1>2, <1>5, UnlinkKeeps
<1> HIDE DEF w
<1>7. Release(w, gone \cup goneTw) \in Tcp
  BY <1>3, <1>6, ReleaseFields
<1> QED
  BY <1>4, <1>7, TypeOKIs

LEMMA CallType ==
  ASSUME TypeOK, Call
  PROVE  tcp' \in Tcp /\ owned' \in SUBSET Pcbs
<1>0. /\ tcp \in Tcp /\ owned \in SUBSET Pcbs
      /\ "bound" \in Lists /\ "listen" \in Lists /\ "active" \in Lists /\ "tw" \in Lists
  BY TypeOKIs DEF Lists
<1>1. ASSUME NEW p \in Pcbs, TcpNew(p)
      PROVE  tcp' \in Tcp /\ owned' \in SUBSET Pcbs
  <2>1. Abandon(tcp, p) \in Tcp
    BY <1>0, AbandonType
  <2>2. Allocated(tcp, p) \in Tcp /\ Allocated(Abandon(tcp, p), p) \in Tcp
    BY <1>0, <2>1, AllocatedType
  <2> QED
    BY <1>0, <1>1, <2>2 DEF TcpNew
<1>2. ASSUME NEW p \in owned, NEW e \in Locals, TcpBind(p, e)
      PROVE  tcp' \in Tcp /\ owned' \in SUBSET Pcbs
  <2>1. [tcp.pcb[p] EXCEPT !.local = e] \in Pcb /\ p \in Pcbs
    BY <1>0 DEF Tcp, Pcb
  <2>2. [tcp EXCEPT !.pcb[p].local = e] = [tcp EXCEPT !.pcb[p] = [tcp.pcb[p] EXCEPT !.local = e]]
    BY <1>0 DEF Tcp
  <2>3. [tcp EXCEPT !.pcb[p].local = e] \in Tcp
    BY <1>0, <2>1, <2>2, PcbFields
  <2>4. tcp' = Reg([tcp EXCEPT !.pcb[p].local = e], "bound", p) /\ owned' = owned
    BY <1>2 DEF TcpBind
  <2> QED
    BY <1>0, <2>1, <2>3, <2>4, RegKeeps
<1>3. ASSUME NEW p \in owned, NEW r \in Peers, NEW ok \in BOOLEAN, TcpConnect(p, r, ok)
      PROVE  tcp' \in Tcp /\ owned' \in SUBSET Pcbs
  <2> DEFINE c == [tcp.pcb[p] EXCEPT !.remote = r, !.rxclosed = FALSE]
             d == [c EXCEPT !.state = "SYN_SENT"]
             t == [tcp EXCEPT !.pcb[p].remote = r, !.pcb[p].rxclosed = FALSE]
             u == [t EXCEPT !.pcb[p].state = "SYN_SENT"]
  <2>1. c \in Pcb /\ d \in Pcb /\ p \in Pcbs
    <3>1. p \in Pcbs /\ tcp.pcb[p] \in Pcb /\ "SYN_SENT" \in States
      BY <1>0 DEF Tcp, States, Active
    <3>2. c \in Pcb
      BY <3>1 DEF Pcb
    <3>3. d \in Pcb
      BY <3>1, <3>2 DEF Pcb
    <3> QED
      BY <3>1, <3>2, <3>3
  <2>2. t = [tcp EXCEPT !.pcb[p] = c] /\ u = [tcp EXCEPT !.pcb[p] = d]
    BY <1>0, <2>1 DEF Tcp
  <2>3. tcp' = (IF ok THEN Reg(Rmv(u, "bound", p), "active", p) ELSE t) /\ owned' = owned
    BY <1>3 DEF TcpConnect
  <2> HIDE DEF c, d, t, u
  <2>4. t \in Tcp /\ u \in Tcp
    BY <1>0, <2>1, <2>2, PcbFields
  <2>5. Reg(Rmv(u, "bound", p), "active", p) \in Tcp
    BY <1>0, <2>1, <2>4, RmvKeeps, RegKeeps
  <2> QED
    BY <1>0, <2>3, <2>4, <2>5
<1>4. ASSUME NEW p \in owned, NEW e \in Locals, TcpListen(p, e)
      PROVE  tcp' \in Tcp /\ owned' \in SUBSET Pcbs
  <2> DEFINE c == [tcp.pcb[p] EXCEPT !.state = "LISTEN", !.local = e]
             t == [tcp EXCEPT !.pcb[p].state = "LISTEN", !.pcb[p].local = e]
  <2>1. c \in Pcb /\ p \in Pcbs
    <3>1. p \in Pcbs /\ tcp.pcb[p] \in Pcb /\ "LISTEN" \in States
      BY <1>0 DEF Tcp, States
    <3> QED
      BY <3>1 DEF Pcb
  <2>2. t = [tcp EXCEPT !.pcb[p] = c]
    BY <1>0, <2>1 DEF Tcp
  <2>3. tcp' = Reg(t, "listen", p) /\ owned' = owned
    BY <1>4 DEF TcpListen
  <2> HIDE DEF c, t
  <2> QED
    BY <1>0, <2>1, <2>2, <2>3, PcbFields, RegKeeps
<1>5. ASSUME NEW p \in owned, NEW ok \in BOOLEAN, TcpClose(p, ok)
      PROVE  tcp' \in Tcp /\ owned' \in SUBSET Pcbs
  BY <1>0, <1>5, ClosedType DEF TcpClose
<1>6. ASSUME NEW p \in owned, TcpAbort(p)
      PROVE  tcp' \in Tcp /\ owned' \in SUBSET Pcbs
  BY <1>0, <1>6, AbandonType DEF TcpAbort
<1> QED
  BY <1>1, <1>2, <1>3, <1>4, <1>5, <1>6 DEF Call

LEMMA InputType ==
  ASSUME TypeOK, Input
  PROVE  tcp' \in Tcp /\ owned' \in SUBSET Pcbs
<1>0. /\ tcp \in Tcp /\ owned \in SUBSET Pcbs
      /\ "bound" \in Lists /\ "listen" \in Lists /\ "active" \in Lists /\ "tw" \in Lists
      /\ \A p \in Pcbs : tcp.pcb[p] \in Pcb
  BY TypeOKIs DEF Lists, Tcp
<1>1. ASSUME NEW p \in Pcbs, SynAckIn(p)
      PROVE  tcp' \in Tcp /\ owned' \in SUBSET Pcbs
  <2> DEFINE u == MoveToFront(tcp, "active", p)
             c == [Touched(u.pcb[p]) EXCEPT !.state = "ESTABLISHED"]
  <2>1. u \in Tcp /\ u.pcb[p] \in Pcb
    BY <1>0, MoveToFrontFields
  <2>2. tcp' = [u EXCEPT !.pcb[p] = c] /\ owned' = owned
    BY <1>1 DEF SynAckIn
  <2> HIDE DEF u
  <2>3. c \in Pcb
    BY <2>1, TouchedType, StateType DEF States, Active
  <2> QED
    BY <1>0, <2>1, <2>2, <2>3, PcbFields
<1>2. ASSUME NEW p \in Pcbs, RstIn(p)
      PROVE  tcp' \in Tcp /\ owned' \in SUBSET Pcbs
  <2>1. MoveToFront(tcp, "active", p) \in Tcp /\ {p} \in SUBSET Pcbs
    BY <1>0, MoveToFrontFields
  <2>2. Remove(MoveToFront(tcp, "active", p), "active", p) \in Tcp
    BY <1>0, <2>1, RemoveType
  <2> QED
    BY <1>0, <1>2, <2>1, <2>2, ReleaseFields DEF RstIn
<1>3. ASSUME NEW p \in Pcbs, TimewaitIn(p)
      PROVE  tcp' \in Tcp /\ owned' \in SUBSET Pcbs
  <2> DEFINE c == [tcp.pcb[p] EXCEPT !.age = 0, !.since = 0]
  <2>1. c \in Pcb
    <3>1. 0 \in 0 .. MaxAge
      BY TimerAssumption
    <3> QED
      BY <1>0, <3>1 DEF Pcb
  <2>2. [tcp EXCEPT !.pcb[p].age = 0, !.pcb[p].since = 0] = [tcp EXCEPT !.pcb[p] = c]
    BY <1>0 DEF Tcp
  <2>3. tcp' = [tcp EXCEPT !.pcb[p].age = 0, !.pcb[p].since = 0] /\ owned' = owned
    BY <1>3 DEF TimewaitIn
  <2> HIDE DEF c
  <2> QED
    BY <1>0, <2>1, <2>2, <2>3, PcbFields
<1>4. ASSUME NEW p \in Pcbs, NEW r \in Peers, NEW rst \in BOOLEAN, RefusedIn(p, r, rst)
      PROVE  tcp' \in Tcp /\ owned' \in SUBSET Pcbs
  <2> DEFINE u == MoveToFront(tcp, "active", p)
             c == IF rst THEN u.pcb[p] ELSE Touched(u.pcb[p])
  <2>1. u \in Tcp /\ u.pcb[p] \in Pcb /\ MoveToFront(tcp, "listen", p) \in Tcp
    BY <1>0, MoveToFrontFields
  <2>2. tcp' = [u EXCEPT !.pcb[p] = c] \/ tcp' = MoveToFront(tcp, "listen", p)
    BY <1>4 DEF RefusedIn
  <2>3. owned' = owned
    BY <1>4 DEF RefusedIn
  <2> HIDE DEF u
  <2>4. c \in Pcb
    BY <2>1, TouchedType
  <2> QED
    BY <1>0, <2>1, <2>2, <2>3, <2>4, PcbFields
<1>5. ASSUME NEW p \in Pcbs, NEW seg \in Segment, NEW ok \in BOOLEAN, SegIn(p, seg, p, ok)
      PROVE  tcp' \in Tcp /\ owned' \in SUBSET Pcbs
  <2> DEFINE t == Processed(tcp, p, seg)
  <2>1. t \in Tcp /\ {p} \in SUBSET Pcbs
    BY <1>0, SegmentType, ProcessedType
  <2>2. /\ \/ tcp' = Release(Remove(t, "active", p), {p}) \/ tcp' = Abandon(t, p)
           \/ tcp' = t \/ tcp' = Closed(t, p, ok)
        /\ owned' \in {owned, owned \ {p}}
    BY <1>5 DEF SegIn
  <2> HIDE DEF t
  <2>3. Release(Remove(t, "active", p), {p}) \in Tcp
    BY <1>0, <2>1, RemoveType, ReleaseFields
  <2>4. Abandon(t, p) \in Tcp /\ Closed(t, p, ok) \in Tcp
    BY <2>1, AbandonType, ClosedType
  <2> QED
    BY <1>0, <2>1, <2>2, <2>3, <2>4
<1>6. ASSUME NEW l \in Pcbs, NEW r \in Peers, NEW ok \in BOOLEAN, SynIn(l, r, ok)
      PROVE  tcp' \in Tcp /\ owned' \in SUBSET Pcbs
  <2> DEFINE u == MoveToFront(tcp, "listen", l)
             c == [u.pcb[l] EXCEPT !.state = "SYN_RCVD", !.remote = r, !.since = 0]
             v == [u EXCEPT !.pcb[l].state = "SYN_RCVD", !.pcb[l].remote = r, !.pcb[l].since = 0]
             t == Reg(v, "active", l)
  <2>1. u \in Tcp /\ u.pcb[l] \in Pcb
    BY <1>0, MoveToFrontFields
  <2>2. tcp' \in {t, Abandon(t, l)} /\ owned' \in {owned, owned \ {l}}
    BY <1>6 DEF SynIn
  <2> HIDE DEF u
  <2>3. c \in Pcb
    <3>1. 0 \in 0 .. MaxAge
      BY TimerAssumption
    <3> QED
      BY <2>1, <3>1 DEF Pcb, States, Active
  <2>4. v = [u EXCEPT !.pcb[l] = c]
    BY <2>1 DEF Tcp
  <2> HIDE DEF c, v
  <2>5. t \in Tcp
    BY <1>0, <2>1, <2>3, <2>4, PcbFields, RegKeeps
  <2> HIDE DEF t
  <2>6. Abandon(t, l) \in Tcp
    BY <2>5, AbandonType
  <2> QED
    BY <1>0, <2>2, <2>5, <2>6
<1> QED
  BY <1>1, <1>2, <1>3, <1>4, <1>5, <1>6 DEF Input

\* Pointers lead to blocks or nowhere and every field keeps its range, in every program;
\* no block is retransmitted more than TCP_MAXRTX times.
THEOREM TypeCorrect == Spec => []TypeOK
<1>1. Init => TypeOK
  BY FreshType DEF Init, TypeOK, Pointer
<1>2. TypeOK /\ [Next]_vars => TypeOK'
  <2> SUFFICES ASSUME TypeOK, [Next]_vars PROVE TypeOK'
    OBVIOUS
  <2>1. CASE Next
    <3>1. usage' = usage
      BY <2>1 DEF Next
    <3>2. tcp' \in Tcp /\ owned' \in SUBSET Pcbs
      BY <2>1, CallType, InputType, SlowTmrType DEF Next, Tick
    <3> QED
      BY <3>1, <3>2 DEF TypeOK, Tcp, Links
  <2>2. CASE UNCHANGED vars
    BY <2>2 DEF vars, TypeOK
  <2> QED
    BY <2>1, <2>2
<1> QED
  BY <1>1, <1>2, PTL DEF Spec

-----------------------------------------------------------------------------
(* Operations on one block                                                 *)

On(t, p) == {l \in Lists : p \in Chain(t, l)}

\* The step from t to u concerns block p: the others stay where and what they are.
Touches(t, u, p) ==
  /\ Shape(t) /\ Shape(u)
  /\ \A q \in Pcbs \ {p} : /\ u.pcb[q] = t.pcb[q]
                           /\ q \in u.pool <=> q \in t.pool
                           /\ On(u, q) = On(t, q)

LEMMA TouchesTwice ==
  ASSUME NEW t, NEW u, NEW v, NEW p, Touches(t, u, p), Touches(u, v, p)
  PROVE  Touches(t, v, p)
BY DEF Touches

LEMMA NotListed ==
  ASSUME NEW t, NEW p, On(t, p) = {}
  PROVE  p \notin OnSomeList(t)
BY DEF On, OnSomeList

LEMMA TouchReg ==
  ASSUME NEW t, Shape(t), NEW p \in Pcbs, On(t, p) = {}, NEW l \in Lists, NEW u, u = Reg(t, l, p)
  PROVE  Touches(t, u, p) /\ On(u, p) = {l} /\ u.pcb = t.pcb /\ u.pool = t.pool
<1>1. t \in Tcp /\ p \notin OnSomeList(t)
  BY NotListed DEF Shape
<1>2. u.pcb = t.pcb /\ u.pool = t.pool
  <2>1. Reg(t, l, p).pcb = t.pcb /\ Reg(t, l, p).pool = t.pool
    BY <1>1, RegKeeps
  <2> QED
    BY <2>1, Zenon
<1>3. /\ Shape(u)
      /\ \A m \in Lists : Chain(u, m) = IF m = l THEN {p} \cup Chain(t, l) ELSE Chain(t, m)
  BY <1>1, RegShape
<1>4. \A q \in Pcbs \ {p} : On(u, q) = On(t, q)
  BY <1>3 DEF On
<1>5. On(u, p) = {l}
  BY <1>3 DEF On
<1> QED
  BY <1>2, <1>3, <1>4, <1>5 DEF Touches

LEMMA TouchRmv ==
  ASSUME NEW t, Shape(t), NEW l \in Lists, NEW p \in Chain(t, l), NEW u, u = Rmv(t, l, p)
  PROVE  p \in Pcbs /\ Touches(t, u, p) /\ On(u, p) = {} /\ u.pcb = t.pcb /\ u.pool = t.pool
<1>1. t \in Tcp /\ p \in Pcbs
  BY ChainType DEF Shape
<1>2. u.pcb = t.pcb /\ u.pool = t.pool
  <2>1. Rmv(t, l, p).pcb = t.pcb /\ Rmv(t, l, p).pool = t.pool
    BY <1>1, RmvKeeps
  <2> QED
    BY <2>1, Zenon
<1>3. /\ Shape(u)
      /\ \A m \in Lists : Chain(u, m) = IF m = l THEN Chain(t, l) \ {p} ELSE Chain(t, m)
  BY RmvShape
<1>4. \A q \in Pcbs \ {p} : On(u, q) = On(t, q)
  BY <1>3 DEF On
<1>5. On(u, p) = {}
  BY <1>3 DEF On, Shape
<1> QED
  BY <1>1, <1>2, <1>3, <1>4, <1>5 DEF Touches

LEMMA TouchFront ==
  ASSUME NEW t, Shape(t), NEW l \in Lists, NEW p \in Chain(t, l), NEW u, u = MoveToFront(t, l, p)
  PROVE  p \in Pcbs /\ Touches(t, u, p) /\ On(u, p) = On(t, p) /\ u.pcb = t.pcb /\ u.pool = t.pool
<1>1. t \in Tcp /\ p \in Pcbs
  BY ChainType DEF Shape
<1>2. u.pcb = t.pcb /\ u.pool = t.pool
  BY <1>1, MoveToFrontFields
<1>3. Shape(u) /\ \A m \in Lists : Chain(u, m) = Chain(t, m)
  BY MoveToFrontShape
<1>4. \A q \in Pcbs : On(u, q) = On(t, q)
  BY <1>3 DEF On
<1> QED
  BY <1>1, <1>2, <1>3, <1>4 DEF Touches

With(t, p, c) == [t EXCEPT !.pcb[p] = c]

LEMMA TouchWith ==
  ASSUME NEW t, Shape(t), NEW p \in Pcbs, NEW c \in Pcb
  PROVE  /\ Touches(t, With(t, p, c), p) /\ On(With(t, p, c), p) = On(t, p)
         /\ With(t, p, c).pcb[p] = c /\ With(t, p, c).pool = t.pool
<1>1. t \in Tcp
  BY DEF Shape
<1> DEFINE u == With(t, p, c)
<1>2. /\ u \in Tcp /\ u.next = t.next /\ u.head = t.head
      /\ u.pool = t.pool /\ u.pcb[p] = c /\ \A q \in Pcbs \ {p} : u.pcb[q] = t.pcb[q]
  BY <1>1 DEF With, Tcp
<1> HIDE DEF u
<1>3. Shape(u) /\ \A m \in Lists : Chain(u, m) = Chain(t, m)
  BY <1>2, SameLists
<1>4. \A q \in Pcbs : On(u, q) = On(t, q)
  BY <1>3 DEF On
<1>5. Touches(t, u, p) /\ On(u, p) = On(t, p) /\ u.pcb[p] = c /\ u.pool = t.pool
  BY <1>2, <1>3, <1>4 DEF Touches
<1> QED
  BY <1>5 DEF u

LEMMA TouchPcb ==
  ASSUME NEW t, Shape(t), NEW p \in Pcbs, NEW c \in Pcb, NEW u, u = [t EXCEPT !.pcb[p] = c]
  PROVE  Touches(t, u, p) /\ On(u, p) = On(t, p) /\ u.pcb[p] = c /\ u.pool = t.pool
BY TouchWith DEF With

LEMMA TouchRelease ==
  ASSUME NEW t, Shape(t), NEW p \in Pcbs, NEW u, u = Release(t, {p})
  PROVE  Touches(t, u, p) /\ On(u, p) = On(t, p) /\ p \in u.pool
<1>1. t \in Tcp /\ {p} \in SUBSET Pcbs
  BY DEF Shape
<1>2. /\ u \in Tcp /\ u.next = t.next /\ u.head = t.head
      /\ u.pool = t.pool \cup {p} /\ \A q \in Pcbs \ {p} : u.pcb[q] = t.pcb[q]
  BY <1>1, ReleaseFields
<1>3. Shape(u) /\ \A m \in Lists : Chain(u, m) = Chain(t, m)
  BY <1>2, SameLists
<1>4. \A q \in Pcbs : On(u, q) = On(t, q)
  BY <1>3 DEF On
<1> QED
  BY <1>2, <1>3, <1>4 DEF Touches

LEMMA TouchRemove ==
  ASSUME NEW t, Shape(t), NEW l \in Lists, NEW p \in Chain(t, l), NEW u, u = Remove(t, l, p)
  PROVE  p \in Pcbs /\ Touches(t, u, p) /\ On(u, p) = {} /\ u.pool = t.pool
<1> DEFINE v == Rmv(t, l, p)
           c == [t.pcb[p] EXCEPT !.state = "CLOSED"]
<1>1. t \in Tcp /\ p \in Pcbs
  BY ChainType DEF Shape
<1>2. u = [v EXCEPT !.pcb[p] = c] /\ c \in Pcb
  BY <1>1, RemoveIs
<1>3. Touches(t, v, p) /\ On(v, p) = {} /\ v.pool = t.pool
  BY TouchRmv
<1> HIDE DEF v, c
<1>4. Shape(v)
  BY <1>3 DEF Touches
<1>5. Touches(v, u, p) /\ On(u, p) = On(v, p) /\ u.pool = v.pool
  BY <1>1, <1>2, <1>4, TouchPcb
<1> QED
  BY <1>1, <1>3, <1>5, TouchesTwice

LEMMA TouchAllocated ==
  ASSUME NEW t, Shape(t), NEW p \in Pcbs, On(t, p) = {}, NEW u, u = Allocated(t, p)
  PROVE  Touches(t, u, p) /\ On(u, p) = {} /\ u.pcb[p] = Fresh /\ p \notin u.pool
<1>1. t \in Tcp /\ t.next \in Links
  BY DEF Shape, Tcp
<1>2. /\ u \in Tcp /\ u.next = [t.next EXCEPT ![p] = NULL] /\ u.head = t.head
      /\ u.pool = t.pool \ {p} /\ u.pcb = [t.pcb EXCEPT ![p] = Fresh]
  BY <1>1, AllocatedType
<1>3. ASSUME NEW l \in Lists
      PROVE  Chain(u, l) = Chain(t, l) /\ NoCircle(u.next, u.head[l])
  <2>1. t.head[l] \in Pointer /\ NoCircle(t.next, t.head[l])
    BY DEF Shape, Tcp
  <2>2. ASSUME NEW q \in Walk(t.next, t.head[l])
        PROVE  u.next[q] = t.next[q]
    <3>1. q # p /\ q \in Pcbs
      BY ChainIs DEF On, Walk
    <3> QED
      BY <1>1, <1>2, <3>1 DEF Links
  <2>3. u.next \in Links /\ u.head[l] = t.head[l]
    BY <1>2 DEF Tcp
  <2>4. Walk(u.next, t.head[l]) = Walk(t.next, t.head[l])
    BY <1>1, <2>1, <2>2, <2>3, WalkFrame
  <2>5. NoCircle(u.next, t.head[l])
    BY <1>1, <2>1, <2>2, <2>3, CircleFrame
  <2> QED
    BY <2>3, <2>4, <2>5, ChainIs
<1>4. Shape(u) /\ \A q \in Pcbs : On(u, q) = On(t, q)
  BY <1>2, <1>3 DEF Shape, On
<1>5. u.pcb[p] = Fresh /\ \A q \in Pcbs \ {p} : u.pcb[q] = t.pcb[q]
  BY <1>1, <1>2 DEF Tcp
<1> QED
  BY <1>2, <1>4, <1>5 DEF Touches

LEMMA TouchAbandon ==
  ASSUME NEW t, Shape(t), NEW p,
         p \in Chain(t, IF t.pcb[p].state = "TIME_WAIT" THEN "tw" ELSE "active"),
         NEW u, u = Abandon(t, p)
  PROVE  p \in Pcbs /\ Touches(t, u, p) /\ On(u, p) = {} /\ p \in u.pool
<1> DEFINE l == IF t.pcb[p].state = "TIME_WAIT" THEN "tw" ELSE "active"
           v == Remove(t, l, p)
<1>1. l \in Lists
  BY DEF Lists
<1>2. u = Release(v, {p})
  BY DEF Abandon
<1> HIDE DEF l
<1>3. p \in Pcbs /\ Touches(t, v, p) /\ On(v, p) = {}
  BY <1>1, TouchRemove DEF l
<1> HIDE DEF v
<1>4. Touches(v, u, p) /\ On(u, p) = On(v, p) /\ p \in u.pool
  BY <1>2, <1>3, TouchRelease DEF Touches
<1> QED
  BY <1>3, <1>4, TouchesTwice

-----------------------------------------------------------------------------
(* The invariant of a program that opens connections                       *)

\* The list a block in use is on, by what it says of itself.
Home(c) ==
  CASE c.state \in Active -> "active"
    [] c.state = "TIME_WAIT" -> "tw"
    [] c.state = "LISTEN" -> "listen"
    [] c.state = "CLOSED" -> IF c.local = NULL THEN "none" ELSE "bound"

Sorted(t) ==
  \A p \in Pcbs : On(t, p) = IF p \in t.pool THEN {} ELSE {Home(t.pcb[p])} \cap Lists

\* The application may use a block until it closes it, and only it knows a closed one.
Held(t, o) ==
  /\ o \subseteq Pcbs \ t.pool
  /\ \A p \in o : t.pcb[p].state \notin Closing \cup {"TIME_WAIT"}
  /\ \A p \in Pcbs \ t.pool : /\ t.pcb[p].state # "LISTEN"
                              /\ t.pcb[p].state = "CLOSED" => p \in o

Unique(t) ==
  \A p, q \in Pcbs :
    On(t, p) # {} /\ On(t, q) # {} /\ t.pcb[p].local = t.pcb[q].local => p = q

Good(t, o) == Shape(t) /\ Sorted(t) /\ Held(t, o) /\ Unique(t)

\* What remains to be shown of a step that concerns one block.
LEMMA OneBlock ==
  ASSUME NEW t, NEW o, Good(t, o), NEW p \in Pcbs, NEW u, Touches(t, u, p), NEW w,
         w \ {p} = o \ {p},
         IF p \in u.pool THEN On(u, p) = {} /\ p \notin w
         ELSE /\ On(u, p) = {Home(u.pcb[p])} \cap Lists
              /\ u.pcb[p].state # "LISTEN"
              /\ u.pcb[p].state = "CLOSED" => p \in w
              /\ u.pcb[p].state \in Closing \cup {"TIME_WAIT"} => p \notin w,
         \/ On(u, p) = {}
         \/ On(t, p) # {} /\ u.pcb[p].local = t.pcb[p].local
         \/ \A q \in Pcbs \ {p} : On(t, q) # {} => t.pcb[q].local # u.pcb[p].local
  PROVE  Good(u, w)
<1>1. \A q \in Pcbs \ {p} : /\ u.pcb[q] = t.pcb[q] /\ On(u, q) = On(t, q)
                            /\ q \in u.pool <=> q \in t.pool
                            /\ q \in w <=> q \in o
  BY DEF Touches
<1>2. Sorted(u)
  BY <1>1 DEF Good, Sorted
<1>3. Held(u, w)
  <2>1. w \subseteq Pcbs \ u.pool
    BY <1>1 DEF Good, Held
  <2>2. \A q \in w : u.pcb[q].state \notin Closing \cup {"TIME_WAIT"}
    BY <1>1, <2>1 DEF Good, Held
  <2>3. \A q \in Pcbs \ u.pool : /\ u.pcb[q].state # "LISTEN"
                                 /\ u.pcb[q].state = "CLOSED" => q \in w
    BY <1>1 DEF Good, Held
  <2> QED
    BY <2>1, <2>2, <2>3 DEF Held
<1>4. Unique(u)
  <2> SUFFICES ASSUME NEW q \in Pcbs, NEW r \in Pcbs, On(u, q) # {}, On(u, r) # {},
                      u.pcb[q].local = u.pcb[r].local, q # r
               PROVE  FALSE
    BY DEF Unique
  <2>1. CASE q # p /\ r # p
    BY <1>1, <2>1 DEF Good, Unique
  <2>2. ASSUME NEW x \in Pcbs \ {p}, On(u, x) # {}, On(u, p) # {}, u.pcb[x].local = u.pcb[p].local
        PROVE  FALSE
    BY <1>1, <2>2 DEF Good, Unique
  <2> QED
    BY <2>1, <2>2
<1> QED
  BY <1>2, <1>3, <1>4 DEF Good, Touches

LEMMA ListNames == Lists = {"bound", "listen", "active", "tw"}
BY DEF Lists

\* The list of a block, read off its state, and the other way round.
LEMMA GoodOn ==
  ASSUME NEW t, NEW o, Good(t, o), NEW p \in Pcbs
  PROVE  /\ t \in Tcp /\ t.pcb[p] \in Pcb /\ Shape(t)
         /\ p \in Chain(t, "active") <=> p \notin t.pool /\ t.pcb[p].state \in Active
         /\ p \in Chain(t, "tw") <=> p \notin t.pool /\ t.pcb[p].state = "TIME_WAIT"
         /\ p \in Chain(t, "bound") <=>
              p \notin t.pool /\ t.pcb[p].state = "CLOSED" /\ t.pcb[p].local # NULL
         /\ p \notin Chain(t, "listen")
         /\ p \in Chain(t, "active") => On(t, p) = {"active"}
         /\ p \in Chain(t, "tw") => On(t, p) = {"tw"}
         /\ p \in Chain(t, "bound") => On(t, p) = {"bound"}
<1>1. t \in Tcp /\ t.pcb[p] \in Pcb /\ Shape(t)
  BY DEF Good, Shape, Tcp
<1>2. t.pcb[p].state \in States
  BY <1>1 DEF Pcb
<1>3. /\ p \in Chain(t, "active") <=> "active" \in On(t, p)
      /\ p \in Chain(t, "tw") <=> "tw" \in On(t, p)
      /\ p \in Chain(t, "bound") <=> "bound" \in On(t, p)
      /\ p \in Chain(t, "listen") <=> "listen" \in On(t, p)
  BY ListNames DEF On
<1>4. On(t, p) = IF p \in t.pool THEN {} ELSE {Home(t.pcb[p])} \cap Lists
  BY DEF Good, Sorted
<1>5. p \notin t.pool => t.pcb[p].state # "LISTEN"
  BY DEF Good, Held
<1>6. /\ t.pcb[p].state \in Active => Home(t.pcb[p]) = "active"
      /\ t.pcb[p].state = "TIME_WAIT" => Home(t.pcb[p]) = "tw"
      /\ t.pcb[p].state = "CLOSED" => Home(t.pcb[p]) = IF t.pcb[p].local = NULL THEN "none" ELSE "bound"
      /\ t.pcb[p].state \in Active => t.pcb[p].state \notin {"CLOSED", "TIME_WAIT", "LISTEN"}
  BY <1>2 DEF Home, States, Active, Closing
<1>7. t.pcb[p].state \in Active \/ t.pcb[p].state \in {"CLOSED", "TIME_WAIT", "LISTEN"}
  BY <1>2 DEF States
<1>8. CASE p \in t.pool
  BY <1>1, <1>3, <1>4, <1>8
<1>9. CASE p \notin t.pool /\ t.pcb[p].state \in Active
  <2>1. On(t, p) = {"active"}
    BY <1>4, <1>6, <1>9, ListNames
  <2> QED
    BY <1>1, <1>3, <1>6, <1>9, <2>1
<1>10. CASE p \notin t.pool /\ t.pcb[p].state = "TIME_WAIT"
  <2>1. On(t, p) = {"tw"}
    BY <1>4, <1>6, <1>10, ListNames
  <2> QED
    BY <1>1, <1>3, <1>6, <1>10, <2>1
<1>11. CASE p \notin t.pool /\ t.pcb[p].state = "CLOSED"
  <2>1. On(t, p) = IF t.pcb[p].local = NULL THEN {} ELSE {"bound"}
    BY <1>4, <1>6, <1>11, ListNames
  <2> QED
    BY <1>1, <1>3, <1>6, <1>11, <2>1
<1> QED
  BY <1>5, <1>7, <1>8, <1>9, <1>10, <1>11

\* Where a block belongs, state by state.
LEMMA HomeIs ==
  ASSUME NEW c
  PROVE  /\ c.state \in Active => {Home(c)} \cap Lists = {"active"}
         /\ c.state = "TIME_WAIT" => {Home(c)} \cap Lists = {"tw"}
         /\ c.state = "CLOSED" /\ c.local # NULL => {Home(c)} \cap Lists = {"bound"}
         /\ c.state = "CLOSED" /\ c.local = NULL => {Home(c)} \cap Lists = {}
BY DEF Home, Lists, Active, Closing

LEMMA ActiveNames ==
  /\ "CLOSED" \notin Active /\ "LISTEN" \notin Active /\ "TIME_WAIT" \notin Active
  /\ Closing \subseteq Active
  /\ "SYN_SENT" \in Active \ Closing /\ "SYN_RCVD" \in Active \ Closing
  /\ "ESTABLISHED" \in Active \ Closing /\ "CLOSE_WAIT" \in Active \ Closing
  /\ "FIN_WAIT_1" \in Closing /\ "LAST_ACK" \in Closing
  /\ "CLOSED" \notin Closing /\ "LISTEN" \notin Closing /\ "TIME_WAIT" \notin Closing
  /\ Active \subseteq States
BY DEF Active, Closing, States

LEMMA NewGood ==
  ASSUME Good(tcp, owned), NEW p \in Pcbs, TcpNew(p)
  PROVE  Good(tcp', owned')
<1>0. Fresh.state = "CLOSED" /\ Fresh.local = NULL /\ {Home(Fresh)} \cap Lists = {}
  BY HomeIs DEF Fresh
<1>1. ASSUME NEW t, Touches(tcp, t, p), On(t, p) = {}, tcp' = Allocated(t, p)
      PROVE  Good(tcp', owned')
  <2>1. Shape(t)
    BY <1>1 DEF Touches
  <2>2. /\ Touches(t, tcp', p) /\ On(tcp', p) = {} /\ tcp'.pcb[p] = Fresh /\ p \notin tcp'.pool
    BY <1>1, <2>1, TouchAllocated
  <2>3. Touches(tcp, tcp', p)
    BY <1>1, <2>2, TouchesTwice
  <2>4. owned' = owned \cup {p}
    BY DEF TcpNew
  <2> QED
    BY <1>0, <2>2, <2>3, <2>4, ActiveNames, OneBlock
<1>2. CASE p \in tcp.pool /\ tcp' = Allocated(tcp, p)
  <2>1. On(tcp, p) = {} /\ Shape(tcp)
    BY <1>2 DEF Good, Sorted
  <2>2. Touches(tcp, tcp, p)
    BY <2>1 DEF Touches
  <2> QED
    BY <1>1, <1>2, <2>1, <2>2
<1>3. CASE p \in Victims(tcp) /\ tcp' = Allocated(Abandon(tcp, p), p)
  <2>1. p \in Chain(tcp, "tw") \/ p \in Chain(tcp, "active")
    BY <1>3 DEF Victims, Oldest
  <2>2. p \in Chain(tcp, IF tcp.pcb[p].state = "TIME_WAIT" THEN "tw" ELSE "active")
    BY <2>1, GoodOn, ActiveNames
  <2>3. Touches(tcp, Abandon(tcp, p), p) /\ On(Abandon(tcp, p), p) = {}
    BY <2>2, TouchAbandon DEF Good
  <2> QED
    BY <1>1, <1>3, <2>3
<1> QED
  BY <1>2, <1>3 DEF TcpNew

LEMMA BindGood ==
  ASSUME Good(tcp, owned), owned \subseteq Pcbs, NEW p \in owned, NEW e \in Locals, TcpBind(p, e)
  PROVE  Good(tcp', owned')
<1> DEFINE c == [tcp.pcb[p] EXCEPT !.local = e]
           t == [tcp EXCEPT !.pcb[p] = c]
<1>0. /\ p \in Pcbs /\ p \notin tcp.pool /\ tcp \in Tcp /\ tcp.pcb[p] \in Pcb /\ Shape(tcp)
      /\ "bound" \in Lists /\ e # NULL
      /\ tcp.pcb[p].state = "CLOSED" /\ tcp.pcb[p].local = NULL
  BY GoodOn, PoolAssumption DEF Good, Held, Lists, TcpBind
<1>1. c \in Pcb /\ c.state = "CLOSED" /\ c.local = e
  BY <1>0 DEF Pcb
<1>2. tcp' = Reg(t, "bound", p) /\ owned' = owned
  BY <1>0 DEF TcpBind, Tcp
<1>3. On(tcp, p) = {}
  BY <1>0, HomeIs DEF Good, Sorted
<1> HIDE DEF c
<1>4. Touches(tcp, t, p) /\ On(t, p) = {} /\ t.pcb[p] = c /\ t.pool = tcp.pool
  BY <1>0, <1>1, <1>3, TouchPcb
<1> HIDE DEF t
<1>5. Touches(t, tcp', p) /\ On(tcp', p) = {"bound"} /\ tcp'.pcb = t.pcb /\ tcp'.pool = t.pool
  BY <1>0, <1>2, <1>4, TouchReg DEF Touches
<1>6. Touches(tcp, tcp', p)
  BY <1>4, <1>5, TouchesTwice
<1>7. \A q \in Pcbs \ {p} : On(tcp, q) # {} => tcp.pcb[q].local # e
  BY DEF TcpBind, InUse, OnSomeList, On
<1>8. {Home(c)} \cap Lists = {"bound"}
  BY <1>0, <1>1, HomeIs
<1> QED
  BY <1>0, <1>1, <1>2, <1>4, <1>5, <1>6, <1>7, <1>8, ActiveNames, OneBlock

LEMMA ConnectGood ==
  ASSUME Good(tcp, owned), owned \subseteq Pcbs, NEW p \in owned, NEW r \in Peers, NEW ok \in BOOLEAN,
         TcpConnect(p, r, ok)
  PROVE  Good(tcp', owned')
<1> DEFINE c == [tcp.pcb[p] EXCEPT !.remote = r, !.rxclosed = FALSE]
           d == [c EXCEPT !.state = "SYN_SENT"]
           t == [tcp EXCEPT !.pcb[p] = c]
           u == [tcp EXCEPT !.pcb[p] = d]
           v == Rmv(u, "bound", p)
<1>0. /\ p \in Pcbs /\ p \notin tcp.pool /\ tcp \in Tcp /\ tcp.pcb[p] \in Pcb /\ Shape(tcp)
      /\ "bound" \in Lists /\ "active" \in Lists
      /\ tcp.pcb[p].state = "CLOSED" /\ tcp.pcb[p].local # NULL
  BY GoodOn DEF Good, Held, Lists, TcpConnect
<1>1. /\ c \in Pcb /\ c.state = "CLOSED" /\ c.local = tcp.pcb[p].local
      /\ d \in Pcb /\ d.state = "SYN_SENT" /\ d.local = tcp.pcb[p].local
  BY <1>0 DEF Pcb, States, Active
<1>2. tcp' = (IF ok THEN Reg(v, "active", p) ELSE t) /\ owned' = owned
  <2> DEFINE t0 == [tcp EXCEPT !.pcb[p].remote = r, !.pcb[p].rxclosed = FALSE]
             u0 == [t0 EXCEPT !.pcb[p].state = "SYN_SENT"]
  <2>1. t0 = t /\ u0 = u
    BY <1>0 DEF Tcp
  <2>2. tcp' = (IF ok THEN Reg(Rmv(u0, "bound", p), "active", p) ELSE t0) /\ owned' = owned
    BY DEF TcpConnect
  <2> HIDE DEF t0, u0, t, u
  <2> QED
    BY <2>1, <2>2
<1>3. On(tcp, p) = {"bound"}
  BY <1>0, GoodOn
<1> HIDE DEF c, d
<1>4. Touches(tcp, t, p) /\ On(t, p) = {"bound"} /\ t.pcb[p] = c /\ t.pool = tcp.pool
  BY <1>0, <1>1, <1>3, TouchPcb
<1>5. Touches(tcp, u, p) /\ On(u, p) = {"bound"} /\ u.pcb[p] = d /\ u.pool = tcp.pool
  BY <1>0, <1>1, <1>3, TouchPcb
<1>6. {Home(c)} \cap Lists = {"bound"} /\ {Home(d)} \cap Lists = {"active"}
  BY <1>0, <1>1, HomeIs, ActiveNames
<1> HIDE DEF t, u
<1>7. CASE ok
  <2>1. p \in Chain(u, "bound")
    BY <1>5 DEF On
  <2>2. Touches(u, v, p) /\ On(v, p) = {} /\ v.pcb = u.pcb /\ v.pool = u.pool
    BY <1>0, <1>5, <2>1, TouchRmv DEF Touches
  <2> HIDE DEF v
  <2>3. Touches(v, tcp', p) /\ On(tcp', p) = {"active"} /\ tcp'.pcb = v.pcb /\ tcp'.pool = v.pool
    BY <1>0, <1>2, <1>7, <2>2, TouchReg DEF Touches
  <2>4. Touches(tcp, tcp', p)
    BY <1>5, <2>2, <2>3, TouchesTwice
  <2>5. tcp'.pcb[p] = d /\ p \notin tcp'.pool
    BY <1>0, <1>5, <2>2, <2>3
  <2> QED
    BY <1>0, <1>1, <1>2, <1>3, <1>6, <2>3, <2>4, <2>5, ActiveNames, OneBlock
<1>8. CASE ~ok
  <2>1. tcp' = t
    BY <1>2, <1>8
  <2> QED
    BY <1>0, <1>1, <1>2, <1>3, <1>4, <1>6, <2>1, ActiveNames, OneBlock
<1> QED
  BY <1>7, <1>8

LEMMA AbortGood ==
  ASSUME Good(tcp, owned), owned \subseteq Pcbs, NEW p \in owned, tcp.pcb[p].state \in Active, TcpAbort(p)
  PROVE  Good(tcp', owned')
<1>1. p \in Pcbs /\ p \notin tcp.pool
  BY DEF Good, Held
<1>2. p \in Chain(tcp, IF tcp.pcb[p].state = "TIME_WAIT" THEN "tw" ELSE "active")
  BY <1>1, GoodOn, ActiveNames
<1>3. Touches(tcp, tcp', p) /\ On(tcp', p) = {} /\ p \in tcp'.pool
  BY <1>2, TouchAbandon DEF Good, TcpAbort
<1>4. owned' = owned \ {p}
  BY DEF TcpAbort
<1> QED
  BY <1>1, <1>3, <1>4, OneBlock

\* tcp_close of a block that is where its state says: it goes back to the pool, or stays on
\* its list, closing unless there was no memory for the FIN.
LEMMA ClosedTouch ==
  ASSUME NEW t, Shape(t), NEW p \in Pcbs, p \notin t.pool,
         On(t, p) = {Home(t.pcb[p])} \cap Lists,
         t.pcb[p].state # "LISTEN", NEW ok \in BOOLEAN, NEW v, v = Closed(t, p, ok)
  PROVE  /\ Touches(t, v, p)
         /\ \/ p \in v.pool /\ On(v, p) = {} /\ ~CloseFails(t, p, ok)
            \/ /\ p \notin v.pool /\ On(v, p) = {Home(v.pcb[p])} \cap Lists
               /\ v.pcb[p].local = t.pcb[p].local /\ On(v, p) = On(t, p)
               /\ v.pcb[p].state \in Active \cup {"TIME_WAIT"}
               /\ CloseFails(t, p, ok) => v.pcb[p].state = t.pcb[p].state
<1> DEFINE s == t.pcb[p].state
           c == [t.pcb[p] EXCEPT !.rxclosed = TRUE]
           u == [t EXCEPT !.pcb[p] = c]
<1>0. /\ t \in Tcp /\ t.pcb[p] \in Pcb /\ s \in States
      /\ "bound" \in Lists /\ "active" \in Lists
  BY DEF Shape, Tcp, Pcb, Lists
<1>1. c \in Pcb /\ c.state = s /\ c.local = t.pcb[p].local
  BY <1>0 DEF Pcb
<1>2. v = CASE s = "CLOSED" -> Release(IF u.pcb[p].local = NULL THEN u ELSE Rmv(u, "bound", p), {p})
            [] s = "LISTEN" -> Remove(u, "listen", p)
            [] s = "SYN_SENT" -> Release(Remove(u, "active", p), {p})
            [] s \in {"SYN_RCVD", "ESTABLISHED"} /\ ok -> [u EXCEPT !.pcb[p].state = "FIN_WAIT_1"]
            [] s = "CLOSE_WAIT" /\ ok -> [u EXCEPT !.pcb[p].state = "LAST_ACK"]
            [] OTHER -> u
  <2>1. [t EXCEPT !.pcb[p].rxclosed = TRUE] = u
    BY <1>0 DEF Tcp
  <2> DEFINE u0 == [t EXCEPT !.pcb[p].rxclosed = TRUE]
  <2>2. v = CASE s = "CLOSED" -> Release(IF u0.pcb[p].local = NULL THEN u0 ELSE Rmv(u0, "bound", p), {p})
              [] s = "LISTEN" -> Remove(u0, "listen", p)
              [] s = "SYN_SENT" -> Release(Remove(u0, "active", p), {p})
              [] s \in {"SYN_RCVD", "ESTABLISHED"} /\ ok -> [u0 EXCEPT !.pcb[p].state = "FIN_WAIT_1"]
              [] s = "CLOSE_WAIT" /\ ok -> [u0 EXCEPT !.pcb[p].state = "LAST_ACK"]
              [] OTHER -> u0
    <3>1. Closed(t, p, ok) =
            LET w == IF s = "LISTEN" THEN t ELSE u0
            IN  CASE s = "CLOSED" -> Release(IF w.pcb[p].local = NULL THEN w ELSE Rmv(w, "bound", p), {p})
                  [] s = "LISTEN" -> Remove(w, "listen", p)
                  [] s = "SYN_SENT" -> Release(Remove(w, "active", p), {p})
                  [] s \in {"SYN_RCVD", "ESTABLISHED"} /\ ok -> [w EXCEPT !.pcb[p].state = "FIN_WAIT_1"]
                  [] s = "CLOSE_WAIT" /\ ok -> [w EXCEPT !.pcb[p].state = "LAST_ACK"]
                  [] OTHER -> w
      BY DEF Closed
    <3> HIDE DEF u0
    <3> QED
      BY <3>1
  <2> HIDE DEF u0, u
  <2> QED
    BY <2>1, <2>2 DEF u0
<1> HIDE DEF c
<1>3. Touches(t, u, p) /\ On(u, p) = On(t, p) /\ u.pcb[p] = c /\ u.pool = t.pool /\ Shape(u)
  <2>1. Touches(t, u, p) /\ On(u, p) = On(t, p) /\ u.pcb[p] = c /\ u.pool = t.pool
    <3>1. u = With(t, p, c)
      BY DEF With
    <3> HIDE DEF u
    <3> QED
      BY <1>1, <3>1, TouchWith
  <2>2. Shape(u)
    BY <2>1 DEF Touches
  <2> QED
    BY <2>1, <2>2
<1> HIDE DEF u
<1>4. CASE s = "CLOSED"
  <2> DEFINE w == IF u.pcb[p].local = NULL THEN u ELSE Rmv(u, "bound", p)
  <2>1. Touches(t, w, p) /\ On(w, p) = {}
    <3>1. CASE u.pcb[p].local = NULL
      BY <1>1, <1>3, <1>4, <3>1, HomeIs
    <3>2. CASE u.pcb[p].local # NULL
      <4>1. p \in Chain(u, "bound")
        BY <1>1, <1>3, <1>4, <3>2, HomeIs DEF On
      <4>2. Touches(u, w, p) /\ On(w, p) = {}
        BY <1>0, <1>3, <3>2, <4>1, TouchRmv
      <4> QED
        BY <1>3, <4>2, TouchesTwice
    <3> QED
      BY <3>1, <3>2
  <2>2. v = Release(w, {p})
    BY <1>2, <1>4
  <2> HIDE DEF w
  <2>3. Touches(w, v, p) /\ On(v, p) = On(w, p) /\ p \in v.pool
    BY <2>1, <2>2, TouchRelease DEF Touches
  <2>4. ~CloseFails(t, p, ok)
    BY <1>4 DEF CloseFails
  <2> QED
    BY <2>1, <2>3, <2>4, TouchesTwice
<1>5. CASE s = "SYN_SENT"
  <2> DEFINE w == Remove(u, "active", p)
  <2>1. p \in Chain(u, "active")
    BY <1>3, <1>5, HomeIs, ActiveNames DEF On
  <2>2. Touches(u, w, p) /\ On(w, p) = {}
    BY <1>0, <1>3, <2>1, TouchRemove
  <2>3. v = Release(w, {p})
    BY <1>2, <1>5
  <2> HIDE DEF w
  <2>4. Touches(w, v, p) /\ On(v, p) = On(w, p) /\ p \in v.pool
    BY <2>2, <2>3, TouchRelease DEF Touches
  <2>5. ~CloseFails(t, p, ok)
    BY <1>5 DEF CloseFails
  <2> QED
    BY <1>3, <2>2, <2>4, <2>5, TouchesTwice
<1>6. ASSUME NEW z \in {"FIN_WAIT_1", "LAST_ACK"}, v = [u EXCEPT !.pcb[p].state = z], s \in Active,
             ~CloseFails(t, p, ok)
      PROVE  /\ Touches(t, v, p) /\ p \notin v.pool /\ On(v, p) = {Home(v.pcb[p])} \cap Lists
             /\ v.pcb[p].local = t.pcb[p].local /\ On(v, p) = On(t, p)
             /\ v.pcb[p].state \in Active \cup {"TIME_WAIT"}
  <2> DEFINE d == [c EXCEPT !.state = z]
  <2>1. d \in Pcb /\ d.state = z /\ d.local = t.pcb[p].local /\ z \in Active
    BY <1>1, ActiveNames, StateType
  <2>2. v = [u EXCEPT !.pcb[p] = d]
    BY <1>3, <1>6 DEF Shape, Tcp
  <2> HIDE DEF d
  <2>3. Touches(u, v, p) /\ On(v, p) = On(u, p) /\ v.pcb[p] = d /\ v.pool = u.pool
    <3>1. Shape(u) /\ d \in Pcb
      BY <1>3, <2>1
    <3> QED
      BY <3>1, <2>2, TouchWith DEF With
  <2>4. {Home(d)} \cap Lists = {"active"} /\ {Home(t.pcb[p])} \cap Lists = {"active"}
    BY <1>6, <2>1, HomeIs
  <2>5. Touches(t, v, p)
    BY <1>3, <2>3, TouchesTwice
  <2> QED
    BY <1>3, <2>1, <2>3, <2>4, <2>5
<1>7. CASE s \in {"SYN_RCVD", "ESTABLISHED"} /\ ok
  <2>1. v = [u EXCEPT !.pcb[p].state = "FIN_WAIT_1"]
    BY <1>2, <1>7
  <2>2. ~CloseFails(t, p, ok) /\ s \in Active
    BY <1>7, ActiveNames DEF CloseFails
  <2> QED
    BY <1>6, <2>1, <2>2
<1>8. CASE s = "CLOSE_WAIT" /\ ok
  <2>1. v = [u EXCEPT !.pcb[p].state = "LAST_ACK"]
    BY <1>2, <1>8
  <2>2. ~CloseFails(t, p, ok) /\ s \in Active
    BY <1>8, ActiveNames DEF CloseFails
  <2> QED
    BY <1>6, <2>1, <2>2
<1>9. CASE /\ s \notin {"CLOSED", "SYN_SENT"} /\ ~(s \in {"SYN_RCVD", "ESTABLISHED"} /\ ok)
           /\ ~(s = "CLOSE_WAIT" /\ ok)
  <2>1. v = u
    BY <1>2, <1>9
  <2>2. s \in Active \cup {"TIME_WAIT"}
    BY <1>0, <1>9 DEF States
  <2>3. {Home(c)} \cap Lists = {Home(t.pcb[p])} \cap Lists
    BY <1>1, <2>2, HomeIs
  <2> QED
    BY <1>1, <1>3, <2>1, <2>2, <2>3
<1> QED
  BY <1>4, <1>5, <1>7, <1>8, <1>9

\* The same as a step of the invariant, for a block that may be in the middle of tcp_input.
LEMMA ClosedGood ==
  ASSUME NEW o, Good(tcp, o), NEW t, NEW p \in Pcbs, Touches(tcp, t, p), p \notin t.pool,
         On(t, p) = {Home(t.pcb[p])} \cap Lists, t.pcb[p].state # "LISTEN",
         \/ On(t, p) = {}
         \/ On(tcp, p) # {} /\ t.pcb[p].local = tcp.pcb[p].local,
         NEW ok \in BOOLEAN, NEW v, v = Closed(t, p, ok),
         NEW w, w = IF CloseFails(t, p, ok) THEN o ELSE o \ {p}
  PROVE  Good(v, w)
<1>1. Shape(t)
  BY DEF Touches
<1>2. /\ Touches(t, v, p)
      /\ \/ p \in v.pool /\ On(v, p) = {} /\ ~CloseFails(t, p, ok)
         \/ /\ p \notin v.pool /\ On(v, p) = {Home(v.pcb[p])} \cap Lists
            /\ v.pcb[p].local = t.pcb[p].local /\ On(v, p) = On(t, p)
            /\ v.pcb[p].state \in Active \cup {"TIME_WAIT"}
            /\ CloseFails(t, p, ok) => v.pcb[p].state = t.pcb[p].state
  BY <1>1, ClosedTouch
<1>3. Touches(tcp, v, p)
  BY <1>2, TouchesTwice
<1>4. CASE CloseFails(t, p, ok)
  <2>1. v.pcb[p].state \in Active \ Closing /\ p \notin v.pool /\ w = o
    BY <1>2, <1>4, ActiveNames DEF CloseFails
  <2> QED
    BY <1>2, <1>3, <2>1, ActiveNames, OneBlock
<1>5. CASE ~CloseFails(t, p, ok)
  <2>1. w = o \ {p}
    BY <1>5
  <2> QED
    BY <1>2, <1>3, <2>1, ActiveNames, OneBlock
<1> QED
  BY <1>4, <1>5

LEMMA CloseGood ==
  ASSUME Good(tcp, owned), NEW p \in owned, owned \subseteq Pcbs, NEW ok \in BOOLEAN, TcpClose(p, ok)
  PROVE  Good(tcp', owned')
<1>1. /\ p \in Pcbs /\ p \notin tcp.pool /\ Shape(tcp)
      /\ On(tcp, p) = {Home(tcp.pcb[p])} \cap Lists /\ tcp.pcb[p].state # "LISTEN"
  BY DEF Good, Held, Sorted
<1>2. Touches(tcp, tcp, p)
  BY <1>1 DEF Touches
<1>3. /\ tcp' = Closed(tcp, p, ok)
      /\ owned' = IF CloseFails(tcp, p, ok) THEN owned ELSE owned \ {p}
  BY DEF TcpClose
<1> QED
  BY <1>1, <1>2, <1>3, ClosedGood

\* tcp_process keeps a connection open, closing, or moves it on to TIME_WAIT.
LEMMA NextStateIs ==
  ASSUME NEW s \in Active, NEW seg
  PROVE  /\ NextState(s, seg) \in Active \cup {"TIME_WAIT"}
         /\ NextState(s, seg) \in Closing \cup {"TIME_WAIT"} => s \in Closing
BY DEF NextState, Active, Closing

\* A segment for a block of the active list: afterwards it is where its new state says.
LEMMA ProcessedTouch ==
  ASSUME NEW t, Shape(t), NEW p \in Chain(t, "active"), On(t, p) = {"active"},
         t.pcb[p].state \in Active, NEW seg \in Segment, NEW v, v = Processed(t, p, seg)
  PROVE  /\ Touches(t, v, p) /\ v.pool = t.pool
         /\ v.pcb[p].state = NextState(t.pcb[p].state, seg)
         /\ v.pcb[p].local = t.pcb[p].local /\ v.pcb[p].rxclosed = t.pcb[p].rxclosed
         /\ On(v, p) = {Home(v.pcb[p])} \cap Lists
<1> DEFINE m == MoveToFront(t, "active", p)
           c == NewPcb(t.pcb[p], seg)
           u == [m EXCEPT !.pcb[p] = c]
           r == Rmv(u, "active", p)
<1>0. "active" \in Lists /\ "tw" \in Lists
  BY ListNames
<1>1. /\ p \in Pcbs /\ Touches(t, m, p) /\ Shape(m)
      /\ On(m, p) = {"active"} /\ m.pcb = t.pcb /\ m.pool = t.pool
  BY <1>0, TouchFront DEF Touches
<1>2. t.pcb[p] \in Pcb
  BY <1>1 DEF Shape, Tcp
<1>3. /\ c \in Pcb /\ c.state = NextState(t.pcb[p].state, seg)
      /\ c.local = t.pcb[p].local /\ c.rxclosed = t.pcb[p].rxclosed
  BY <1>2, SegmentType, NewPcbType
<1>4. v = IF c.state = "TIME_WAIT" THEN Reg(r, "tw", p) ELSE u
  <2>1. t \in Tcp
    BY DEF Shape
  <2> QED
    BY <1>1, <1>3, <2>1, ProcessedIs
<1> HIDE DEF c, m
<1>5. Touches(m, u, p) /\ On(u, p) = {"active"} /\ u.pcb[p] = c /\ u.pool = t.pool
  <2>1. u = With(m, p, c)
    BY DEF With
  <2> HIDE DEF u
  <2> QED
    BY <1>1, <1>3, <2>1, TouchWith
<1> HIDE DEF u
<1>6. Touches(t, u, p)
  BY <1>1, <1>5, TouchesTwice
<1>7. CASE c.state = "TIME_WAIT"
  <2>1. p \in Chain(u, "active") /\ Shape(u)
    BY <1>5 DEF On, Touches
  <2>2. Touches(u, r, p) /\ On(r, p) = {} /\ r.pcb = u.pcb /\ r.pool = u.pool
    BY <1>0, <2>1, TouchRmv
  <2> HIDE DEF r
  <2>3. Touches(r, v, p) /\ On(v, p) = {"tw"} /\ v.pcb = r.pcb /\ v.pool = r.pool
    BY <1>0, <1>1, <1>4, <1>7, <2>2, TouchReg DEF Touches
  <2>4. Touches(t, v, p)
    BY <1>6, <2>2, <2>3, TouchesTwice
  <2> QED
    BY <1>3, <1>5, <1>7, <2>2, <2>3, <2>4, HomeIs
<1>8. CASE c.state # "TIME_WAIT"
  <2>1. v = u /\ c.state \in Active
    BY <1>3, <1>4, <1>8, NextStateIs
  <2> QED
    BY <1>3, <1>5, <1>6, <2>1, HomeIs
<1> QED
  BY <1>7, <1>8

LEMMA SegGood ==
  ASSUME Good(tcp, owned), owned \subseteq Pcbs, NEW p \in Pcbs, NEW seg \in Segment,
         NEW ok \in BOOLEAN, SegIn(p, seg, p, ok)
  PROVE  Good(tcp', owned')
<1> DEFINE t == Processed(tcp, p, seg)
           s == tcp.pcb[p].state
<1>1. p \in Chain(tcp, "active")
  BY DEF SegIn, Receives
<1>2. /\ s \in Active /\ On(tcp, p) = {"active"} /\ p \notin tcp.pool /\ Shape(tcp) /\ p # NULL
  BY <1>1, GoodOn, PoolAssumption
<1>3. /\ Touches(tcp, t, p) /\ t.pool = tcp.pool
      /\ t.pcb[p].state = NextState(s, seg) /\ t.pcb[p].local = tcp.pcb[p].local
      /\ On(t, p) = {Home(t.pcb[p])} \cap Lists
  BY <1>1, <1>2, ProcessedTouch
<1>4. /\ t.pcb[p].state \in Active \cup {"TIME_WAIT"} /\ Shape(t)
      /\ t.pcb[p].state \in Closing \cup {"TIME_WAIT"} => p \notin owned
  BY <1>2, <1>3, NextStateIs DEF Good, Held, Touches
<1>5. \/ /\ s = "LAST_ACK" /\ tcp' = Release(Remove(t, "active", p), {p})
         /\ owned' \in {owned, owned \ {p}}
      \/ tcp' = Abandon(t, p) /\ owned' = IF TellsApplication(t, p) THEN owned \ {p} ELSE owned
      \/ /\ tcp' = Closed(t, p, ok)
         /\ owned' = IF CloseFails(t, p, ok) THEN owned ELSE owned \ {p}
      \/ tcp' = t /\ owned' = owned
  BY <1>2 DEF SegIn
<1> HIDE DEF t
<1>6. CASE s = "LAST_ACK" /\ tcp' = Release(Remove(t, "active", p), {p}) /\ owned' \in {owned, owned \ {p}}
  <2> DEFINE u == Remove(t, "active", p)
  <2>1. t.pcb[p].state = "LAST_ACK"
    BY <1>3, <1>6 DEF NextState
  <2>2. p \notin owned /\ p \in Chain(t, "active")
    BY <1>3, <1>4, <2>1, HomeIs, ActiveNames DEF On
  <2>3. Touches(t, u, p) /\ On(u, p) = {} /\ Shape(u)
    BY <1>4, <2>2, ListNames, TouchRemove DEF Touches
  <2>4. tcp' = Release(u, {p}) /\ owned' = owned
    BY <1>6, <2>2
  <2> HIDE DEF u
  <2>5. Touches(u, tcp', p) /\ On(tcp', p) = {} /\ p \in tcp'.pool
    BY <2>3, <2>4, TouchRelease
  <2>6. Touches(tcp, tcp', p)
    BY <1>3, <2>3, <2>5, TouchesTwice
  <2> QED
    BY <2>2, <2>4, <2>5, <2>6, OneBlock
<1>7. CASE tcp' = Abandon(t, p) /\ owned' = IF TellsApplication(t, p) THEN owned \ {p} ELSE owned
  <2>1. p \in Chain(t, IF t.pcb[p].state = "TIME_WAIT" THEN "tw" ELSE "active")
    BY <1>3, <1>4, HomeIs, ActiveNames DEF On
  <2>2. Touches(t, tcp', p) /\ On(tcp', p) = {} /\ p \in tcp'.pool
    BY <1>4, <1>7, <2>1, TouchAbandon
  <2>3. p \notin owned' /\ owned' \ {p} = owned \ {p}
    BY <1>4, <1>7 DEF TellsApplication
  <2>4. Touches(tcp, tcp', p)
    BY <1>3, <2>2, TouchesTwice
  <2> QED
    BY <2>2, <2>3, <2>4, OneBlock
<1>8. CASE /\ tcp' = Closed(t, p, ok)
           /\ owned' = IF CloseFails(t, p, ok) THEN owned ELSE owned \ {p}
  BY <1>2, <1>3, <1>4, <1>8, ActiveNames, ClosedGood
<1>9. CASE tcp' = t /\ owned' = owned
  BY <1>2, <1>3, <1>4, <1>9, ActiveNames, OneBlock
<1> QED
  BY <1>5, <1>6, <1>7, <1>8, <1>9

\* The step leaves a listed block where it is, in its state or in one that is open.
LEMMA StaysGood ==
  ASSUME NEW t, NEW o, Good(t, o), NEW p \in Pcbs, NEW u, Touches(t, u, p), On(t, p) # {},
         On(u, p) = On(t, p), u.pool = t.pool, u.pcb[p].local = t.pcb[p].local,
         \/ u.pcb[p].state = t.pcb[p].state
         \/ t.pcb[p].state \in Active /\ u.pcb[p].state \in Active \ Closing
  PROVE  Good(u, o)
<1>1. On(t, p) = {Home(t.pcb[p])} \cap Lists /\ p \notin t.pool
  BY DEF Good, Sorted
<1>2. {Home(u.pcb[p])} \cap Lists = {Home(t.pcb[p])} \cap Lists
  <2>1. CASE u.pcb[p].state = t.pcb[p].state
    BY <2>1 DEF Home
  <2>2. CASE t.pcb[p].state \in Active /\ u.pcb[p].state \in Active \ Closing
    BY <2>2, HomeIs
  <2> QED
    BY <2>1, <2>2
<1>3. /\ u.pcb[p].state # "LISTEN"
      /\ u.pcb[p].state = "CLOSED" => p \in o
      /\ u.pcb[p].state \in Closing \cup {"TIME_WAIT"} => p \notin o
  BY <1>1, ActiveNames DEF Good, Held
<1> QED
  BY <1>1, <1>2, <1>3, OneBlock

\* A segment that keeps the block where it is and what its state, list and owner say.
LEMMA FrontGood ==
  ASSUME Good(tcp, owned), NEW p \in Chain(tcp, "active"), NEW c \in Pcb,
         c.local = tcp.pcb[p].local,
         \/ c.state = tcp.pcb[p].state
         \/ c.state \in Active \ Closing,
         tcp' = [MoveToFront(tcp, "active", p) EXCEPT !.pcb[p] = c], owned' = owned
  PROVE  Good(tcp', owned')
<1> DEFINE m == MoveToFront(tcp, "active", p)
<1>1. Shape(tcp) /\ "active" \in Lists
  BY ListNames DEF Good
<1>2. /\ p \in Pcbs /\ Touches(tcp, m, p) /\ Shape(m)
      /\ On(m, p) = On(tcp, p) /\ m.pool = tcp.pool
  BY <1>1, TouchFront DEF Touches
<1> HIDE DEF m
<1>3. Touches(m, tcp', p) /\ On(tcp', p) = On(m, p) /\ tcp'.pcb[p] = c /\ tcp'.pool = m.pool
  <2>1. tcp' = With(m, p, c)
    BY DEF m, With
  <2>2. /\ Touches(m, With(m, p, c), p) /\ On(With(m, p, c), p) = On(m, p)
        /\ With(m, p, c).pcb[p] = c /\ With(m, p, c).pool = m.pool
    BY <1>2, TouchWith
  <2> QED
    BY <2>1, <2>2
<1>4. Touches(tcp, tcp', p)
  BY <1>2, <1>3, TouchesTwice
<1>5. On(tcp, p) # {} /\ tcp.pcb[p].state \in Active
  BY <1>2, GoodOn
<1>6. /\ On(tcp', p) = On(tcp, p) /\ tcp'.pool = tcp.pool
      /\ tcp'.pcb[p].local = tcp.pcb[p].local
      /\ \/ tcp'.pcb[p].state = tcp.pcb[p].state
         \/ tcp.pcb[p].state \in Active /\ tcp'.pcb[p].state \in Active \ Closing
  BY <1>2, <1>3, <1>5
<1> QED
  BY <1>2, <1>4, <1>5, <1>6, StaysGood

LEMMA InputGood ==
  ASSUME Good(tcp, owned), owned \subseteq Pcbs, Input
  PROVE  Good(tcp', owned')
<1>0. tcp \in Tcp /\ Shape(tcp) /\ (\A p \in Pcbs : tcp.pcb[p] \in Pcb) /\ "active" \in Lists
  BY ListNames DEF Good, Shape, Tcp
<1>1. ASSUME NEW p \in Pcbs, SynAckIn(p)
      PROVE  Good(tcp', owned')
  <2> DEFINE m == MoveToFront(tcp, "active", p)
             c == [Touched(tcp.pcb[p]) EXCEPT !.state = "ESTABLISHED"]
  <2>1. p \in Chain(tcp, "active") /\ m.pcb = tcp.pcb /\ m \in Tcp /\ owned' = owned
    BY <1>0, <1>1, MoveToFrontFields DEF SynAckIn, Receives
  <2>2. c \in Pcb /\ c.local = tcp.pcb[p].local /\ c.state = "ESTABLISHED"
    <3>1. "ESTABLISHED" \in States
      BY DEF States, Active
    <3> QED
      BY <1>0, <3>1, TouchedType, StateType
  <2>3. tcp' = [m EXCEPT !.pcb[p] = [Touched(@) EXCEPT !.state = "ESTABLISHED"]]
    BY <1>1 DEF SynAckIn
  <2> HIDE DEF m
  <2>4. tcp' = [m EXCEPT !.pcb[p] = c]
    BY <2>1, <2>3 DEF Tcp
  <2> HIDE DEF c
  <2> QED
    BY <2>1, <2>2, <2>4, ActiveNames, FrontGood DEF m
<1>2. ASSUME NEW p \in Pcbs, RstIn(p)
      PROVE  Good(tcp', owned')
  <2> DEFINE m == MoveToFront(tcp, "active", p)
             r == Remove(m, "active", p)
  <2>1. p \in Chain(tcp, "active") /\ tcp' = Release(r, {p}) /\ owned' = owned \ {p}
    BY <1>2 DEF RstIn, Receives
  <2>2. Touches(tcp, m, p) /\ On(m, p) = On(tcp, p) /\ Shape(m)
    BY <1>0, <2>1, TouchFront DEF Touches
  <2> HIDE DEF m
  <2>3. p \in Chain(m, "active")
    BY <1>0, <2>1, <2>2 DEF On
  <2>4. Touches(m, r, p) /\ On(r, p) = {} /\ Shape(r)
    BY <1>0, <2>2, <2>3, TouchRemove DEF Touches
  <2> HIDE DEF r
  <2>5. Touches(r, tcp', p) /\ On(tcp', p) = {} /\ p \in tcp'.pool
    BY <2>1, <2>4, TouchRelease
  <2>6. Touches(tcp, tcp', p)
    BY <2>2, <2>4, <2>5, TouchesTwice
  <2> QED
    BY <2>1, <2>5, <2>6, OneBlock
<1>3. ASSUME NEW p \in Pcbs, TimewaitIn(p)
      PROVE  Good(tcp', owned')
  <2> DEFINE c == [tcp.pcb[p] EXCEPT !.age = 0, !.since = 0]
  <2>1. c \in Pcb /\ c.state = tcp.pcb[p].state /\ c.local = tcp.pcb[p].local
    <3>1. 0 \in 0 .. MaxAge
      BY TimerAssumption
    <3> QED
      BY <1>0, <3>1 DEF Pcb
  <2>2. tcp' = [tcp EXCEPT !.pcb[p] = c] /\ owned' = owned
    BY <1>0, <1>3 DEF TimewaitIn, Tcp
  <2> HIDE DEF c
  <2>3. /\ Touches(tcp, tcp', p) /\ On(tcp', p) = On(tcp, p)
        /\ tcp'.pcb[p] = c /\ tcp'.pool = tcp.pool
    BY <1>0, <2>1, <2>2, TouchPcb
  <2>4. On(tcp, p) # {}
    BY <1>3, ListNames DEF TimewaitIn, On
  <2>5. /\ tcp'.pcb[p].local = tcp.pcb[p].local /\ tcp'.pcb[p].state = tcp.pcb[p].state
    BY <2>1, <2>3
  <2>6. Good(tcp', owned)
    BY <2>3, <2>4, <2>5, StaysGood
  <2> QED
    BY <2>2, <2>6
<1>4. ASSUME NEW p \in Pcbs, NEW r \in Peers, NEW rst \in BOOLEAN, RefusedIn(p, r, rst)
      PROVE  Good(tcp', owned')
  <2> DEFINE m == MoveToFront(tcp, "active", p)
             c == IF rst THEN tcp.pcb[p] ELSE Touched(tcp.pcb[p])
  <2>1. m.pcb = tcp.pcb /\ m \in Tcp /\ owned' = owned
    BY <1>0, <1>4, MoveToFrontFields DEF RefusedIn
  <2>2. /\ p \in Chain(tcp, "active")
        /\ tcp' = [m EXCEPT !.pcb[p] = IF rst THEN @ ELSE Touched(@)]
    BY <1>4, GoodOn DEF RefusedIn, Receives
  <2>3. c \in Pcb /\ c.local = tcp.pcb[p].local /\ c.state = tcp.pcb[p].state
    BY <1>0, TouchedType
  <2> HIDE DEF m
  <2>4. tcp' = [m EXCEPT !.pcb[p] = c]
    BY <2>1, <2>2 DEF Tcp
  <2> HIDE DEF c
  <2> QED
    BY <2>1, <2>2, <2>3, <2>4, FrontGood DEF m
<1>5. ASSUME NEW p \in Pcbs, NEW seg \in Segment, NEW ok \in BOOLEAN, SegIn(p, seg, p, ok)
      PROVE  Good(tcp', owned')
  BY <1>5, SegGood
<1>6. ASSUME NEW l \in Pcbs, NEW r \in Peers, NEW ok \in BOOLEAN, SynIn(l, r, ok)
      PROVE  FALSE
  BY <1>6, GoodOn DEF SynIn
<1> QED
  BY <1>1, <1>2, <1>3, <1>4, <1>5, <1>6 DEF Input

\* tcp_slowtmr takes all that expired off the active and the TIME_WAIT list and gives them
\* back; the others only grow older.
LEMMA SlowTmrGood ==
  ASSUME Good(tcp, owned), owned \subseteq Pcbs, NEW rto, SlowTmr(rto)
  PROVE  Good(tcp', owned')
<1> DEFINE u == Ticked(tcp, rto)
           gone == Expired(tcp, u)
           goneTw == ExpiredTw(tcp, u)
           v == Unlink(u, "active", gone)
           w == Unlink(v, "tw", goneTw)
           R == gone \cup goneTw
<1>0. tcp \in Tcp /\ Shape(tcp) /\ "active" \in Lists /\ "tw" \in Lists
  BY ListNames DEF Good, Shape
<1>1. gone \subseteq Chain(tcp, "active") /\ goneTw \subseteq Chain(tcp, "tw")
  BY DEF Expired, ExpiredTw
<1>2. tcp' = Release(w, R) /\ owned' = owned \ gone
  BY DEF SlowTmr
<1>3. /\ u \in Tcp /\ u.next = tcp.next /\ u.head = tcp.head /\ u.pool = tcp.pool
      /\ \A p \in Pcbs : u.pcb[p].state = tcp.pcb[p].state /\ u.pcb[p].local = tcp.pcb[p].local
  BY <1>0, TickedFields
<1> HIDE DEF u, gone, goneTw
<1>4. Shape(u) /\ \A l \in Lists : Chain(u, l) = Chain(tcp, l)
  BY <1>0, <1>3, SameLists
<1>5. /\ Shape(v) /\ v \in Tcp /\ v.pcb = u.pcb /\ v.pool = u.pool
      /\ \A l \in Lists : Chain(v, l) = IF l = "active" THEN Chain(u, l) \ gone ELSE Chain(u, l)
  <2>1. /\ Shape(v)
        /\ \A m \in Lists : Chain(v, m) = IF m = "active" THEN Chain(u, "active") \ gone ELSE Chain(u, m)
    BY <1>0, <1>3, <1>4, UnlinkShape
  <2>2. v \in Tcp /\ v.pcb = u.pcb /\ v.pool = u.pool
    <3>1. u \in Tcp /\ "active" \in Lists
      BY <1>0, <1>3
    <3> QED
      BY <3>1, UnlinkKeeps
  <2> HIDE DEF v
  <2> QED
    BY <2>1, <2>2
<1> HIDE DEF v
<1>6. /\ Shape(w) /\ w \in Tcp /\ w.pcb = v.pcb /\ w.pool = v.pool
      /\ \A l \in Lists : Chain(w, l) = IF l = "tw" THEN Chain(v, l) \ goneTw ELSE Chain(v, l)
  <2>1. /\ Shape(w)
        /\ \A m \in Lists : Chain(w, m) = IF m = "tw" THEN Chain(v, "tw") \ goneTw ELSE Chain(v, m)
    BY <1>0, <1>5, UnlinkShape
  <2>2. w \in Tcp /\ w.pcb = v.pcb /\ w.pool = v.pool
    <3>1. v \in Tcp /\ "tw" \in Lists
      BY <1>0, <1>5
    <3> QED
      BY <3>1, UnlinkKeeps
  <2> HIDE DEF w
  <2> QED
    BY <2>1, <2>2
<1> HIDE DEF w
<1>7. R \subseteq Pcbs
  BY <1>0, <1>1, ChainType
<1>8. /\ tcp' \in Tcp /\ tcp'.next = w.next /\ tcp'.head = w.head /\ tcp'.pool = w.pool \cup R
      /\ \A q \in Pcbs \ R : tcp'.pcb[q] = w.pcb[q]
  BY <1>2, <1>6, <1>7, ReleaseFields
<1>9. Shape(tcp') /\ \A l \in Lists : Chain(tcp', l) = Chain(w, l)
  BY <1>6, <1>8, SameLists
<1>10. \A q \in Pcbs \ R : /\ tcp'.pcb[q].state = tcp.pcb[q].state
                           /\ tcp'.pcb[q].local = tcp.pcb[q].local
  BY <1>3, <1>5, <1>6, <1>8
<1>11. tcp'.pool = tcp.pool \cup R
  BY <1>3, <1>5, <1>6, <1>8
<1>12. ASSUME NEW q \in Pcbs
       PROVE  On(tcp', q) = IF q \in R THEN {} ELSE On(tcp, q)
  <2>1. \A l \in Lists : Chain(tcp', l) = CASE l = "active" -> Chain(tcp, l) \ gone
                                            [] l = "tw" -> Chain(tcp, l) \ goneTw
                                            [] OTHER -> Chain(tcp, l)
    BY <1>4, <1>5, <1>6, <1>9
  <2>2. CASE q \notin R
    BY <2>1, <2>2 DEF On
  <2>3. CASE q \in gone
    <3>1. On(tcp, q) = {"active"}
      BY <1>1, <2>3, GoodOn
    <3> QED
      BY <2>1, <2>3, <3>1 DEF On
  <2>4. CASE q \in goneTw
    <3>1. On(tcp, q) = {"tw"}
      BY <1>1, <2>4, GoodOn
    <3> QED
      BY <2>1, <2>4, <3>1 DEF On
  <2> QED
    BY <2>2, <2>3, <2>4
<1> HIDE DEF R
<1>13. Sorted(tcp')
  <2> SUFFICES ASSUME NEW q \in Pcbs
               PROVE  On(tcp', q) = IF q \in tcp'.pool THEN {} ELSE {Home(tcp'.pcb[q])} \cap Lists
    BY DEF Sorted
  <2>1. On(tcp, q) = IF q \in tcp.pool THEN {} ELSE {Home(tcp.pcb[q])} \cap Lists
    BY DEF Good, Sorted
  <2>2. q \notin R => Home(tcp'.pcb[q]) = Home(tcp.pcb[q])
    BY <1>10 DEF Home
  <2> QED
    BY <1>11, <1>12, <2>1, <2>2
<1>14. Held(tcp', owned')
  <2>1. owned \cap goneTw = {}
    BY <1>1, GoodOn DEF Good, Held
  <2>2. owned' \subseteq Pcbs \ tcp'.pool
    BY <1>2, <1>11, <2>1 DEF Good, Held, R
  <2>3. \A q \in Pcbs \ tcp'.pool : q \in Pcbs \ tcp.pool /\ q \notin R /\ q \notin gone
    BY <1>11 DEF R
  <2> QED
    BY <1>2, <1>10, <2>2, <2>3 DEF Good, Held
<1>15. Unique(tcp')
  BY <1>10, <1>12 DEF Good, Unique
<1> QED
  BY <1>9, <1>13, <1>14, <1>15 DEF Good

-----------------------------------------------------------------------------
(* The properties of a program that opens connections                      *)

\* The application only opens, uses and closes connections, like the one of ECU1: it does
\* not listen, and it aborts a block only through tcp_abort's contract.
Connects == usage \cap {"listen", "abort bound"} = {}

ConnectInv == TypeOK /\ (Connects => Good(tcp, owned))

LEMMA CallGood ==
  ASSUME Good(tcp, owned), owned \subseteq Pcbs, Connects, Call
  PROVE  Good(tcp', owned')
<1>1. "listen" \notin usage /\ "abort bound" \notin usage
  BY DEF Connects
<1>2. \/ \E p \in Pcbs : TcpNew(p)
      \/ \E p \in owned, e \in Locals : TcpBind(p, e)
      \/ \E p \in owned, r \in Peers, ok \in BOOLEAN : TcpConnect(p, r, ok)
      \/ \E p \in owned, ok \in BOOLEAN : TcpClose(p, ok)
      \/ \E p \in owned : tcp.pcb[p].state \in Active /\ TcpAbort(p)
  BY <1>1 DEF Call
<1> QED
  BY <1>2, NewGood, BindGood, ConnectGood, CloseGood, AbortGood

LEMMA InitGood ==
  ASSUME Init
  PROVE  Good(tcp, owned)
<1>1. TypeOK
  BY FreshType DEF Init, TypeOK, Pointer
<1>2. tcp \in Tcp /\ owned = {} /\ tcp.pool = Pcbs
  BY <1>1, TypeOKIs DEF Init
<1>3. ASSUME NEW l \in Lists
      PROVE  Walk(tcp.next, tcp.head[l]) = {}
  <2>1. tcp.head[l] = NULL
    BY DEF Init
  <2> QED
    BY <2>1, WalkNull
<1>4. Shape(tcp) /\ \A p \in Pcbs : On(tcp, p) = {}
  BY <1>2, <1>3, ChainIs DEF Shape, NoCircle, On
<1> QED
  BY <1>2, <1>4 DEF Good, Sorted, Held, Unique

LEMMA ConnectInvHolds == Spec => []ConnectInv
<1>1. Init => ConnectInv
  BY InitGood, FreshType DEF Init, ConnectInv, TypeOK, Pointer
<1>2. ConnectInv /\ TypeOK' /\ [Next]_vars => ConnectInv'
  <2> SUFFICES ASSUME ConnectInv, TypeOK', [Next]_vars, Connects'
               PROVE  Good(tcp', owned')
    BY DEF ConnectInv
  <2>1. CASE Next
    <3>1. Connects /\ Good(tcp, owned) /\ owned \subseteq Pcbs
      BY <2>1 DEF Next, Connects, ConnectInv, TypeOK
    <3> QED
      BY <2>1, <3>1, CallGood, InputGood, SlowTmrGood DEF Next, Tick
  <2>2. CASE UNCHANGED vars
    <3>1. Connects /\ tcp' = tcp /\ owned' = owned
      BY <2>2 DEF vars, Connects
    <3> QED
      BY <3>1 DEF ConnectInv
  <2> QED
    BY <2>1, <2>2
<1> QED
  BY <1>1, <1>2, TypeCorrect, PTL DEF Spec

\* tcp_impl.h's axioms about the lists: every block in use that is not CLOSED is on a list,
\* on one only, and on the list of its state, whatever is called, received or expires.
THEOREM ListAxiomsHold == Spec => [](Connects => ListAxioms)
<1>1. ConnectInv => (Connects => ListAxioms)
  <2> SUFFICES ASSUME TypeOK, Good(tcp, owned) PROVE ListAxioms
    BY DEF ConnectInv
  <2>1. EveryPcbListed
    <3> SUFFICES ASSUME NEW p \in Pcbs \ tcp.pool, tcp.pcb[p].state # "CLOSED"
                 PROVE  p \in OnSomeList(tcp)
      BY DEF EveryPcbListed
    <3>1. tcp.pcb[p].state \in States /\ tcp.pcb[p].state # "LISTEN"
      BY GoodOn DEF Good, Held, Pcb
    <3>2. p \in Chain(tcp, "active") \/ p \in Chain(tcp, "tw")
      BY <3>1, GoodOn DEF States
    <3> QED
      BY <3>2, ListNames DEF OnSomeList
  <2>2. OneListEach
    BY DEF Good, Shape, OneListEach
  <2>3. ListStates
    <3>1. tcp \in Tcp /\ \A l \in Lists : Chain(tcp, l) \subseteq Pcbs
      BY ChainType DEF Good, Shape
    <3> QED
      BY <3>1, GoodOn, ListNames DEF ListStates
  <2> QED
    BY <2>1, <2>2, <2>3 DEF ListAxioms
<1> QED
  BY <1>1, ConnectInvHolds, PTL

\* Every walk over a list ends, so tcp_input, tcp_bind and the timers return from it.
THEOREM WalksEnd == Spec => [](Connects => ListsEnd)
<1>1. ConnectInv => (Connects => ListsEnd)
  <2> SUFFICES ASSUME Good(tcp, owned), NEW l \in Lists, tcp.head[l] # NULL
               PROVE  \E p \in Chain(tcp, l) : tcp.next[p] = NULL
    BY DEF ConnectInv, ListsEnd
  <2>1. tcp.next \in Links /\ tcp.head[l] \in Pcbs /\ NoCircle(tcp.next, tcp.head[l])
    BY DEF Good, Shape, Tcp, Pointer
  <2>2. \E p \in Walk(tcp.next, tcp.head[l]) : tcp.next[p] = NULL
    BY <2>1, WalkEnds
  <2> QED
    BY <2>2, ChainIs
<1> QED
  BY <1>1, ConnectInvHolds, PTL

\* No two blocks on the lists have one local endpoint, TIME_WAIT included, so a segment
\* finds at most one connection: tcp_bind looks at every list before it takes an endpoint,
\* and no later call, segment or tick gives a listed block another one.
THEOREM EndpointsUnique == Spec => [](Connects => UniqueEndpoints)
<1>1. ConnectInv => (Connects => UniqueEndpoints)
  <2> SUFFICES ASSUME Good(tcp, owned), NEW p \in OnSomeList(tcp), NEW q \in OnSomeList(tcp),
                      tcp.pcb[p].local = tcp.pcb[q].local
               PROVE  p = q
    BY DEF ConnectInv, UniqueEndpoints
  <2>1. p \in Pcbs /\ q \in Pcbs
    BY ChainType DEF Good, Shape, OnSomeList
  <2>2. On(tcp, p) # {} /\ On(tcp, q) # {}
    BY NotListed
  <2> QED
    BY <2>1, <2>2 DEF Good, Unique
<1> QED
  BY <1>1, ConnectInvHolds, PTL

\* The pool, the lists and the application share the blocks: none that is given back is
\* still on a list, and none is lost.
THEOREM PoolAccounted == Spec => [](Connects => PoolAccounts)
<1>1. ConnectInv => (Connects => PoolAccounts)
  <2> SUFFICES ASSUME TypeOK, Good(tcp, owned) PROVE PoolAccounts
    BY DEF ConnectInv
  <2>0. tcp \in Tcp /\ \A l \in Lists : Chain(tcp, l) \subseteq Pcbs
    BY ChainType DEF Good, Shape
  <2>1. FreeNotListed
    BY <2>0, GoodOn, ListNames DEF FreeNotListed, OnSomeList
  <2>2. tcp.pool \cup OnSomeList(tcp) \cup owned \subseteq Pcbs
    BY <2>0 DEF TypeOK, OnSomeList
  <2>3. ASSUME NEW p \in Pcbs, p \notin tcp.pool, p \notin owned
        PROVE  p \in OnSomeList(tcp)
    <3>1. tcp.pcb[p].state \in States /\ tcp.pcb[p].state \notin {"LISTEN", "CLOSED"}
      BY <2>3, GoodOn DEF Good, Held, Pcb
    <3>2. p \in Chain(tcp, "active") \/ p \in Chain(tcp, "tw")
      BY <2>3, <3>1, GoodOn DEF States
    <3> QED
      BY <3>2, ListNames DEF OnSomeList
  <2> QED
    BY <2>1, <2>2, <2>3 DEF PoolAccounts, NoLeak
<1> QED
  BY <1>1, ConnectInvHolds, PTL

\* No block goes back to the pool behind the application's back: tcp_alloc, tcp_input and
\* tcp_slowtmr give back only what the application closed or what its error callback
\* was called for.
THEOREM NotFreedSilently == Spec => [](Connects => NoSilentFree)
<1>1. ConnectInv => (Connects => NoSilentFree)
  BY DEF ConnectInv, Good, Held, NoSilentFree
<1> QED
  BY <1>1, ConnectInvHolds, PTL
=============================================================================
