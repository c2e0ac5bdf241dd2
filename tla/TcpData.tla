------------------------------ MODULE TcpData ------------------------------
(***************************************************************************)
(* The transfer of data over an established connection between two of      *)
(* these stacks: core/tcp_out.c, tcp_receive and tcp_process of            *)
(* core/tcp_in.c, the retransmission timer of tcp_slowtmr, and what the    *)
(* callbacks of lwip_int.c do with the data (TCPReceive consumes it at     *)
(* once and answers a FIN with TcpIp_Close).                               *)
(*                                                                         *)
(* Sequence numbers count modulo SeqSpace and are compared as the code     *)
(* does, by the sign of their difference.  The payload of a segment is     *)
(* represented by the positions of its bytes in the stream, which the code *)
(* never looks at: a mistake with sequence numbers or lengths shows up as  *)
(* a byte delivered twice, out of order or not at all.                     *)
(*                                                                         *)
(* Frames can be refused by a full transmit queue, lost, reordered and     *)
(* duplicated.  Ages are left out: a timer that runs may expire at any     *)
(* time.  This stack acknowledges every segment (tcp_ack sets TF_ACK_NOW)  *)
(* and has no Nagle algorithm; between handlers TF_ACK_NOW is never set.   *)
(***************************************************************************)
EXTENDS Integers, Sequences, FiniteSets, SequencesExt

CONSTANTS Ends,        \* the two stacks
          SeqSpace,    \* number of sequence numbers (2^32)
          Firsts,      \* sequence numbers the first byte of a stream can have
          Mss,         \* pcb->mss
          Wnd,         \* TCP_WND
          SndBuf,      \* TCP_SND_BUF
          MaxRtx,      \* TCP_MAXRTX
          Sizes,       \* sizes of the writes
          Plans,       \* bound: how much each program writes, and which ones close
          Capacity,    \* bound: frames under way
          MaxFaults,   \* bound: frames lost, refused or duplicated
          Patience     \* whether timers wait until no frame is under way

ASSUME EndsAssumption == IsFiniteSet(Ends) /\ Cardinality(Ends) = 2
ASSUME SeqAssumption ==
    /\ SeqSpace \in Nat /\ SeqSpace % 2 = 0 /\ SeqSpace > 4 * Wnd
    /\ Firsts \subseteq 0 .. SeqSpace - 1
ASSUME SizesAssumption ==
    /\ {Mss, Wnd, SndBuf, MaxRtx, Capacity} \subseteq Nat \ {0}
    /\ 2 * Mss <= Wnd
    /\ Plans \subseteq [total : [Ends -> Nat], closers : SUBSET Ends]
    /\ MaxFaults \in Nat /\ Patience \in BOOLEAN
    /\ Sizes \subseteq Nat \ {0}

VARIABLES plan,        \* what the two programs are going to do
          pcb,         \* the two control blocks
          net,         \* frames under way
          faults,      \* frames lost or duplicated so far
          written,     \* auxiliary: bytes each program has handed to tcp_write
          closed,      \* auxiliary: the ends whose tcp_close has queued a FIN
          delivered,   \* auxiliary: the bytes each program has got
          eof          \* auxiliary: the ends that got the closed event

vars == <<plan, pcb, net, faults, written, closed, delivered, eof>>

Other(e) == CHOOSE f \in Ends : f # e

-----------------------------------------------------------------------------
(* Sequence numbers *)

Add(a, n) == (a + n) % SeqSpace
Diff(a, b) == (a - b) % SeqSpace

LT(a, b) == Diff(a, b) >= SeqSpace \div 2
LEQ(a, b) == a = b \/ LT(a, b)
Between(a, b, c) == LEQ(b, a) /\ LEQ(a, c)

-----------------------------------------------------------------------------
(* Segments, as they are queued, and frames *)

TcpLen(s) == IF s.fin THEN s.len + 1 ELSE s.len
End(s) == Add(s.seq, TcpLen(s))

\* On ooseq the length of a segment is kept apart from the payload it holds (tot_len),
\* because the code computes them separately.
Piece(m) == [seq |-> m.seq, pos |-> m.pos, len |-> m.len, held |-> m.len, fin |-> m.fin]
Bytes(s) == [i \in 1 .. s.held |-> s.pos + i]

Sent(p, s) == [seq |-> s.seq, pos |-> s.pos, len |-> s.len, fin |-> s.fin,
               ack |-> p.rcv_nxt, wnd |-> p.rcv_ann_wnd, rst |-> FALSE]
EmptyAck(p) == Sent(p, [seq |-> p.snd_nxt, pos |-> 0, len |-> 0, fin |-> FALSE])
Reset(seqno, ackno) == [seq |-> seqno, pos |-> 0, len |-> 0, fin |-> FALSE,
                        ack |-> ackno, wnd |-> Wnd, rst |-> TRUE]

Gone == [state |-> "CLOSED", snd_lbb |-> 0, snd_buf |-> 0, unsent |-> <<>>, unacked |-> <<>>,
         snd_nxt |-> 0, lastack |-> 0, snd_wnd |-> 0, snd_wl1 |-> 0, snd_wl2 |-> 0,
         cwnd |-> 0, ssthresh |-> 0, dupacks |-> 0, nrtx |-> 0, rtime |-> FALSE,
         rcv_nxt |-> 0, rcv_wnd |-> 0, rcv_ann_wnd |-> 0, edge |-> 0, ooseq |-> <<>>,
         rxclosed |-> FALSE]

\* What a call works on: the block, the frames it sends, the data and the end of the
\* stream it passes up, and TF_ACK_NOW.
Work(p) == [p |-> p, out |-> {}, data |-> <<>>, fin |-> FALSE, now |-> FALSE]

-----------------------------------------------------------------------------
(* tcp_out.c *)

LeastOf(a, b) == IF a < b THEN a ELSE b

\* Mutation: only the congestion window counts.
SendableBeyondWindow(p) ==
    LET fits(i) == (Diff(p.unsent[i].seq, p.lastack) + p.unsent[i].len) % SeqSpace <= p.cwnd
    IN  Cardinality({k \in 1 .. Len(p.unsent) : \A i \in 1 .. k : fits(i)})

\* How many of the unsent segments fit into the windows.
Sendable(p) ==
    LET wnd == LeastOf(p.snd_wnd, p.cwnd)
        fits(i) == (Diff(p.unsent[i].seq, p.lastack) + p.unsent[i].len) % SeqSpace <= wnd
    IN  Cardinality({k \in 1 .. Len(p.unsent) : \A i \in 1 .. k : fits(i)})

\* Sending a frame announces the window.
Announced(p) == [p EXCEPT !.edge = Add(p.rcv_nxt, p.rcv_ann_wnd)]

SendEmptyAck(w) ==
    [w EXCEPT !.p = Announced(@), !.out = @ \cup {EmptyAck(w.p)}, !.now = FALSE]

\* tcp_output
Output(w) ==
    LET p == w.p
        n == Sendable(p)
        sent == SubSeq(p.unsent, 1, n)
    IN  IF n > 0
        THEN [w EXCEPT
                !.p = [Announced(p) EXCEPT
                         !.unsent = SubSeq(@, n + 1, Len(@)),
                         !.unacked = @ \o sent,
                         !.rtime = TRUE,
                         !.snd_nxt = IF LT(@, End(Last(sent))) THEN End(Last(sent)) ELSE @],
                !.out = @ \cup {Sent(p, s) : s \in ToSet(sent)},
                !.now = FALSE]
        ELSE IF w.now THEN SendEmptyAck(w) ELSE w

\* Segments are no longer than half the largest window the peer has announced.
MssLocal == LeastOf(Mss, Wnd \div 2)

\* tcp_write: the last unsent segment is filled up, the rest goes into new ones.
Enqueued(p, n, first) ==
    LET m == Len(p.unsent)
        room == IF m > 0 /\ p.unsent[m].len > 0 THEN MssLocal - p.unsent[m].len ELSE 0
        fill == LeastOf(room, n)
        filled == [i \in 1 .. m |->
                     IF i = m THEN [p.unsent[i] EXCEPT !.len = @ + fill] ELSE p.unsent[i]]
        k == (n - fill + MssLocal - 1) \div MssLocal
        new == [i \in 1 .. k |->
                  LET off == fill + (i - 1) * MssLocal
                  IN  [seq |-> Add(p.snd_lbb, off), pos |-> first + off,
                       len |-> LeastOf(MssLocal, n - off), fin |-> FALSE]]
    IN  [p EXCEPT !.unsent = filled \o new,
                  !.snd_lbb = Add(@, n),
                  !.snd_buf = @ - n]

\* tcp_send_fin: on the last unsent segment, or in a segment of its own.
FinOnLast(p) == p.unsent # <<>> /\ ~Last(p.unsent).fin

SendFin(p) ==
    IF FinOnLast(p)
    THEN [p EXCEPT !.unsent[Len(p.unsent)].fin = TRUE]
    ELSE [p EXCEPT !.unsent = Append(@, [seq |-> p.snd_lbb, pos |-> 0, len |-> 0, fin |-> TRUE]),
                   !.snd_lbb = Add(@, 1),
                   !.snd_buf = @ - 1]

\* tcp_close up to its call of tcp_output.  memory: whether a segment can be allocated.
CanClose(p, memory) == FinOnLast(p) \/ (memory /\ p.snd_buf > 0)

Closed(w, memory) ==
    LET p == [w.p EXCEPT !.rxclosed = TRUE]
    IN  CASE p.state = "ESTABLISHED" /\ CanClose(p, memory) ->
               [w EXCEPT !.p = [SendFin(p) EXCEPT !.state = "FIN_WAIT_1"]]
          [] p.state = "CLOSE_WAIT" /\ CanClose(p, memory) ->
               [w EXCEPT !.p = [SendFin(p) EXCEPT !.state = "LAST_ACK"]]
          [] OTHER -> [w EXCEPT !.p = p]

\* tcp_abandon with a reset; in TIME_WAIT the block is only removed.
Abort(w) ==
    [w EXCEPT !.p = Gone, !.data = <<>>, !.fin = FALSE, !.now = FALSE,
              !.out = IF w.p.state = "TIME_WAIT" THEN @
                      ELSE @ \cup {Reset(w.p.snd_nxt, w.p.rcv_nxt)}]

-----------------------------------------------------------------------------
(* tcp_receive: acknowledgements *)

\* The segments of q after the longest prefix of segments that satisfy Test.
After(q, Test(_)) ==
    LET n == Cardinality({k \in 1 .. Len(q) : \A i \in 1 .. k : Test(q[i])})
    IN  SubSeq(q, n + 1, Len(q))

WindowUpdate(p, m) ==
    \/ LT(p.snd_wl1, m.seq)
    \/ p.snd_wl1 = m.seq /\ LT(p.snd_wl2, m.ack)
    \/ p.snd_wl2 = m.ack /\ m.wnd > p.snd_wnd

WindowUpdated(p, m) ==
    IF WindowUpdate(p, m)
    THEN [p EXCEPT !.snd_wnd = m.wnd, !.snd_wl1 = m.seq, !.snd_wl2 = m.ack]
    ELSE p

\* The five clauses of a duplicate acknowledgement; p is the block before, q the one
\* after the window update.
IsDupAck(p, q, m) ==
    /\ TcpLen(m) = 0
    /\ Add(q.snd_wl2, q.snd_wnd) = Add(p.snd_wl2, p.snd_wnd)
    /\ p.rtime
    /\ p.lastack = m.ack

\* A congestion window above Wnd acts like Wnd, because the peer announces no more.
CapWnd(n) == LeastOf(n, Wnd)

\* The third duplicate sends the first unacknowledged segment again, and changes
\* neither the congestion window nor the retransmission count.
DupAck(w) ==
    LET p == [w.p EXCEPT !.dupacks = IF @ < 4 THEN @ + 1 ELSE @]
    IN  CASE w.p.dupacks < 2 -> [w EXCEPT !.p = p]
          [] w.p.dupacks = 2 -> [w EXCEPT !.p = Announced(p), !.out = @ \cup {Sent(p, p.unacked[1])}]
          [] OTHER -> [w EXCEPT !.p = [p EXCEPT !.cwnd = CapWnd(@ + Mss)]]

\* Mutation: a segment of which only a part is acknowledged is freed too.
NewAckFreesPartial(p, ackno) ==
    LET rest == After(p.unacked, LAMBDA s : LT(s.seq, ackno))
    IN  [p EXCEPT !.nrtx = 0, !.dupacks = 0, !.lastack = ackno,
                  !.snd_buf = @ + Diff(ackno, p.lastack),
                  !.cwnd = CapWnd(IF @ < p.ssthresh THEN @ + Mss ELSE @ + (Mss * Mss) \div @),
                  !.unacked = rest,
                  !.rtime = rest # <<>>]

\* Mutation: every acknowledgement stops the timer.
NewAckStopsTimer(p, ackno) ==
    [p EXCEPT !.nrtx = 0, !.dupacks = 0, !.lastack = ackno,
              !.snd_buf = @ + Diff(ackno, p.lastack),
              !.cwnd = CapWnd(IF @ < p.ssthresh THEN @ + Mss ELSE @ + (Mss * Mss) \div @),
              !.unacked = After(@, LAMBDA s : LEQ(End(s), ackno)),
              !.rtime = FALSE]

NewAck(p, ackno) ==
    LET rest == After(p.unacked, LAMBDA s : LEQ(End(s), ackno))
    IN  [p EXCEPT !.nrtx = 0, !.dupacks = 0, !.lastack = ackno,
                  !.snd_buf = @ + Diff(ackno, p.lastack),
                  !.cwnd = CapWnd(IF @ < p.ssthresh THEN @ + Mss ELSE @ + (Mss * Mss) \div @),
                  !.unacked = rest,
                  !.rtime = rest # <<>>]

\* After a time-out segments that were sent before are on the unsent queue.
UnsentAcked(p, ackno) ==
    [p EXCEPT !.unsent = After(@, LAMBDA s : Between(ackno, End(s), p.snd_nxt))]

AckIn(w, m) ==
    LET q == WindowUpdated(w.p, m)
        v == [w EXCEPT !.p = q]
        u == CASE LEQ(m.ack, q.lastack) ->
                    IF IsDupAck(w.p, q, m) THEN DupAck(v) ELSE [v EXCEPT !.p.dupacks = 0]
               [] ~LEQ(m.ack, q.lastack) /\ Between(m.ack, Add(q.lastack, 1), q.snd_nxt) ->
                    [v EXCEPT !.p = NewAck(q, m.ack)]
               [] OTHER -> v
    IN  [u EXCEPT !.p = UnsentAcked(@, m.ack)]

-----------------------------------------------------------------------------
(* tcp_receive: data *)

InWindow(p, seqno) == Between(seqno, p.rcv_nxt, Add(p.rcv_nxt, p.rcv_wnd - 1))

\* tcp_update_rcv_ann_wnd: the right edge moves only by a useful amount.
NewEdge(p) == Add(p.rcv_nxt, p.rcv_wnd)
EdgeMoves(p) == LEQ(Add(p.edge, LeastOf(Wnd \div 2, Mss)), NewEdge(p))

\* Mutation: an edge that does not move closes the window.
UpdateAnnWndCloses(p) ==
    [p EXCEPT !.rcv_ann_wnd = IF EdgeMoves(p) THEN p.rcv_wnd ELSE 0]

UpdateAnnWnd(p) ==
    [p EXCEPT !.rcv_ann_wnd =
        IF EdgeMoves(p) THEN p.rcv_wnd
        ELSE IF LT(p.edge, p.rcv_nxt) THEN 0 ELSE Diff(p.edge, p.rcv_nxt)]

\* Mutation: the payload is not moved.
FromKeepsPayload(s, a) == LET n == Diff(a, s.seq)
                          IN  [s EXCEPT !.seq = a, !.len = @ - n, !.held = @ - n]

\* The part of s from sequence number a on, and the part before b.
From(s, a) == LET n == Diff(a, s.seq)
              IN  [s EXCEPT !.seq = a, !.pos = @ + n, !.len = @ - n, !.held = @ - n]
UpTo(s, b) == LET n == Diff(b, s.seq)
              IN  [s EXCEPT !.len = n, !.held = LeastOf(@, n)]

FirstEdgeTrimmed(p, s) ==
    IF Between(p.rcv_nxt, Add(s.seq, 1), Add(s.seq, TcpLen(s) - 1)) THEN From(s, p.rcv_nxt) ELSE s

\* Data that overruns the window is cut off, and a FIN with it.
TrimmedToWindow(p, s) ==
    IF TcpLen(s) > p.rcv_wnd THEN [UpTo(s, NewEdge(p)) EXCEPT !.fin = FALSE] ELSE s

\* The segments of ooseq that s covers are dropped; s inherits their FIN.
Covers(s, t) == LEQ(Add(t.seq, t.len), End(s))

Join(p, s) ==
    IF s.fin THEN [seg |-> s, ooseq |-> <<>>]
    ELSE LET rest == After(p.ooseq, LAMBDA x : Covers(s, x))
             dropped == SubSeq(p.ooseq, 1, Len(p.ooseq) - Len(rest))
             t == [s EXCEPT !.fin = \E i \in 1 .. Len(dropped) : dropped[i].fin]
         IN  [seg |-> IF rest # <<>> /\ LT(rest[1].seq, End(t)) THEN UpTo(t, rest[1].seq) ELSE t,
              ooseq |-> rest]

\* The segments at the front of ooseq that follow rcv_nxt without a gap.
InSequence(q, rcv_nxt) ==
    LET starts(i) == IF i = 1 THEN rcv_nxt ELSE End(q[i - 1])
        n == Cardinality({k \in 1 .. Len(q) : \A i \in 1 .. k : q[i].seq = starts(i)})
    IN  SubSeq(q, 1, n)

Taken(p, s) ==
    UpdateAnnWnd([p EXCEPT !.rcv_nxt = Add(s.seq, TcpLen(s)), !.rcv_wnd = @ - TcpLen(s)])

\* The segments are taken one after the other.
TakenAll(p, segs) ==
    LET taken[i \in 0 .. Len(segs)] == IF i = 0 THEN p ELSE Taken(taken[i - 1], segs[i])
    IN  taken[Len(segs)]

InOrder(w, s0) ==
    LET j == Join(w.p, TrimmedToWindow(w.p, s0))
        drained == InSequence(j.ooseq, End(j.seg))
        all == <<j.seg>> \o drained
        late == \E i \in 1 .. Len(drained) : drained[i].fin
        p == TakenAll(w.p, all)
    IN  [w EXCEPT
           !.p = [p EXCEPT !.ooseq = SubSeq(j.ooseq, Len(drained) + 1, Len(j.ooseq)),
                           !.state = IF late /\ @ = "ESTABLISHED" THEN "CLOSE_WAIT" ELSE @],
           !.data = FlattenSeq([i \in 1 .. Len(all) |-> Bytes(all[i])]),
           !.fin = j.seg.fin \/ late,
           !.now = TRUE]

\* Mutation: the segments that s overlaps stay as they are.
InsertedOverlapping(s, next) == <<s>> \o next

\* tcp_oos_insert_segment
Inserted(s, next) ==
    IF s.fin THEN <<s>>
    ELSE LET rest == After(next, LAMBDA x : LEQ(Add(x.seq, x.len), Add(s.seq, s.len)))
             t == [s EXCEPT !.fin = \E i \in 1 .. Len(next) - Len(rest) : next[i].fin]
         IN  <<IF rest # <<>> /\ LT(rest[1].seq, Add(t.seq, t.len)) THEN UpTo(t, rest[1].seq) ELSE t>>
             \o rest

\* The right edge is compared without regard to the sign of the difference.
Overruns(p, s) == End(s) > NewEdge(p)

AtEnd(p, s) ==
    IF Overruns(p, s)
    THEN [UpTo(s, NewEdge(p)) EXCEPT !.fin = FALSE]
    ELSE s

PrevTrimmed(t, s) == IF LT(s.seq, Add(t.seq, t.len)) THEN UpTo(t, s.seq) ELSE t

\* Where a segment that is not next in sequence goes.
Queued(p, s) ==
    LET q == p.ooseq
        n == Len(q)
        i == Cardinality({k \in 1 .. n : LT(q[k].seq, s.seq)})
        before == [k \in 1 .. i |-> IF k = i THEN PrevTrimmed(q[k], s) ELSE q[k]]
        rest == SubSeq(q, i + 1, n)
        same == i < n /\ q[i + 1].seq = s.seq
    IN  CASE n = 0 -> <<s>>
          [] n > 0 /\ same -> IF s.len > q[i + 1].len THEN SubSeq(q, 1, i) \o Inserted(s, rest) ELSE q
          [] n > 0 /\ ~same /\ i < n -> before \o Inserted(s, rest)
          [] n > 0 /\ i = n -> IF q[n].fin THEN q ELSE Append(before, AtEnd(p, s))

\* memory: whether a segment can be allocated.
DataIn(w, m, memory) ==
    LET p == w.p
        s == FirstEdgeTrimmed(p, Piece(m))
    IN  IF ~InWindow(p, s.seq) THEN SendEmptyAck(w)
        ELSE IF s.seq = p.rcv_nxt THEN InOrder(w, s)
        ELSE LET v == SendEmptyAck(w) IN IF memory THEN [v EXCEPT !.p.ooseq = Queued(p, s)] ELSE v

Receiving == {"ESTABLISHED", "FIN_WAIT_1", "FIN_WAIT_2"}

Receive(w, m, memory) ==
    LET u == AckIn(w, m)
    IN  IF TcpLen(m) > 0 /\ u.p.state \in Receiving THEN DataIn(u, m, memory)
        ELSE [u EXCEPT !.now = @ \/ ~InWindow(u.p, m.seq)]

-----------------------------------------------------------------------------
(* tcp_process and tcp_input *)

Purged(p) == [p EXCEPT !.unsent = <<>>, !.unacked = <<>>, !.ooseq = <<>>, !.rtime = FALSE]

\* The FIN counts as acknowledged when everything that was sent is.
NextState(s, fin, finAcked) ==
    CASE s \in {"ESTABLISHED", "CLOSE_WAIT"} /\ fin -> "CLOSE_WAIT"
      [] s = "FIN_WAIT_1" /\ fin -> IF finAcked THEN "TIME_WAIT" ELSE "CLOSING"
      [] s = "FIN_WAIT_1" /\ ~fin /\ finAcked -> "FIN_WAIT_2"
      [] s = "FIN_WAIT_2" /\ fin -> "TIME_WAIT"
      [] s = "CLOSING" /\ finAcked -> "TIME_WAIT"
      [] s = "LAST_ACK" /\ finAcked -> "CLOSED"
      [] OTHER -> s

Entered(u, s) ==
    [u EXCEPT !.p = [IF s = "TIME_WAIT" THEN Purged(u.p) ELSE u.p EXCEPT !.state = s],
              !.now = @ \/ u.fin]

Moved(u, m) == Entered(u, NextState(u.p.state, u.fin, m.ack = u.p.snd_nxt))

Process(w, m, memory) == Moved(Receive(w, m, memory), m)

\* TCPReceive consumes the data: tcp_recved opens the window again and asks for an
\* acknowledgement if its edge moves by a quarter of TCP_WND.
Recved(w) ==
    IF w.data = <<>> THEN w
    ELSE LET p == [w.p EXCEPT !.rcv_wnd = CapWnd(@ + Len(w.data))]
             moved == EdgeMoves(p) /\ Diff(NewEdge(p), p.edge) >= Wnd \div 4
         IN  [w EXCEPT !.p = UpdateAnnWnd(p), !.now = @ \/ moved]

\* The closed event: TCPReceive closes its own direction too.
FinSeen(w, memory) ==
    IF w.fin THEN Closed([w EXCEPT !.p.rcv_wnd = CapWnd(@ + 1)], memory) ELSE w

\* What tcp_input does after tcp_process.
PassedUp(w, memory) ==
    CASE w.p.state = "CLOSED" -> [Work(Gone) EXCEPT !.out = w.out]
      [] w.p.state # "CLOSED" /\ w.data # <<>> /\ w.p.rxclosed -> Abort(w)
      [] OTHER -> Output(FinSeen(Recved(w), memory))

\* tcp_input for a connection, except resets.
Input(p, m, memory) == PassedUp(Process(Work(p), m, memory), memory)

\* tcp_timewait_input: what arrives in TIME_WAIT is acknowledged, and a reset ignored.
TimewaitInput(p, m) ==
    IF ~m.rst /\ TcpLen(m) > 0 THEN Output([Work(p) EXCEPT !.now = TRUE]) ELSE Work(p)

\* tcp_input.  A closed end answers with a reset, and a reset counts if its sequence
\* number is in the window.
Answer(p, m, memory) ==
    CASE p.state = "CLOSED" /\ m.rst -> Work(p)
      [] p.state = "CLOSED" /\ ~m.rst -> [Work(p) EXCEPT !.out = {Reset(m.ack, End(m))}]
      [] p.state = "TIME_WAIT" -> TimewaitInput(p, m)
      [] p.state \notin {"CLOSED", "TIME_WAIT"} /\ m.rst ->
           IF Between(m.seq, p.rcv_nxt, NewEdge(p)) THEN Work(Gone) ELSE Output(Work(p))
      [] OTHER -> Input(p, m, memory)

-----------------------------------------------------------------------------
(* The connection *)

Opened(first, peerFirst, cwnd) ==
    [Gone EXCEPT !.state = "ESTABLISHED",
        !.snd_lbb = first, !.snd_nxt = first, !.lastack = first, !.snd_buf = SndBuf,
        !.snd_wnd = Wnd, !.snd_wl1 = Diff(peerFirst, 2), !.snd_wl2 = first,
        !.cwnd = cwnd, !.ssthresh = 10 * Mss,
        !.rcv_nxt = peerFirst, !.rcv_wnd = Wnd, !.rcv_ann_wnd = Wnd, !.edge = Add(peerFirst, Wnd)]

Init ==
    /\ \E first \in [Ends -> Firsts], cwnd \in {Mss, 2 * Mss} :
          pcb = [e \in Ends |-> Opened(first[e], first[Other(e)], cwnd)]
    /\ plan \in Plans
    /\ net = {} /\ faults = 0
    /\ written = [e \in Ends |-> 0] /\ closed = {}
    /\ delivered = [e \in Ends |-> <<>>] /\ eof = {}

\* e sends the frames of w, each of which can be refused by the transmit queue or lost;
\* extra counts the duplication of a frame.
Send(e, w, under, extra) ==
    /\ pcb' = [pcb EXCEPT ![e] = w.p]
    /\ UNCHANGED plan
    /\ \E kept \in SUBSET w.out :
          /\ net' = under \cup {[to |-> Other(e), seg |-> s] : s \in kept}
          /\ faults' = faults + extra + Cardinality(w.out \ kept)
    /\ Cardinality(net') <= Capacity
    /\ faults' <= MaxFaults

\* Mutation: the space left in the send buffer is not checked.
TransmitUnchecked(e, n) ==
    /\ pcb[e].state \in {"ESTABLISHED", "CLOSE_WAIT"}
    /\ written[e] + n <= plan.total[e]
    /\ Send(e, Output(Work(Enqueued(pcb[e], n, written[e]))), net, 0)
    /\ written' = [written EXCEPT ![e] = @ + n]
    /\ UNCHANGED <<closed, delivered, eof>>

\* TcpIp_TcpTransmit.  Without buffer space or memory, or in another state, nothing
\* changes (in another state it still reports success).
Transmit(e, n) ==
    /\ pcb[e].state \in {"ESTABLISHED", "CLOSE_WAIT"}
    /\ n <= pcb[e].snd_buf
    /\ written[e] + n <= plan.total[e]
    /\ Send(e, Output(Work(Enqueued(pcb[e], n, written[e]))), net, 0)
    /\ written' = [written EXCEPT ![e] = @ + n]
    /\ UNCHANGED <<closed, delivered, eof>>

\* TcpIp_Close by the program.
Close(e, memory) ==
    LET w == Closed(Work(pcb[e]), memory)
        done == w.p.state # pcb[e].state
    IN  /\ pcb[e].state # "CLOSED"
        /\ Send(e, IF done THEN Output(w) ELSE w, net, 0)
        /\ closed' = IF done THEN closed \cup {e} ELSE closed
        /\ UNCHANGED <<written, delivered, eof>>

\* The frames of w are sent, and e's program is called back with its data.
Handled(e, w, under, extra) ==
    /\ Send(e, w, under, extra)
    /\ delivered' = [delivered EXCEPT ![e] = @ \o w.data]
    /\ eof' = IF w.fin THEN eof \cup {e} ELSE eof
    /\ closed' = IF w.p.state = "LAST_ACK" THEN closed \cup {e} ELSE closed
    /\ UNCHANGED written

\* A frame arrives; duplicate: and will arrive again.
Deliver(m, memory, duplicate) ==
    /\ m \in net
    /\ Handled(m.to, Answer(pcb[m.to], m.seg, memory),
               IF duplicate THEN net ELSE net \ {m}, IF duplicate THEN 1 ELSE 0)

\* Mutation: the segments to send again go behind those that were never sent.
RtoExpiredAtEnd(p) ==
    [p EXCEPT !.ssthresh = 2 * Mss,
              !.cwnd = Mss,
              !.unsent = @ \o p.unacked,
              !.unacked = <<>>,
              !.nrtx = @ + 1]

\* The retransmission timer of tcp_slowtmr expires.
RtoExpired(p) ==
    [p EXCEPT !.ssthresh = LET half == LeastOf(p.cwnd, p.snd_wnd) \div 2
                           IN  IF half < 2 * Mss THEN 2 * Mss ELSE half,
              !.cwnd = Mss,
              !.unsent = p.unacked \o @,
              !.unacked = <<>>,
              !.nrtx = @ + 1]

RtoDue(e) ==
    /\ pcb[e].unacked # <<>> /\ pcb[e].rtime /\ pcb[e].nrtx # MaxRtx
    /\ Patience => net = {}

Rto(e) ==
    /\ RtoDue(e)
    /\ Send(e, Output(Work(RtoExpired(pcb[e]))), net, 0)
    /\ UNCHANGED <<written, closed, delivered, eof>>

\* The reasons for tcp_slowtmr to remove a block.
Overdue(p) ==
    \/ p.state # "CLOSED" /\ p.nrtx = MaxRtx
    \/ p.state = "FIN_WAIT_2" /\ p.rxclosed
    \/ p.state \in {"LAST_ACK", "TIME_WAIT"}

GiveUp(e) ==
    /\ Overdue(pcb[e])
    /\ Patience => net = {}
    /\ Send(e, Work(Gone), net, 0)
    /\ UNCHANGED <<written, closed, delivered, eof>>

\* tcp_slowtmr drops what has been out of sequence for too long.
DropOoseq(e) ==
    /\ pcb[e].ooseq # <<>>
    /\ Patience => net = {}
    /\ Send(e, Work([pcb[e] EXCEPT !.ooseq = <<>>]), net, 0)
    /\ UNCHANGED <<written, closed, delivered, eof>>

Next ==
    \/ \E e \in Ends :
          \/ \E n \in Sizes : Transmit(e, n)
          \/ Rto(e) \/ GiveUp(e) \/ DropOoseq(e)
    \/ \E e \in plan.closers, memory \in BOOLEAN : Close(e, memory)
    \/ \E m \in net, memory, duplicate \in BOOLEAN : Deliver(m, memory, duplicate)

\* Weak fairness: frames under way arrive and the retransmission timer expires.  It is
\* written out because Deliver is enabled exactly when a frame is under way and Rto when
\* RtoDue holds (a frame need not be lost, and Capacity is chosen not to be a limit).
Fairness ==
    /\ []<>(net = {}) \/ []<><<\E m \in net : Deliver(m, TRUE, FALSE)>>_vars
    /\ \A e \in Ends : []<>~RtoDue(e) \/ []<><<Rto(e)>>_vars

Spec == Init /\ [][Next]_vars
FairSpec == Spec /\ Fairness

-----------------------------------------------------------------------------
(* Properties *)

States == {"CLOSED", "ESTABLISHED", "FIN_WAIT_1", "FIN_WAIT_2", "CLOSE_WAIT", "CLOSING",
           "LAST_ACK", "TIME_WAIT"}

\* Type correctness; the counts never go below zero (they are unsigned in the code).
TypeOK ==
    /\ \A e \in Ends :
          LET p == pcb[e]
          IN  /\ p.state \in States
              /\ {p.snd_buf, p.rcv_wnd, p.rcv_ann_wnd, p.snd_wnd, p.nrtx, p.dupacks} \subseteq Nat
              /\ {p.snd_lbb, p.snd_nxt, p.lastack, p.rcv_nxt, p.edge} \subseteq 0 .. SeqSpace - 1
              /\ {p.rtime, p.rxclosed} \subseteq BOOLEAN
    /\ closed \cup eof \subseteq Ends /\ faults \in 0 .. MaxFaults

\* In each direction the programs see the byte stream of TcpStream: nothing is delivered
\* twice, out of order or with a gap, and the closed event comes after the last byte.
Stream == INSTANCE TcpStream
ImplementsStream == Stream!Spec

Live(e) == pcb[e].state # "CLOSED"
Sending(e) == pcb[e].state \notin {"CLOSED", "TIME_WAIT"}
Outstanding(e) == pcb[e].unacked \o pcb[e].unsent

\* The two send queues together are one run of sequence numbers, from lastack to the last
\* byte or FIN enqueued.  tcp_output relies on it: it appends to unacked without sorting.
QueuesOrdered ==
    \A e \in Ends : Sending(e) =>
        LET q == Outstanding(e)
            p == pcb[e]
        IN  /\ \A i \in 1 .. Len(q) - 1 : q[i + 1].seq = End(q[i])
            /\ q # <<>> => LEQ(q[1].seq, p.lastack) /\ LT(p.lastack, End(q[1]))
            /\ (IF q = <<>> THEN p.lastack ELSE End(Last(q))) \in {p.snd_lbb, Add(p.snd_lbb, 1)}

\* A byte that the other program has not got can still be sent again, and so can a FIN
\* that it has not been told of: tcp_receive frees nothing too early.
NothingFreedEarly ==
    \A e \in Ends : LET f == Other(e) IN
        Live(e) /\ Live(f) /\ ~pcb[f].rxclosed =>
            LET q == ToSet(Outstanding(e))
            IN  /\ \A i \in Len(delivered[f]) + 1 .. written[e] :
                      \E s \in q : s.pos < i /\ i <= s.pos + s.len
                /\ e \in closed => \E s \in q : s.fin

\* ooseq is sorted and without overlap, starts beyond rcv_nxt, ends within the window,
\* holds the bytes it claims to, and only its last segment can have a FIN.
OoseqOrdered ==
    \A e \in Ends :
        LET q == pcb[e].ooseq
            p == pcb[e]
        IN  /\ q # <<>> => LT(p.rcv_nxt, q[1].seq) /\ LEQ(Add(Last(q).seq, Last(q).len), NewEdge(p))
            /\ \A i \in 1 .. Len(q) : q[i].held = q[i].len
            /\ \A i \in 1 .. Len(q) - 1 : ~q[i].fin /\ LEQ(End(q[i]), q[i + 1].seq)

\* The timer runs exactly while a segment waits for its acknowledgement, and segments wait
\* unsent only while it does: tcp_rexmit_fast finds a segment to send, and a transfer
\* cannot stop with nobody due to act.
TimerRuns ==
    \A e \in Ends : Sending(e) =>
        /\ pcb[e].rtime <=> pcb[e].unacked # <<>>
        /\ pcb[e].unsent # <<>> => pcb[e].unacked # <<>>

\* No frame carries data beyond the window the receiver has, nor, towards a receiver that
\* does not send, beyond the right edge it has announced (a sender that gets data too may
\* take an acknowledgement from an old segment without its window). What a sender may
\* have outstanding is always room for a full segment: a transfer never has to wait for
\* the persist timer.
WindowRespected ==
    /\ \A m \in net : Live(m.to) /\ m.seg.len > 0 =>
          LET end == Add(m.seg.seq, m.seg.len)
          IN  /\ LEQ(end, NewEdge(pcb[m.to]))
              /\ written[m.to] = 0 /\ m.to \notin closed => LEQ(end, pcb[m.to].edge)
    /\ \A e \in Ends : Live(e) => pcb[e].snd_wnd >= MssLocal

\* A window that was announced is not taken back.
EdgeAdvances == [][\A e \in Ends : Live(e)' => LEQ(pcb[e].edge, pcb'[e].edge)]_vars

\* With fewer faults than TCP_MAXRTX and nobody closing, every byte written arrives.
WrittenArrives ==
    \A e \in Ends :
        Len(delivered[Other(e)]) < written[e] ~> Len(delivered[Other(e)]) = written[e]

=============================================================================
