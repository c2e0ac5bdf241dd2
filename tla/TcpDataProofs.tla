--------------------------- MODULE TcpDataProofs ----------------------------
(***************************************************************************)
(* What TcpData promises holds for every window, segment size, send buffer,*)
(* plan and number of faults, as long as no stream comes near half of the  *)
(* sequence space (ShortStreams): the queues cover what may have to be sent*)
(* again, the receiver's fragments are in order and are what was written,  *)
(* the announced window is respected and never shrinks, and the programs   *)
(* see two byte streams (TcpStream).                                       *)
(*                                                                         *)
(* The inductive invariant reads every sequence number as a position in    *)
(* one of the two streams.  A Direction is such a stream, with what its    *)
(* writer has written, closed and sent, what its reader has taken, and the *)
(* right edge the writer may know of.  Snd and Rcv relate a control block  *)
(* to the stream it sends and to the one it receives; FrameOK relates a    *)
(* frame, however old, to both; all of it stays true as the streams grow   *)
(* (Grown).  Each call of lwIP then has one lemma that says what it leaves *)
(* (Outcome), and one lemma, StepKeeps, takes any such call back to the    *)
(* invariant of both ends and of the network.                              *)
(***************************************************************************)
EXTENDS TcpData, SequenceTheorems, FiniteSetTheorems, WellFoundedInduction, TLAPS

\* Half of the sequence space: numbers closer than that compare like integers.
Half == SeqSpace \div 2

\* No stream comes near the point where the sequence numbers wrap.  lwIP starts at 6510
\* and its ticks (tcp_next_iss), so in 32 bits this leaves streams of almost 2^31 bytes.
ShortStreams ==
  \A pl \in Plans, e \in Ends, x \in Firsts : x + pl.total[e] + 2 * Wnd + 2 <= Half

\* What a FIN adds to a length.
Bit(b) == IF b THEN 1 ELSE 0

\* The values of segments on unsent and unacked, of segments on ooseq, of frames and of blocks.
Segment == [seq : Nat, pos : Nat, len : Nat, fin : BOOLEAN]
Fragment == [seq : Nat, pos : Nat, len : Nat, held : Nat, fin : BOOLEAN]
Frame == [seq : Nat, pos : Nat, len : Nat, fin : BOOLEAN, ack : Nat, wnd : Nat, rst : BOOLEAN]
Block ==
  [state : States, snd_lbb : Nat, snd_buf : Int, unsent : Seq(Segment), unacked : Seq(Segment),
   snd_nxt : Nat, lastack : Nat, snd_wnd : Nat, snd_wl1 : Nat, snd_wl2 : Nat,
   cwnd : Nat, ssthresh : Nat, dupacks : Nat, nrtx : Nat, rtime : BOOLEAN,
   rcv_nxt : Nat, rcv_wnd : Int, rcv_ann_wnd : Int, edge : Nat, ooseq : Seq(Fragment),
   rxclosed : BOOLEAN]

\* A stream and the sequence number behind its end: what is written from first on, whether it
\* is closed, up to where it was sent, how much of it the reader took, the right edge of the
\* reader's window.
EndOf(d) == d.first + d.written + Bit(d.closed)
Direction == [first : Nat, written : Nat, closed : BOOLEAN, sent : Nat, got : Nat, limit : Nat]
FlowOK(d) ==
  /\ d \in Direction
  /\ d.first + d.got <= d.sent /\ d.sent <= EndOf(d)
  /\ d.limit <= d.first + d.got + Wnd
  /\ d.first + d.written + 2 * Wnd + 2 <= Half

\* The number behind the segment s, as an integer; s is part of the stream d.
Stop(s) == s.seq + TcpLen(s)
Shaped(s) == s.seq \in Nat /\ s.pos \in Nat /\ s.len \in Nat /\ s.fin \in BOOLEAN
Own(s, d) ==
  /\ d.first <= s.seq /\ s.seq + s.len <= d.first + d.written
  /\ s.len > 0 => s.seq = d.first + s.pos
  /\ s.fin => d.closed /\ s.seq + s.len = d.first + d.written
  /\ TcpLen(s) > 0 /\ s.len <= Mss

\* The segments of q follow each other, up to t; where such a queue starts.
Run(q, t, d) ==
  \A i \in 1 .. Len(q) : /\ Own(q[i], d)
                         /\ Stop(q[i]) = IF i = Len(q) THEN t ELSE q[i + 1].seq
StartOf(q, t) == IF q = <<>> THEN t ELSE q[1].seq

\* The queues u and v (unacked and unsent) hold everything from la on.
Queue(u, v, la, d) ==
  /\ Run(v, EndOf(d), d)
  /\ Run(u, StartOf(v, EndOf(d)), d)
  /\ u = <<>> /\ v = <<>> => la = EndOf(d)
  /\ u # <<>> => u[1].seq <= la /\ la < Stop(u[1])
  /\ u = <<>> /\ v # <<>> => v[1].seq <= la /\ la < Stop(v[1])

\* What is on unacked was sent, inside the window.
SentOK(u, d) ==
  \A i \in 1 .. Len(u) : /\ Stop(u[i]) <= d.sent
                         /\ u[i].len > 0 => u[i].seq + u[i].len <= d.limit

\* The queues, the timer and the send buffer of the block p that sends d.
QueuesOK(p, d) ==
  /\ Queue(p.unacked, p.unsent, p.lastack, d)
  /\ SentOK(p.unacked, d)
  /\ p.rtime <=> p.unacked # <<>>
  /\ p.snd_lbb \in {EndOf(d), EndOf(d) - Bit(d.closed)}
  /\ p.snd_buf = SndBuf - (p.snd_lbb - p.lastack)

\* The sending side of the block p, which sends d.
Snd(p, d) ==
  /\ d.first <= p.lastack /\ p.lastack <= d.first + d.got
  /\ p.snd_nxt = d.sent
  /\ p.snd_lbb <= EndOf(d) /\ p.snd_buf >= 0
  /\ Wnd - Mss <= p.snd_wnd /\ p.snd_wnd <= Wnd /\ p.lastack + p.snd_wnd <= d.limit
  /\ Mss <= p.cwnd
  /\ p.state # "TIME_WAIT" => QueuesOK(p, d)
  /\ p.state = "TIME_WAIT" => p.unsent = <<>> /\ p.unacked = <<>> /\ ~p.rtime

\* Between two calls, what is unsent waits for an acknowledgement.
Busy(p) == p.unsent # <<>> => p.unacked # <<>>

\* A segment on ooseq of a block that expects nxt; the segments on ooseq.
Fits(s, nxt, d) ==
  /\ Own(s, d) /\ s.held = s.len
  /\ nxt < s.seq /\ s.seq + s.len <= nxt + Wnd
  /\ Stop(s) <= d.sent
Sorted(q) == \A i, j \in 1 .. Len(q) : i < j => ~q[i].fin /\ Stop(q[i]) <= q[j].seq
Fragments(q, nxt, d) == (\A i \in 1 .. Len(q) : Fits(q[i], nxt, d)) /\ Sorted(q)
OoseqOK(p, d) == Fragments(p.ooseq, p.rcv_nxt, d)

\* The receiving side of the block p, which receives d.
Rcv(p, d) ==
  /\ p.rcv_nxt = d.first + d.got
  /\ p.rcv_wnd = Wnd
  /\ Wnd - Mss <= p.rcv_ann_wnd /\ p.rcv_ann_wnd <= Wnd
  /\ p.edge <= p.rcv_nxt + p.rcv_ann_wnd
  /\ OoseqOK(p, d)

\* The end e has sent nothing yet; the stream that e sends, when the streams start at first.
Open(e) == Live(e) /\ written[e] = 0 /\ e \notin closed
Flow(first, e) ==
  LET f == Other(e)
      got == Len(delivered[f]) + Bit(f \in eof)
  IN  [first |-> first[e], written |-> written[e], closed |-> e \in closed,
       sent |-> IF Live(e) THEN pcb[e].snd_nxt ELSE first[e] + written[e] + Bit(e \in closed),
       got |-> got,
       limit |-> IF Open(f) THEN pcb[f].edge ELSE first[e] + got + Wnd]

\* What the state says of an end: c is whether it has queued its FIN, h whether its program
\* has been told of the other's.
Phase(p, c, h) ==
  /\ p.state \in {"ESTABLISHED", "CLOSE_WAIT"} <=> ~c
  /\ p.state \in {"ESTABLISHED", "FIN_WAIT_1", "FIN_WAIT_2"} <=> ~h
  /\ c => p.rxclosed
  /\ p.state # "CLOSED"
StateOK(p, c, h) == Phase(p, c, h) /\ (h => p.rxclosed)

\* The block p as it was before any data of r: no window update was taken but the first.
Quiet(p, d, r) ==
  /\ p.snd_wl2 = p.lastack
  /\ p.snd_wl1 \in {Diff(r.first, 2), r.first}
  /\ p.snd_wl1 = Diff(r.first, 2) => p.lastack = d.first

\* The frame s carries part of d and acknowledges part of r.
FrameOK(s, d, r) ==
  /\ s.rst => s.len = 0 /\ ~s.fin
  /\ ~s.rst => /\ d.first <= s.seq /\ Stop(s) <= d.sent
               /\ TcpLen(s) > 0 => Own(s, d)
               /\ r.first <= s.ack /\ s.ack <= r.first + r.got
               /\ Wnd - Mss <= s.wnd /\ s.wnd <= Wnd
  /\ s.len > 0 => s.seq + s.len <= d.limit

\* The invariant of one end.
EndInv(first, e) ==
  LET f == Other(e)
      d == Flow(first, e)
      r == Flow(first, f)
      p == pcb[e]
  IN  /\ first[e] \in Firsts
      /\ FlowOK(d)
      /\ p \in Block
      /\ p = Gone \/ (Snd(p, d) /\ Busy(p) /\ Rcv(p, r) /\ StateOK(p, e \in closed, e \in eof))
      /\ p.state # "CLOSED" /\ Open(f) => Quiet(p, d, r)
      /\ written[e] <= plan.total[e]
      /\ delivered[e] = [i \in 1 .. Len(delivered[e]) |-> i]
      /\ e \in eof => f \in closed /\ Len(delivered[e]) = written[f]
      /\ e \notin eof => Len(delivered[e]) <= written[f]

\* The invariant of the frames on the network.
NetInv(first) ==
  \A m \in net : LET e == Other(m.to)
                     s == m.seg
                 IN /\ s \in Frame
                    /\ FrameOK(s, Flow(first, e), Flow(first, m.to))
                    /\ Live(e) /\ ~s.rst => s.ack + s.wnd <= pcb[e].edge

\* The types of the variables.
Types ==
  /\ pcb \in [Ends -> Block] /\ written \in [Ends -> Nat] /\ delivered \in [Ends -> Seq(Nat)]
  /\ closed \subseteq Ends /\ eof \subseteq Ends /\ faults \in 0 .. MaxFaults
  /\ \A m \in net : m.to \in Ends /\ m.seg \in Frame
  /\ plan \in Plans

\* The inductive invariant; first is where the streams start.
Inv(first) == Types /\ (\A e \in Ends : EndInv(first, e)) /\ NetInv(first)
IInv == \E first \in [Ends -> Firsts] : Inv(first)

-----------------------------------------------------------------------------
(* Arithmetic *)

\* The assumptions about sizes, in the form the proofs use.
LEMMA SizeFacts ==
  /\ Mss \in Nat /\ Mss >= 1 /\ Wnd \in Nat /\ 2 * Mss <= Wnd
  /\ SndBuf \in Nat /\ SndBuf >= 1 /\ MaxRtx \in Nat
  /\ SeqSpace \in Nat /\ Half \in Nat /\ SeqSpace = 2 * Half /\ 2 * Wnd < Half
  /\ MssLocal = Mss /\ LeastOf(Wnd \div 2, Mss) = Mss
<1>1. /\ Mss \in Nat /\ Mss >= 1 /\ Wnd \in Nat /\ 2 * Mss <= Wnd
      /\ SndBuf \in Nat /\ SndBuf >= 1 /\ MaxRtx \in Nat
  BY SizesAssumption
<1>2. SeqSpace \in Nat /\ SeqSpace % 2 = 0 /\ SeqSpace > 4 * Wnd
  BY SeqAssumption
<1>3. Half \in Nat /\ SeqSpace = 2 * Half
  BY <1>2 DEF Half
<1>4. Wnd \div 2 >= Mss /\ Wnd \div 2 \in Nat
  BY <1>1
<1> QED
  BY <1>1, <1>2, <1>3, <1>4 DEF MssLocal, LeastOf

\* There are two ends, each the other's other.
LEMMA EndsFacts ==
  ASSUME NEW e \in Ends
  PROVE  Other(e) \in Ends /\ Other(e) # e /\ Other(Other(e)) = e
         /\ \A f \in Ends : f = e \/ f = Other(e)
<1>1. IsFiniteSet(Ends) /\ Cardinality(Ends) = 2
  BY EndsAssumption
<1>2. IsFiniteSet(Ends \ {e}) /\ Cardinality(Ends \ {e}) = 1
  BY <1>1, FS_RemoveElement
<1>3. PICK f : Ends \ {e} = {f}
  BY <1>2, FS_Singleton
<1>4. Other(e) = f
  BY <1>3 DEF Other
<1>5. Other(f) = e
  BY <1>3 DEF Other
<1> QED
  BY <1>3, <1>4, <1>5

\* The sequence numbers a short stream uses: half of the space, in which they compare like
\* integers.
Low == 0 .. Half - 1

\* The remainder of a number in the sequence space, and of one just below it.
LEMMA Modulo ==
  /\ \A x \in 0 .. SeqSpace - 1 : x % SeqSpace = x
  /\ \A x \in -SeqSpace .. -1 : x % SeqSpace = x + SeqSpace
<1>1. SeqSpace \in Nat \ {0}
  BY SizeFacts
<1>2. \A x \in 0 .. SeqSpace - 1 : x % SeqSpace = x
  BY <1>1
<1>3. \A x \in -SeqSpace .. -1 : x % SeqSpace = x + SeqSpace
  BY <1>1
<1> QED
  BY <1>2, <1>3

\* Adding to a sequence number without a wrap.
LEMMA AddIs ==
  ASSUME NEW a \in Int, NEW n \in Int, a + n >= 0, a + n < SeqSpace
  PROVE  Add(a, n) = a + n
BY SizeFacts, Modulo DEF Add

\* The same, for the numbers of a short stream.
LEMMA LowAdd ==
  ASSUME NEW a \in Int, NEW n \in Int, a + n \in Low
  PROVE  Add(a, n) = a + n
BY AddIs, SizeFacts DEF Low

\* The difference of two such numbers, modulo the sequence space.
LEMMA LowDiff ==
  ASSUME NEW a \in Low, NEW b \in Low
  PROVE  /\ a >= b => Diff(a, b) = a - b
         /\ a < b => Diff(a, b) = a - b + SeqSpace
<1>1. a \in Nat /\ b \in Nat /\ a < Half /\ b < Half /\ Half \in Nat /\ SeqSpace = 2 * Half
  BY SizeFacts DEF Low
<1>2. CASE a >= b
  <2>1. a - b \in 0 .. SeqSpace - 1
    BY <1>1, <1>2
  <2> QED
    BY <1>1, <1>2, <2>1, Modulo DEF Diff
<1>3. CASE a < b
  <2>1. a - b \in -SeqSpace .. -1
    BY <1>1, <1>3
  <2> QED
    BY <1>3, <1>1, <2>1, Modulo DEF Diff
<1> QED
  BY <1>1, <1>2, <1>3

\* TCP_SEQ_LT and TCP_SEQ_LEQ compare such numbers like integers.
LEMMA LowOrder ==
  ASSUME NEW a \in Low, NEW b \in Low
  PROVE  (LT(a, b) <=> a < b) /\ (LEQ(a, b) <=> a <= b)
<1>1. a \in Nat /\ b \in Nat /\ a < Half /\ b < Half /\ Half \in Nat /\ SeqSpace = 2 * Half
  BY SizeFacts DEF Low
<1>2. SeqSpace \div 2 = Half
  BY DEF Half
<1>3. LT(a, b) <=> a < b
  BY <1>1, <1>2, LowDiff DEF LT
<1> QED
  BY <1>1, <1>3 DEF LEQ

-----------------------------------------------------------------------------
(* Counting and least elements *)

\* A set of numbers that is not empty has a least one.
LEMMA LeastNat ==
  ASSUME NEW T, T \subseteq Nat, T # {}
  PROVE  \E n \in T : \A k \in T : n <= k
<1>1. PICK n \in T : \A k \in T : ~(<<k, n>> \in OpToRel(<, Nat))
  BY NatLessThanWellFounded, WFMin
<1>2. \A k \in T : ~(k < n)
  BY <1>1 DEF OpToRel
<1> QED
  BY <1>2

\* Counting the prefixes inside T finds where T is first left.
LEMMA PrefixCount ==
  ASSUME NEW n \in Nat, NEW T
  PROVE  LET c == Cardinality({k \in 1 .. n : \A i \in 1 .. k : i \in T})
         IN  c \in 0 .. n /\ (\A i \in 1 .. c : i \in T) /\ (c < n => c + 1 \notin T)
<1> DEFINE F == {k \in 1 .. n + 1 : k \notin T \/ k = n + 1}
<1>1. PICK m \in F : \A k \in F : m <= k
  <2>1. F \in SUBSET Nat /\ n + 1 \in F
    OBVIOUS
  <2> QED
    BY <2>1, LeastNat
<1>2. {k \in 1 .. n : \A i \in 1 .. k : i \in T} = 1 .. m - 1
  <2>1. \A i \in 1 .. m - 1 : i \in T
    BY <1>1
  <2>2. m \notin T \/ m = n + 1
    BY <1>1
  <2>3. m \in 1 .. n + 1
    BY <1>1
  <2>4. ASSUME NEW k \in 1 .. n, \A i \in 1 .. k : i \in T
        PROVE  k <= m - 1
    BY <2>2, <2>3, <2>4
  <2> QED
    BY <2>1, <2>3, <2>4
<1>3. m \in 1 .. n + 1 /\ (\A i \in 1 .. m - 1 : i \in T) /\ (m \notin T \/ m = n + 1)
  BY <1>1
<1> HIDE DEF F
<1>4. Cardinality(1 .. m - 1) = m - 1
  <2>1. m - 1 \in Nat /\ 1 \in Int /\ m - 1 \in Int
    BY <1>3
  <2> QED
    BY <2>1, FS_Interval
<1> DEFINE c == Cardinality({k \in 1 .. n : \A i \in 1 .. k : i \in T})
<1>5. c = m - 1
  BY <1>2, <1>4
<1> HIDE DEF c
<1>6. c \in 0 .. n /\ (\A i \in 1 .. c : i \in T) /\ (c < n => c + 1 \notin T)
  BY <1>3, <1>5
<1> QED
  BY <1>6 DEF c

-----------------------------------------------------------------------------
(* Queues of segments *)

\* What holds of a stream, as arithmetic.
LEMMA FlowFacts ==
  ASSUME NEW d, FlowOK(d)
  PROVE  /\ d.first \in Nat /\ d.written \in Nat /\ d.closed \in BOOLEAN /\ d.sent \in Nat
         /\ d.got \in Nat /\ d.limit \in Nat
         /\ EndOf(d) = d.first + d.written + (IF d.closed THEN 1 ELSE 0)
         /\ EndOf(d) \in Nat /\ EndOf(d) + 2 * Wnd + 1 <= Half
         /\ d.first <= EndOf(d) /\ d.first + d.got <= d.sent /\ d.sent <= EndOf(d)
         /\ d.limit <= d.first + d.got + Wnd
BY SizeFacts DEF FlowOK, Direction, EndOf, Bit

\* What holds of a segment of a stream, as arithmetic.
LEMMA OwnFacts ==
  ASSUME NEW d, FlowOK(d), NEW s, Shaped(s), Own(s, d)
  PROVE  /\ s.seq \in Low /\ Stop(s) \in Low /\ s.seq + s.len \in Low
         /\ End(s) = Stop(s) /\ Add(s.seq, s.len) = s.seq + s.len
         /\ Stop(s) = s.seq + TcpLen(s) /\ s.seq < Stop(s) /\ Stop(s) <= EndOf(d)
         /\ TcpLen(s) = s.len + (IF s.fin THEN 1 ELSE 0)
         /\ d.first <= s.seq
<1>1. /\ d.first \in Nat /\ d.written \in Nat /\ d.closed \in BOOLEAN
      /\ EndOf(d) = d.first + d.written + (IF d.closed THEN 1 ELSE 0)
      /\ EndOf(d) \in Nat /\ EndOf(d) + 2 * Wnd + 1 <= Half
  BY FlowFacts
<1>2. s.seq \in Nat /\ s.len \in Nat /\ s.fin \in BOOLEAN
  BY DEF Shaped
<1>3. TcpLen(s) = s.len + (IF s.fin THEN 1 ELSE 0) /\ TcpLen(s) \in Nat /\ TcpLen(s) > 0
  BY <1>2 DEF TcpLen, Own
<1>4. d.first <= s.seq /\ s.seq + s.len <= d.first + d.written /\ (s.fin => d.closed)
  BY DEF Own
<1>5. Stop(s) = s.seq + TcpLen(s) /\ Stop(s) <= EndOf(d)
  BY <1>1, <1>2, <1>3, <1>4 DEF Stop
<1>6. s.seq \in Low /\ Stop(s) \in Low /\ s.seq + s.len \in Low
  BY <1>1, <1>2, <1>3, <1>4, <1>5, SizeFacts DEF Low
<1>7. End(s) = Stop(s) /\ Add(s.seq, s.len) = s.seq + s.len
  BY <1>2, <1>3, <1>5, <1>6, LowAdd DEF End
<1> QED
  BY <1>2, <1>3, <1>4, <1>5, <1>6, <1>7

\* The rest of a sequence after n elements.
LEMMA SuffixIs ==
  ASSUME NEW S, NEW q \in Seq(S), NEW n \in 0 .. Len(q)
  PROVE  LET r == SubSeq(q, n + 1, Len(q))
         IN  /\ r \in Seq(S) /\ Len(r) = Len(q) - n
             /\ \A i \in 1 .. Len(q) - n : r[i] = q[n + i]
<1>1. Len(q) \in Nat /\ \A i \in n + 1 .. Len(q) : q[i] \in S
  BY ElementOfSeq, LenProperties
<1> DEFINE r == SubSeq(q, n + 1, Len(q))
<1>2. /\ r \in Seq(S)
      /\ Len(r) = IF n + 1 <= Len(q) THEN Len(q) - (n + 1) + 1 ELSE 0
      /\ \A i \in 1 .. Len(q) - (n + 1) + 1 : r[i] = q[n + 1 + i - 1]
  BY <1>1, SubSeqProperties
<1> HIDE DEF r
<1>3. Len(r) = Len(q) - n
  BY <1>1, <1>2
<1>4. \A i \in 1 .. Len(q) - n : r[i] = q[n + i]
  <2> TAKE i \in 1 .. Len(q) - n
  <2>1. i \in 1 .. Len(q) - (n + 1) + 1 /\ n + 1 + i - 1 = n + i
    BY <1>1
  <2> QED
    BY <1>2, <2>1
<1> QED
  BY <1>2, <1>3, <1>4 DEF r

\* The first n elements of a sequence.
LEMMA PrefixIs ==
  ASSUME NEW S, NEW q \in Seq(S), NEW n \in 0 .. Len(q)
  PROVE  LET r == SubSeq(q, 1, n)
         IN  /\ r \in Seq(S) /\ Len(r) = n
             /\ \A i \in 1 .. n : r[i] = q[i]
<1>1. Len(q) \in Nat /\ \A i \in 1 .. n : q[i] \in S
  BY ElementOfSeq, LenProperties
<1> DEFINE r == SubSeq(q, 1, n)
<1>2. /\ r \in Seq(S)
      /\ Len(r) = IF 1 <= n THEN n - 1 + 1 ELSE 0
      /\ \A i \in 1 .. n - 1 + 1 : r[i] = q[1 + i - 1]
  BY <1>1, SubSeqProperties
<1> HIDE DEF r
<1>3. Len(r) = n
  BY <1>1, <1>2
<1>4. \A i \in 1 .. n : r[i] = q[i]
  <2> TAKE i \in 1 .. n
  <2>1. i \in 1 .. n - 1 + 1 /\ 1 + i - 1 = i
    BY <1>1
  <2> QED
    BY <1>2, <2>1
<1> QED
  BY <1>2, <1>3, <1>4 DEF r

\* Segments, fragments and frames have the fields of a segment.
LEMMA SegmentShape ==
  /\ \A s \in Segment : Shaped(s)
  /\ \A s \in Fragment : Shaped(s)
  /\ \A s \in Frame : Shaped(s)
BY DEF Segment, Fragment, Frame, Shaped

\* A run of segments is in order.
LEMMA RunOrder ==
  ASSUME NEW d, FlowOK(d), NEW q \in Seq(Segment), NEW t \in Nat, Run(q, t, d)
  PROVE  /\ \A i, j \in 1 .. Len(q) : i < j => Stop(q[i]) <= q[j].seq
         /\ \A i \in 1 .. Len(q) : Stop(q[i]) <= t /\ Own(q[i], d) /\ Shaped(q[i])
         /\ \A i \in 1 .. Len(q) : StartOf(q, t) <= q[i].seq
<1>1. Len(q) \in Nat /\ \A i \in 1 .. Len(q) : Own(q[i], d) /\ Shaped(q[i])
  BY ElementOfSeq, LenProperties, SegmentShape DEF Run
<1>2. \A i \in 1 .. Len(q) : q[i].seq \in Nat /\ Stop(q[i]) \in Nat /\ q[i].seq < Stop(q[i])
  BY <1>1, OwnFacts DEF Low
<1>3. \A i \in 1 .. Len(q) : Stop(q[i]) = IF i = Len(q) THEN t ELSE q[i + 1].seq
  BY DEF Run
<1>4. ASSUME NEW i \in 1 .. Len(q), NEW j \in 1 .. Len(q), i < j
      PROVE  Stop(q[i]) <= q[j].seq
  <2> DEFINE T == {k \in i + 1 .. Len(q) : ~(Stop(q[i]) <= q[k].seq)}
  <2>1. SUFFICES ASSUME j \in T PROVE FALSE
    BY <1>1, <1>4
  <2>2. T \subseteq Nat /\ T # {}
    BY <1>1, <2>1
  <2>3. PICK k \in T : \A l \in T : k <= l
    BY <2>2, LeastNat
  <2>4. k \in i + 1 .. Len(q) /\ ~(Stop(q[i]) <= q[k].seq)
    BY <2>3
  <2>5. CASE k = i + 1
    <3>1. Stop(q[i]) = q[k].seq
      BY <1>1, <1>3, <2>4, <2>5
    <3> QED
      BY <1>1, <1>2, <2>4, <3>1
  <2>6. CASE k > i + 1
    <3>1. k - 1 \in i + 1 .. Len(q) /\ k - 1 \in 1 .. Len(q) /\ k - 1 # Len(q) /\ k - 1 + 1 = k
      BY <1>1, <2>4, <2>6
    <3>2. k - 1 \notin T
      BY <2>3, <2>4, <3>1
    <3>3. Stop(q[i]) <= q[k - 1].seq
      BY <3>1, <3>2
    <3>4. Stop(q[k - 1]) = q[k].seq
      BY <1>3, <3>1
    <3>5. q[k - 1].seq \in Nat /\ Stop(q[k - 1]) \in Nat /\ q[k - 1].seq < Stop(q[k - 1]) /\ Stop(q[i]) \in Nat
      BY <1>2, <3>1
    <3> QED
      BY ONLY <2>4, <3>3, <3>4, <3>5
  <2> QED
    BY <1>1, <2>4, <2>5, <2>6
<1>5. ASSUME NEW i \in 1 .. Len(q)
      PROVE  Stop(q[i]) <= t /\ StartOf(q, t) <= q[i].seq
  <2>1. Len(q) \in 1 .. Len(q) /\ 1 \in 1 .. Len(q) /\ q # <<>>
    BY <1>1
  <2>2. Stop(q[Len(q)]) = t /\ StartOf(q, t) = q[1].seq
    BY <1>3, <2>1 DEF StartOf
  <2>3. i < Len(q) => Stop(q[i]) <= q[Len(q)].seq
    BY <1>4, <2>1
  <2>4. 1 < i => Stop(q[1]) <= q[i].seq
    BY <1>4, <2>1
  <2> QED
    BY <1>1, <1>2, <2>1, <2>2, <2>3, <2>4
<1> QED
  BY <1>1, <1>4, <1>5

\* The elements of a queue of segments.
LEMMA SegmentQueue ==
  ASSUME NEW q \in Seq(Segment)
  PROVE  /\ Len(q) \in Nat /\ (q = <<>> <=> Len(q) = 0) /\ <<>> \in Seq(Segment)
         /\ \A i \in 1 .. Len(q) : q[i] \in Segment /\ Shaped(q[i])
BY EmptySeq, ElementOfSeq, LenProperties, SegmentShape

\* The empty queue is a run.
LEMMA RunEmpty ==
  ASSUME NEW d, NEW t
  PROVE  Run(<<>>, t, d) /\ StartOf(<<>>, t) = t
BY DEF Run, StartOf

\* A run does not start behind its end.
LEMMA StartFacts ==
  ASSUME NEW d, FlowOK(d), NEW q \in Seq(Segment), NEW t \in Nat, Run(q, t, d)
  PROVE  StartOf(q, t) \in Nat /\ StartOf(q, t) <= t
<1>1. CASE q = <<>>
  BY <1>1 DEF StartOf
<1>2. CASE q # <<>>
  <2>1. 1 \in 1 .. Len(q) /\ StartOf(q, t) = q[1].seq
    BY <1>2, SegmentQueue DEF StartOf
  <2>2. Own(q[1], d) /\ Shaped(q[1]) /\ Stop(q[1]) <= t
    BY <2>1, RunOrder
  <2> QED
    BY <2>1, <2>2, OwnFacts DEF Low
<1> QED
  BY <1>1, <1>2

\* A run without its first n segments is a run.
LEMMA RunSuffix ==
  ASSUME NEW d, NEW q \in Seq(Segment), NEW t \in Nat, Run(q, t, d), NEW n \in 0 .. Len(q)
  PROVE  LET r == SubSeq(q, n + 1, Len(q))
         IN  /\ r \in Seq(Segment) /\ Len(r) = Len(q) - n /\ Run(r, t, d)
             /\ \A i \in 1 .. Len(r) : r[i] = q[n + i]
             /\ StartOf(r, t) = IF n = 0 THEN StartOf(q, t) ELSE Stop(q[n])
<1> DEFINE r == SubSeq(q, n + 1, Len(q))
<1>1. Len(q) \in Nat
  BY SegmentQueue
<1>2. r \in Seq(Segment) /\ Len(r) = Len(q) - n /\ \A i \in 1 .. Len(q) - n : r[i] = q[n + i]
  BY SuffixIs
<1> HIDE DEF r
<1>3. Run(r, t, d)
  <2> SUFFICES ASSUME NEW i \in 1 .. Len(r)
               PROVE  Own(r[i], d) /\ Stop(r[i]) = IF i = Len(r) THEN t ELSE r[i + 1].seq
    BY DEF Run
  <2>1. n + i \in 1 .. Len(q) /\ r[i] = q[n + i] /\ i \in 1 .. Len(q) - n
    BY <1>1, <1>2
  <2>2. i # Len(r) => r[i + 1] = q[n + i + 1] /\ n + i # Len(q)
    <3> HAVE i # Len(r)
    <3>0. Len(r) = Len(q) - n /\ i \in Nat /\ i <= Len(q) - n /\ i >= 1
      BY <1>1, <1>2
    <3>1. i + 1 \in 1 .. Len(q) - n /\ n + (i + 1) = n + i + 1
      BY <1>1, <3>0
    <3> QED
      BY <1>1, <1>2, <3>1
  <2>3. i = Len(r) => n + i = Len(q)
    BY <1>1, <1>2
  <2>4. Own(q[n + i], d) /\ Stop(q[n + i]) = IF n + i = Len(q) THEN t ELSE q[n + i + 1].seq
    BY <2>1 DEF Run
  <2> QED
    BY <2>1, <2>2, <2>3, <2>4
<1>4. StartOf(r, t) = IF n = 0 THEN StartOf(q, t) ELSE Stop(q[n])
  <2>1. CASE n = Len(q)
    <3>1. r = <<>>
      BY <1>1, <1>2, <2>1, SegmentQueue
    <3>2. n = 0 => q = <<>>
      BY <2>1, SegmentQueue
    <3>3. n # 0 => Stop(q[n]) = t
      BY <1>1, <2>1 DEF Run
    <3> QED
      BY <3>1, <3>2, <3>3 DEF StartOf
  <2>2. CASE n < Len(q)
    <3>1. r # <<>> /\ q # <<>> /\ 1 \in 1 .. Len(q) - n
      BY <1>1, <1>2, <2>2, SegmentQueue
    <3>2. r[1] = q[n + 1]
      BY <1>2, <3>1
    <3>3. n # 0 => Stop(q[n]) = q[n + 1].seq
      BY <1>1, <2>2 DEF Run
    <3> QED
      BY <1>1, <3>1, <3>2, <3>3 DEF StartOf
  <2> QED
    BY <1>1, <2>1, <2>2
<1> QED
  BY <1>2, <1>3, <1>4 DEF r

\* The first n segments of a run are a run.
LEMMA RunPrefix ==
  ASSUME NEW d, NEW q \in Seq(Segment), NEW t \in Nat, Run(q, t, d), NEW n \in 0 .. Len(q)
  PROVE  LET r == SubSeq(q, 1, n)
             x == StartOf(SubSeq(q, n + 1, Len(q)), t)
         IN  /\ r \in Seq(Segment) /\ Len(r) = n /\ Run(r, x, d)
             /\ \A i \in 1 .. n : r[i] = q[i]
             /\ StartOf(r, x) = StartOf(q, t)
<1> DEFINE r == SubSeq(q, 1, n)
           x == StartOf(SubSeq(q, n + 1, Len(q)), t)
<1>1. Len(q) \in Nat
  BY SegmentQueue
<1>2. r \in Seq(Segment) /\ Len(r) = n /\ \A i \in 1 .. n : r[i] = q[i]
  BY PrefixIs
<1>3. x = IF n = 0 THEN StartOf(q, t) ELSE Stop(q[n])
  BY RunSuffix
<1> HIDE DEF r, x
<1>4. Run(r, x, d)
  <2> SUFFICES ASSUME NEW i \in 1 .. Len(r)
               PROVE  Own(r[i], d) /\ Stop(r[i]) = IF i = Len(r) THEN x ELSE r[i + 1].seq
    BY DEF Run
  <2>1. i \in 1 .. Len(q) /\ r[i] = q[i] /\ (i # n => i + 1 \in 1 .. n /\ r[i + 1] = q[i + 1] /\ i # Len(q))
    BY <1>1, <1>2
  <2> QED
    BY <1>2, <1>3, <2>1 DEF Run
<1>5. StartOf(r, x) = StartOf(q, t)
  <2>1. CASE n = 0
    BY <1>2, <1>3, <2>1, SegmentQueue DEF StartOf
  <2>2. CASE n # 0
    <3>1. r # <<>> /\ q # <<>> /\ 1 \in 1 .. n
      BY <1>1, <1>2, <2>2, SegmentQueue
    <3> QED
      BY <1>2, <3>1 DEF StartOf
  <2> QED
    BY <2>1, <2>2
<1> QED
  BY <1>2, <1>4, <1>5 DEF r, x

\* A run that ends where another one starts continues it.
LEMMA RunConcat ==
  ASSUME NEW d, NEW u \in Seq(Segment), NEW v \in Seq(Segment), NEW t \in Nat,
         Run(u, StartOf(v, t), d), Run(v, t, d)
  PROVE  /\ u \o v \in Seq(Segment) /\ Len(u \o v) = Len(u) + Len(v)
         /\ \A i \in 1 .. Len(u) + Len(v) : (u \o v)[i] = IF i <= Len(u) THEN u[i] ELSE v[i - Len(u)]
         /\ Run(u \o v, t, d) /\ StartOf(u \o v, t) = StartOf(u, StartOf(v, t))
<1> DEFINE w == u \o v
<1>1. Len(u) \in Nat /\ Len(v) \in Nat /\ (u = <<>> <=> Len(u) = 0) /\ (v = <<>> <=> Len(v) = 0)
  BY SegmentQueue
<1>2. /\ w \in Seq(Segment) /\ Len(w) = Len(u) + Len(v)
      /\ \A i \in 1 .. Len(u) + Len(v) : w[i] = IF i <= Len(u) THEN u[i] ELSE v[i - Len(u)]
  BY ConcatProperties
<1> HIDE DEF w
<1>3. Run(w, t, d)
  <2> SUFFICES ASSUME NEW i \in 1 .. Len(w)
               PROVE  Own(w[i], d) /\ Stop(w[i]) = IF i = Len(w) THEN t ELSE w[i + 1].seq
    BY DEF Run
  <2>1. CASE i > Len(u)
    <3>1. i - Len(u) \in 1 .. Len(v) /\ w[i] = v[i - Len(u)]
      BY <1>1, <1>2, <2>1
    <3>2. i # Len(w) => w[i + 1] = v[i - Len(u) + 1] /\ i - Len(u) # Len(v)
      <4> HAVE i # Len(w)
      <4>1. i + 1 \in 1 .. Len(u) + Len(v) /\ ~(i + 1 <= Len(u)) /\ i + 1 - Len(u) = i - Len(u) + 1
        BY <1>1, <1>2, <2>1
      <4> QED
        BY <1>1, <1>2, <4>1
    <3>3. i = Len(w) => i - Len(u) = Len(v)
      BY <1>1, <1>2
    <3> QED
      BY <3>1, <3>2, <3>3 DEF Run
  <2>2. CASE i < Len(u)
    <3>1. i \in 1 .. Len(u) /\ i # Len(u) /\ i # Len(w) /\ w[i] = u[i] /\ w[i + 1] = u[i + 1]
      BY <1>1, <1>2, <2>2
    <3> QED
      BY <3>1 DEF Run
  <2>3. CASE i = Len(u)
    <3>1. i \in 1 .. Len(u) /\ w[i] = u[i]
      BY <1>1, <1>2, <2>3
    <3>2. Own(w[i], d) /\ Stop(w[i]) = StartOf(v, t)
      BY <2>3, <3>1 DEF Run
    <3>3. i = Len(w) => v = <<>>
      BY <1>1, <1>2, <2>3
    <3>4. i # Len(w) => v # <<>> /\ w[i + 1] = v[1]
      <4> HAVE i # Len(w)
      <4>1. i + 1 \in 1 .. Len(u) + Len(v) /\ ~(i + 1 <= Len(u)) /\ i + 1 - Len(u) = 1
        BY <1>1, <1>2, <2>3
      <4> QED
        BY <1>1, <1>2, <4>1, <2>3
    <3> QED
      BY <3>2, <3>3, <3>4 DEF StartOf
  <2> QED
    BY <1>1, <1>2, <2>1, <2>2, <2>3
<1>4. StartOf(w, t) = StartOf(u, StartOf(v, t))
  <2>1. CASE u # <<>>
    <3>1. w # <<>> /\ w[1] = u[1]
      BY <1>1, <1>2, <2>1, SegmentQueue
    <3> QED
      BY <2>1, <3>1 DEF StartOf
  <2>2. CASE u = <<>> /\ v # <<>>
    <3>1. w # <<>> /\ w[1] = v[1]
      <4>1. 1 \in 1 .. Len(u) + Len(v) /\ ~(1 <= Len(u)) /\ 1 - Len(u) = 1
        BY <1>1, <2>2
      <4> QED
        BY <1>1, <1>2, <4>1, SegmentQueue
    <3> QED
      BY <2>2, <3>1 DEF StartOf
  <2>3. CASE u = <<>> /\ v = <<>>
    <3>1. w = <<>>
      BY <1>1, <1>2, <2>3, SegmentQueue
    <3> QED
      BY <2>3, <3>1 DEF StartOf
  <2> QED
    BY <2>1, <2>2, <2>3
<1> QED
  BY <1>2, <1>3, <1>4 DEF w

\* What a queue's first segment says.
LEMMA QueueFacts ==
  ASSUME NEW d, FlowOK(d), NEW u \in Seq(Segment), NEW v \in Seq(Segment), NEW la \in Nat,
         Queue(u, v, la, d)
  PROVE  /\ Run(v, EndOf(d), d) /\ Run(u, StartOf(v, EndOf(d)), d)
         /\ EndOf(d) \in Nat /\ StartOf(v, EndOf(d)) \in Nat
         /\ la <= EndOf(d)
         /\ \A i \in 1 .. Len(u) : la < Stop(u[i])
         /\ \A i \in 1 .. Len(v) : la < Stop(v[i])
         /\ StartOf(u, StartOf(v, EndOf(d))) <= la
<1> DEFINE z == EndOf(d)
           x == StartOf(v, z)
<1>1. z \in Nat /\ Run(v, z, d) /\ Run(u, x, d)
  BY FlowFacts DEF Queue
<1>2. x \in Nat /\ x <= z
  BY <1>1, StartFacts
<1> HIDE DEF x, z
<1>3. /\ \A i \in 1 .. Len(u) : Stop(u[i]) <= x /\ Own(u[i], d) /\ Shaped(u[i])
      /\ \A i, j \in 1 .. Len(u) : i < j => Stop(u[i]) <= u[j].seq
  BY <1>1, <1>2, RunOrder
<1>4. /\ \A i \in 1 .. Len(v) : Stop(v[i]) <= z /\ Own(v[i], d) /\ Shaped(v[i]) /\ x <= v[i].seq
      /\ \A i, j \in 1 .. Len(v) : i < j => Stop(v[i]) <= v[j].seq
  BY <1>1, <1>2, RunOrder DEF x
<1>5. /\ \A i \in 1 .. Len(u) : u[i].seq \in Nat /\ Stop(u[i]) \in Nat /\ u[i].seq < Stop(u[i])
      /\ \A i \in 1 .. Len(v) : v[i].seq \in Nat /\ Stop(v[i]) \in Nat /\ v[i].seq < Stop(v[i])
  BY <1>3, <1>4, OwnFacts DEF Low
<1>6. /\ Len(u) \in Nat /\ Len(v) \in Nat /\ (u = <<>> <=> Len(u) = 0) /\ (v = <<>> <=> Len(v) = 0)
  BY SegmentQueue
<1>7. CASE u # <<>>
  <2>1. 1 \in 1 .. Len(u) /\ u[1].seq <= la /\ la < Stop(u[1])
    BY <1>6, <1>7 DEF Queue
  <2>2. \A i \in 1 .. Len(u) : la < Stop(u[i])
    <3> TAKE i \in 1 .. Len(u)
    <3>1. i = 1 \/ 1 < i
      OBVIOUS
    <3>2. 1 < i => Stop(u[1]) <= u[i].seq
      BY <1>3, <2>1
    <3> QED
      BY <1>5, <2>1, <3>1, <3>2
  <2>3. la < x
    BY <1>2, <1>3, <1>5, <2>1
  <2>4. \A i \in 1 .. Len(v) : la < Stop(v[i])
    BY <1>2, <1>4, <1>5, <2>3
  <2>5. StartOf(u, x) <= la
    BY <1>7, <2>1 DEF StartOf
  <2> QED
    BY <1>1, <1>2, <2>2, <2>3, <2>4, <2>5 DEF x, z
<1>8. CASE u = <<>> /\ v # <<>>
  <2>1. 1 \in 1 .. Len(v) /\ v[1].seq <= la /\ la < Stop(v[1]) /\ x = v[1].seq
    BY <1>6, <1>8 DEF Queue, StartOf, x
  <2>2. \A i \in 1 .. Len(v) : la < Stop(v[i])
    <3> TAKE i \in 1 .. Len(v)
    <3>1. i = 1 \/ 1 < i
      OBVIOUS
    <3>2. 1 < i => Stop(v[1]) <= v[i].seq
      BY <1>4, <2>1
    <3> QED
      BY <1>5, <2>1, <3>1, <3>2
  <2>3. la <= z
    BY <1>1, <1>4, <1>5, <2>1
  <2>4. StartOf(u, x) <= la
    BY <1>8, <2>1 DEF StartOf
  <2> QED
    BY <1>1, <1>2, <1>6, <1>8, <2>2, <2>3, <2>4 DEF x, z
<1>9. CASE u = <<>> /\ v = <<>>
  <2>1. la = z /\ x = z /\ StartOf(u, x) = x
    BY <1>9 DEF Queue, StartOf, x, z
  <2> QED
    BY <1>1, <1>2, <1>6, <1>9, <2>1 DEF x, z
<1> QED
  BY <1>7, <1>8, <1>9

\* tcp_output moves segments from the front of unsent to the end of unacked.
LEMMA QueueOutput ==
  ASSUME NEW d, FlowOK(d), NEW u \in Seq(Segment), NEW v \in Seq(Segment), NEW la \in Nat,
         Queue(u, v, la, d), NEW n \in 0 .. Len(v)
  PROVE  LET s == SubSeq(v, 1, n)
             r == SubSeq(v, n + 1, Len(v))
         IN  /\ s \in Seq(Segment) /\ r \in Seq(Segment) /\ u \o s \in Seq(Segment)
             /\ Len(s) = n /\ Len(r) = Len(v) - n /\ Len(u \o s) = Len(u) + n
             /\ \A i \in 1 .. n : s[i] = v[i]
             /\ \A i \in 1 .. Len(u) + n : (u \o s)[i] = IF i <= Len(u) THEN u[i] ELSE s[i - Len(u)]
             /\ Queue(u \o s, r, la, d)
<1> DEFINE s == SubSeq(v, 1, n)
           r == SubSeq(v, n + 1, Len(v))
           z == EndOf(d)
<1>1. z \in Nat /\ Run(v, z, d) /\ Run(u, StartOf(v, z), d)
  BY QueueFacts
<1>2. r \in Seq(Segment) /\ Len(r) = Len(v) - n /\ Run(r, z, d)
      /\ \A i \in 1 .. Len(r) : r[i] = v[n + i]
  BY <1>1, RunSuffix
<1>3. s \in Seq(Segment) /\ Len(s) = n /\ Run(s, StartOf(r, z), d)
      /\ (\A i \in 1 .. n : s[i] = v[i]) /\ StartOf(s, StartOf(r, z)) = StartOf(v, z)
  BY <1>1, RunPrefix
<1>4. StartOf(r, z) \in Nat
  BY <1>1, <1>2, StartFacts
<1> HIDE DEF s, r, z
<1>5. /\ u \o s \in Seq(Segment) /\ Len(u \o s) = Len(u) + n
      /\ \A i \in 1 .. Len(u) + n : (u \o s)[i] = IF i <= Len(u) THEN u[i] ELSE s[i - Len(u)]
      /\ Run(u \o s, StartOf(r, z), d)
  BY <1>1, <1>3, <1>4, RunConcat, ZenonT(60)
<1>6. /\ Len(u) \in Nat /\ Len(v) \in Nat /\ (u = <<>> <=> Len(u) = 0) /\ (v = <<>> <=> Len(v) = 0)
      /\ (r = <<>> <=> Len(r) = 0) /\ (u \o s = <<>> <=> Len(u \o s) = 0)
  BY <1>2, <1>5, SegmentQueue
<1>7. CASE u # <<>>
  <2>1. u \o s # <<>> /\ (u \o s)[1] = u[1]
    BY <1>5, <1>6, <1>7
  <2> QED
    BY <1>1, <1>2, <1>3, <1>5, <1>7, <2>1 DEF Queue, s, r, z
<1>8. CASE u = <<>> /\ n > 0
  <2>1. v # <<>> /\ s[1] = v[1] /\ u \o s # <<>>
    BY <1>3, <1>5, <1>6, <1>8
  <2>2. (u \o s)[1] = v[1]
    <3>1. 1 \in 1 .. Len(u) + n /\ ~(1 <= Len(u)) /\ 1 - Len(u) = 1
      BY <1>6, <1>8
    <3> QED
      BY <1>5, <2>1, <3>1
  <2> QED
    BY <1>1, <1>2, <1>3, <1>5, <1>8, <2>1, <2>2 DEF Queue, s, r, z
<1>9. CASE u = <<>> /\ n = 0
  <2>1. u \o s = <<>> /\ Len(r) = Len(v)
    BY <1>2, <1>5, <1>6, <1>9
  <2>2. (v = <<>> <=> r = <<>>) /\ (r # <<>> => r[1] = v[1])
    <3>1. v = <<>> <=> r = <<>>
      BY <1>6, <2>1
    <3>2. r # <<>> => 1 \in 1 .. Len(r) /\ n + 1 = 1
      BY <1>2, <1>6, <1>9, <2>1
    <3> QED
      BY <1>2, <3>1, <3>2
  <2> QED
    BY <1>1, <1>2, <1>3, <1>5, <1>9, <2>1, <2>2 DEF Queue, s, r, z
<1> QED
  BY <1>7, <1>8, <1>9

\* A time-out moves all segments back.
LEMMA QueueRto ==
  ASSUME NEW d, FlowOK(d), NEW u \in Seq(Segment), NEW v \in Seq(Segment), NEW la \in Nat,
         Queue(u, v, la, d)
  PROVE  u \o v \in Seq(Segment) /\ Queue(<<>>, u \o v, la, d)
<1> DEFINE z == EndOf(d)
<1>1. z \in Nat /\ Run(v, z, d) /\ Run(u, StartOf(v, z), d)
  BY QueueFacts
<1>2. /\ u \o v \in Seq(Segment) /\ Len(u \o v) = Len(u) + Len(v)
      /\ \A i \in 1 .. Len(u) + Len(v) : (u \o v)[i] = IF i <= Len(u) THEN u[i] ELSE v[i - Len(u)]
      /\ Run(u \o v, z, d)
  BY <1>1, RunConcat
<1>3. Run(<<>>, StartOf(u \o v, z), d)
  BY RunEmpty
<1>4. /\ Len(u) \in Nat /\ Len(v) \in Nat /\ (u = <<>> <=> Len(u) = 0) /\ (v = <<>> <=> Len(v) = 0)
      /\ (u \o v = <<>> <=> Len(u \o v) = 0)
  BY <1>2, SegmentQueue
<1> HIDE DEF z
<1>5. CASE u # <<>>
  <2>1. (u \o v)[1] = u[1] /\ u \o v # <<>>
    BY <1>2, <1>4, <1>5
  <2> QED
    BY <1>2, <1>3, <1>5, <2>1 DEF Queue, z
<1>6. CASE u = <<>> /\ v # <<>>
  <2>1. (u \o v)[1] = v[1] /\ u \o v # <<>>
    <3>1. 1 \in 1 .. Len(u) + Len(v) /\ ~(1 <= Len(u)) /\ 1 - Len(u) = 1
      BY <1>4, <1>6
    <3> QED
      BY <1>2, <1>4, <3>1
  <2> QED
    BY <1>2, <1>3, <1>6, <2>1 DEF Queue, z
<1>7. CASE u = <<>> /\ v = <<>>
  <2>1. u \o v = <<>>
    BY <1>2, <1>4, <1>7
  <2> QED
    BY <1>2, <1>3, <1>7, <2>1 DEF Queue, z
<1> QED
  BY <1>5, <1>6, <1>7

\* An acknowledgement takes off what it covers.
LEMMA QueueAck ==
  ASSUME NEW d, FlowOK(d), NEW u \in Seq(Segment), NEW v \in Seq(Segment), NEW la \in Nat,
         Queue(u, v, la, d), NEW ack \in Nat, la < ack, ack <= EndOf(d),
         NEW n \in 0 .. Len(u), NEW m \in 0 .. Len(v),
         \A i \in 1 .. n : Stop(u[i]) <= ack, n < Len(u) => ~(Stop(u[n + 1]) <= ack),
         \A i \in 1 .. m : Stop(v[i]) <= ack, m < Len(v) => ~(Stop(v[m + 1]) <= ack)
  PROVE  LET a == SubSeq(u, n + 1, Len(u))
             b == SubSeq(v, m + 1, Len(v))
         IN  /\ a \in Seq(Segment) /\ b \in Seq(Segment)
             /\ Len(a) = Len(u) - n /\ \A i \in 1 .. Len(a) : a[i] = u[n + i]
             /\ Queue(a, b, ack, d)
<1> DEFINE z == EndOf(d)
           x == StartOf(v, z)
           a == SubSeq(u, n + 1, Len(u))
           b == SubSeq(v, m + 1, Len(v))
<1>1. z \in Nat /\ Run(v, z, d) /\ Run(u, x, d) /\ x \in Nat /\ StartOf(u, x) <= la
  BY QueueFacts
<1> HIDE DEF x, z
<1>2. /\ a \in Seq(Segment) /\ Len(a) = Len(u) - n /\ Run(a, x, d)
      /\ \A i \in 1 .. Len(a) : a[i] = u[n + i]
      /\ StartOf(a, x) = IF n = 0 THEN StartOf(u, x) ELSE Stop(u[n])
  BY ONLY <1>1, u \in Seq(Segment), n \in 0 .. Len(u), RunSuffix, ZenonT(60)
<1>3. /\ b \in Seq(Segment) /\ Len(b) = Len(v) - m /\ Run(b, z, d)
      /\ \A i \in 1 .. Len(b) : b[i] = v[m + i]
      /\ StartOf(b, z) = IF m = 0 THEN x ELSE Stop(v[m])
  BY ONLY <1>1, v \in Seq(Segment), m \in 0 .. Len(v), RunSuffix, ZenonT(60) DEF x
<1>4. /\ \A i \in 1 .. Len(u) : Stop(u[i]) <= x /\ Own(u[i], d) /\ Shaped(u[i])
  BY ONLY <1>1, FlowOK(d), u \in Seq(Segment), RunOrder
<1>5. /\ \A i \in 1 .. Len(v) : Own(v[i], d) /\ Shaped(v[i]) /\ x <= v[i].seq
  BY ONLY <1>1, FlowOK(d), v \in Seq(Segment), RunOrder DEF x
<1>6. /\ \A i \in 1 .. Len(u) : u[i].seq \in Nat /\ Stop(u[i]) \in Nat /\ u[i].seq < Stop(u[i])
      /\ \A i \in 1 .. Len(v) : v[i].seq \in Nat /\ Stop(v[i]) \in Nat /\ v[i].seq < Stop(v[i])
  BY ONLY <1>4, <1>5, FlowOK(d), OwnFacts DEF Low
<1> HIDE DEF a, b
<1>7. /\ Len(u) \in Nat /\ Len(v) \in Nat /\ (u = <<>> <=> Len(u) = 0) /\ (v = <<>> <=> Len(v) = 0)
      /\ (a = <<>> <=> Len(a) = 0) /\ (b = <<>> <=> Len(b) = 0) /\ StartOf(u, x) \in Int
  <2>1. StartOf(u, x) \in Nat
    BY ONLY <1>1, FlowOK(d), u \in Seq(Segment), StartFacts
  <2>2. Len(u) \in Nat /\ Len(v) \in Nat /\ (u = <<>> <=> Len(u) = 0) /\ (v = <<>> <=> Len(v) = 0)
    BY ONLY u \in Seq(Segment), v \in Seq(Segment), SegmentQueue
  <2>3. a \in Seq(Segment) /\ b \in Seq(Segment)
    BY <1>2, <1>3
  <2>4. (a = <<>> <=> Len(a) = 0) /\ (b = <<>> <=> Len(b) = 0)
    BY ONLY <2>3, SegmentQueue
  <2> QED
    BY <2>1, <2>2, <2>4
<1>8. StartOf(a, x) <= ack
  <2>1. n \in Nat /\ (n # 0 => n \in 1 .. n)
    BY <1>7
  <2>2. CASE n = 0
    BY <1>1, <1>2, <1>7, <2>2
  <2>3. CASE n # 0
    BY <1>2, <2>1, <2>3
  <2> QED
    BY <2>2, <2>3
<1>9. n < Len(u) => m = 0
  <2> SUFFICES ASSUME n < Len(u), m # 0 PROVE FALSE
    OBVIOUS
  <2>1. n + 1 \in 1 .. Len(u) /\ 1 \in 1 .. m /\ 1 \in 1 .. Len(v)
    BY <1>7
  <2>2. Stop(u[n + 1]) <= x /\ x <= v[1].seq /\ v[1].seq < Stop(v[1]) /\ Stop(v[1]) <= ack
    BY <1>4, <1>5, <1>6, <2>1
  <2>3. Stop(u[n + 1]) \in Nat /\ v[1].seq \in Nat /\ Stop(v[1]) \in Nat
    BY <1>6, <2>1
  <2> QED
    BY <1>1, <2>2, <2>3
<1>10. Run(a, StartOf(b, z), d)
  <2>1. CASE n < Len(u)
    BY <1>2, <1>3, <1>9, <2>1
  <2>2. CASE n = Len(u)
    BY <1>2, <1>7, <2>2, RunEmpty
  <2> QED
    BY <1>7, <2>1, <2>2
<1>11. a # <<>> => a[1].seq <= ack /\ ack < Stop(a[1])
  <2> HAVE a # <<>>
  <2>1. n < Len(u) /\ 1 \in 1 .. Len(a) /\ n + 1 \in 1 .. Len(u)
    BY <1>2, <1>7
  <2>2. a[1] = u[n + 1] /\ Stop(u[n + 1]) \in Nat
    BY <1>2, <1>6, <2>1
  <2>3. StartOf(a, x) = a[1].seq
    BY DEF StartOf
  <2> QED
    BY <1>8, <2>1, <2>2, <2>3
<1>12. a = <<>> => StartOf(b, z) <= ack
  <2> HAVE a = <<>>
  <2>1. x <= ack
    BY <1>8 DEF StartOf
  <2>2. m # 0 => m \in 1 .. m
    BY <1>7
  <2> QED
    BY <1>3, <2>1, <2>2
<1>13. a = <<>> /\ b # <<>> => b[1].seq <= ack /\ ack < Stop(b[1])
  <2> HAVE a = <<>> /\ b # <<>>
  <2>1. m < Len(v) /\ 1 \in 1 .. Len(b) /\ m + 1 \in 1 .. Len(v)
    BY <1>3, <1>7
  <2>2. b[1] = v[m + 1] /\ Stop(v[m + 1]) \in Nat
    BY <1>3, <1>6, <2>1
  <2>3. StartOf(b, z) = b[1].seq
    BY DEF StartOf
  <2> QED
    BY <1>12, <2>1, <2>2, <2>3
<1>14. a = <<>> /\ b = <<>> => ack = z
  <2> HAVE a = <<>> /\ b = <<>>
  <2>1. z <= ack
    BY <1>12 DEF StartOf
  <2> QED
    BY <1>1, <2>1 DEF z
<1>15. Queue(a, b, ack, d)
  BY <1>3, <1>10, <1>11, <1>13, <1>14 DEF Queue, z
<1> QED
  BY <1>2, <1>3, <1>15 DEF a, b

-----------------------------------------------------------------------------
(* After, TakenAll and FlattenSeq on such queues *)

\* What an acknowledgement takes from unacked (tcp_receive) is a prefix: the segments it covers.
LEMMA AckedPrefix ==
  ASSUME NEW d, FlowOK(d), NEW q \in Seq(Segment), \A i \in 1 .. Len(q) : Own(q[i], d) /\ Shaped(q[i]),
         NEW ack \in Low
  PROVE  \E n \in 0 .. Len(q) :
           /\ After(q, LAMBDA s : LEQ(End(s), ack)) = SubSeq(q, n + 1, Len(q))
           /\ \A i \in 1 .. n : Stop(q[i]) <= ack
           /\ n < Len(q) => ~(Stop(q[n + 1]) <= ack)
<1> DEFINE T == {i \in 1 .. Len(q) : LEQ(End(q[i]), ack)}
           n == Cardinality({k \in 1 .. Len(q) : \A i \in 1 .. k : i \in T})
<1>1. Len(q) \in Nat
  BY SegmentQueue
<1>2. \A i \in 1 .. Len(q) : i \in T <=> Stop(q[i]) <= ack
  BY OwnFacts, LowOrder
<1>3. {k \in 1 .. Len(q) : \A i \in 1 .. k : LEQ(End(q[i]), ack)}
        = {k \in 1 .. Len(q) : \A i \in 1 .. k : i \in T}
  BY <1>1
<1>4. After(q, LAMBDA s : LEQ(End(s), ack)) = SubSeq(q, n + 1, Len(q))
  BY <1>3 DEF After
<1> HIDE DEF T
<1>5. n \in 0 .. Len(q) /\ (\A i \in 1 .. n : i \in T) /\ (n < Len(q) => n + 1 \notin T)
  BY <1>1, PrefixCount
<1> HIDE DEF n
<1>6. (\A i \in 1 .. n : Stop(q[i]) <= ack) /\ (n < Len(q) => ~(Stop(q[n + 1]) <= ack))
  BY <1>1, <1>2, <1>5
<1> QED
  BY <1>4, <1>5, <1>6

\* What an acknowledgement takes from unsent is a prefix too: the segments it covers.
LEMMA UnsentPrefix ==
  ASSUME NEW d, FlowOK(d), NEW q \in Seq(Segment), \A i \in 1 .. Len(q) : Own(q[i], d) /\ Shaped(q[i]),
         NEW ack \in Low, NEW nxt \in Low, ack <= nxt
  PROVE  \E n \in 0 .. Len(q) :
           /\ After(q, LAMBDA s : Between(ack, End(s), nxt)) = SubSeq(q, n + 1, Len(q))
           /\ \A i \in 1 .. n : Stop(q[i]) <= ack
           /\ n < Len(q) => ~(Stop(q[n + 1]) <= ack)
<1> DEFINE T == {i \in 1 .. Len(q) : Between(ack, End(q[i]), nxt)}
           n == Cardinality({k \in 1 .. Len(q) : \A i \in 1 .. k : i \in T})
<1>1. Len(q) \in Nat
  BY SegmentQueue
<1>2. \A i \in 1 .. Len(q) : i \in T <=> Stop(q[i]) <= ack
  BY OwnFacts, LowOrder DEF Between
<1>3. {k \in 1 .. Len(q) : \A i \in 1 .. k : Between(ack, End(q[i]), nxt)}
        = {k \in 1 .. Len(q) : \A i \in 1 .. k : i \in T}
  BY <1>1
<1>4. After(q, LAMBDA s : Between(ack, End(s), nxt)) = SubSeq(q, n + 1, Len(q))
  BY <1>3 DEF After
<1> HIDE DEF T
<1>5. n \in 0 .. Len(q) /\ (\A i \in 1 .. n : i \in T) /\ (n < Len(q) => n + 1 \notin T)
  BY <1>1, PrefixCount
<1> HIDE DEF n
<1>6. (\A i \in 1 .. n : Stop(q[i]) <= ack) /\ (n < Len(q) => ~(Stop(q[n + 1]) <= ack))
  BY <1>1, <1>2, <1>5
<1> QED
  BY <1>4, <1>5, <1>6

\* The segments tcp_output sends fit into the window.
LEMMA SendableIs ==
  ASSUME NEW d, FlowOK(d), NEW p \in Block, NEW la \in Low, p.lastack = la,
         \A i \in 1 .. Len(p.unsent) : Own(p.unsent[i], d) /\ Shaped(p.unsent[i]) /\ la < Stop(p.unsent[i]),
         p.snd_wnd <= Wnd
  PROVE  /\ Sendable(p) \in 0 .. Len(p.unsent)
         /\ \A i \in 1 .. Sendable(p) :
              /\ p.unsent[i].seq + p.unsent[i].len <= la + p.snd_wnd
              /\ p.unsent[i].seq + p.unsent[i].len <= la + p.cwnd
         /\ Sendable(p) < Len(p.unsent) =>
              LET s == p.unsent[Sendable(p) + 1]
              IN  s.seq + s.len > la + p.snd_wnd \/ s.seq + s.len > la + p.cwnd
<1> DEFINE q == p.unsent
           wnd == LeastOf(p.snd_wnd, p.cwnd)
           fits(i) == (Diff(q[i].seq, la) + q[i].len) % SeqSpace <= wnd
           T == {i \in 1 .. Len(q) : fits(i)}
           n == Cardinality({k \in 1 .. Len(q) : \A i \in 1 .. k : i \in T})
<1>1. q \in Seq(Segment) /\ Len(q) \in Nat /\ p.snd_wnd \in Nat /\ p.cwnd \in Nat
  BY SegmentQueue DEF Block
<1>2. /\ wnd \in Nat /\ \A x \in Int : x <= wnd <=> x <= p.snd_wnd /\ x <= p.cwnd
  BY <1>1 DEF LeastOf
<1>12. wnd \in Nat /\ wnd <= p.snd_wnd /\ wnd <= p.cwnd /\ (wnd = p.snd_wnd \/ wnd = p.cwnd)
  BY <1>1 DEF LeastOf
<1> HIDE DEF wnd
<1>3. ASSUME NEW i \in 1 .. Len(q)
      PROVE  fits(i) <=> q[i].seq + q[i].len <= la + wnd
  <2> DEFINE s == q[i]
  <2>1. Own(s, d) /\ Shaped(s) /\ la < Stop(s)
    OBVIOUS
  <2> HIDE DEF s
  <2>2. /\ s.seq \in Low /\ s.seq + s.len \in Low /\ s.len \in Nat /\ Stop(s) = s.seq + TcpLen(s)
        /\ TcpLen(s) = s.len + (IF s.fin THEN 1 ELSE 0) /\ s.seq \in Nat
    BY <2>1, OwnFacts DEF Shaped
  <2>3. s.seq + s.len >= la /\ la \in Nat
    BY <2>1, <2>2 DEF Low
  <2>4. (Diff(s.seq, la) + s.len) % SeqSpace = s.seq + s.len - la
    <3>1. CASE s.seq >= la
      <4>1. Diff(s.seq, la) + s.len = s.seq + s.len - la
        BY <2>2, <2>3, <3>1, LowDiff
      <4>2. s.seq + s.len - la \in 0 .. SeqSpace - 1
        BY <2>2, <2>3, SizeFacts DEF Low
      <4> QED
        BY <4>1, <4>2, Modulo
    <3>2. CASE s.seq < la
      <4>1. (Diff(s.seq, la) + s.len) = s.seq + s.len - la + SeqSpace
        BY <2>2, <2>3, <3>2, LowDiff, SizeFacts
      <4>2. s.seq + s.len - la \in 0 .. SeqSpace - 1 /\ SeqSpace \in Nat \ {0}
        BY <2>2, <2>3, SizeFacts, SMTT(30) DEF Low
      <4>3. \A x \in 0 .. SeqSpace - 1 : (x + SeqSpace) % SeqSpace = x
        BY SizeFacts
      <4> QED
        BY <4>1, <4>2, <4>3
    <3> QED
      BY <2>2, <2>3, <3>1, <3>2
  <2> QED
    BY <1>2, <2>2, <2>3, <2>4 DEF s
<1>4. {k \in 1 .. Len(q) : \A i \in 1 .. k : fits(i)}
        = {k \in 1 .. Len(q) : \A i \in 1 .. k : i \in T}
  BY <1>1
<1>5. Sendable(p) = n
  BY <1>4 DEF Sendable, wnd
<1>6. \A i \in 1 .. Len(q) : i \in T <=> q[i].seq + q[i].len <= la + wnd
  BY <1>3
<1> HIDE DEF T
<1>7. n \in 0 .. Len(q) /\ (\A i \in 1 .. n : i \in T) /\ (n < Len(q) => n + 1 \notin T)
  BY <1>1, PrefixCount
<1> HIDE DEF n
<1>8. \A i \in 1 .. Len(q) : q[i].seq \in Nat /\ q[i].len \in Nat
  BY DEF Shaped
<1>9. la \in Nat
  BY DEF Low
<1>10. ASSUME NEW i \in 1 .. n
       PROVE  q[i].seq + q[i].len <= la + p.snd_wnd /\ q[i].seq + q[i].len <= la + p.cwnd
  <2>1. i \in 1 .. Len(q) /\ q[i].seq + q[i].len <= la + wnd
    BY <1>1, <1>6, <1>7
  <2>2. q[i].seq \in Nat /\ q[i].len \in Nat
    BY <1>8, <2>1
  <2> QED
    BY ONLY <1>1, <1>12, <1>9, <2>1, <2>2, SMTT(30)
<1>11. ASSUME n < Len(q)
       PROVE  q[n + 1].seq + q[n + 1].len > la + p.snd_wnd \/ q[n + 1].seq + q[n + 1].len > la + p.cwnd
  <2> DEFINE s == q[n + 1]
             a == s.seq + s.len
  <2>1. n + 1 \in 1 .. Len(q) /\ ~(a <= la + wnd)
    BY <1>1, <1>6, <1>7, <1>11
  <2>2. a \in Nat
    BY <1>8, <2>1
  <2> HIDE DEF a
  <2>3. a > la + p.snd_wnd \/ a > la + p.cwnd
    BY ONLY <1>1, <1>12, <1>9, <2>1, <2>2
  <2> QED
    BY <2>3 DEF a
<1> QED
  BY <1>5, <1>7, <1>10, <1>11

\* TakenAll, for any function that takes the segments one by one.
LEMMA TakenAllIs ==
  ASSUME NEW p, NEW segs, Len(segs) \in Nat, NEW G, G = [i \in 0 .. Len(segs) |-> G[i]],
         G[0] = p, \A i \in 1 .. Len(segs) : G[i] = Taken(G[i - 1], segs[i])
  PROVE  TakenAll(p, segs) = G[Len(segs)]
<1> DEFINE n == Len(segs)
           taken[i \in 0 .. n] == IF i = 0 THEN p ELSE Taken(taken[i - 1], segs[i])
<1>1. G = [i \in 0 .. n |-> IF i = 0 THEN p ELSE Taken(G[i - 1], segs[i])]
  OBVIOUS
<1>2. taken = [i \in 0 .. n |-> IF i = 0 THEN p ELSE Taken(taken[i - 1], segs[i])]
  BY <1>1
<1>3. TakenAll(p, segs) = taken[n]
  BY DEF TakenAll
<1> HIDE DEF taken
<1>4. \A i \in 0 .. n : taken[i] = G[i]
  <2> DEFINE B == {i \in 0 .. n : taken[i] # G[i]}
  <2> SUFFICES ASSUME B # {} PROVE FALSE
    OBVIOUS
  <2>0. B \subseteq Nat
    OBVIOUS
  <2>1. PICK i \in B : \A k \in B : i <= k
    BY ONLY <2>0, B # {}, LeastNat
  <2>2. i # 0
    BY <1>2, <2>1
  <2>3. i - 1 \in 0 .. n /\ i - 1 \notin B /\ i \in 1 .. n
    BY <2>1, <2>2
  <2>4. taken[i - 1] = G[i - 1]
    BY <2>3
  <2>5. taken[i] = Taken(taken[i - 1], segs[i])
    BY <1>2, <2>3
  <2> QED
    BY <2>1, <2>3, <2>4, <2>5
<1> QED
  BY <1>3, <1>4

\* FlattenSeq, for any function that appends the sequences one by one.
LEMMA FlattenIs ==
  ASSUME NEW segs, Len(segs) \in Nat \ {0}, NEW G, G = [i \in 1 .. Len(segs) |-> G[i]],
         G[1] = segs[1], \A i \in 2 .. Len(segs) : G[i] = G[i - 1] \o segs[i]
  PROVE  FlattenSeq(segs) = G[Len(segs)]
<1> DEFINE n == Len(segs)
           flatten[i \in 1 .. n] == IF i = 1 THEN segs[i] ELSE flatten[i-1] \o segs[i]
<1>1. G = [i \in 1 .. n |-> IF i = 1 THEN segs[i] ELSE G[i-1] \o segs[i]]
  <2>1. ASSUME NEW i \in 1 .. n
        PROVE  G[i] = IF i = 1 THEN segs[i] ELSE G[i-1] \o segs[i]
    <3>1. i = 1 \/ i \in 2 .. n
      OBVIOUS
    <3> QED
      BY <3>1
  <2> QED
    BY <2>1
<1>2. flatten = [i \in 1 .. n |-> IF i = 1 THEN segs[i] ELSE flatten[i-1] \o segs[i]]
  BY <1>1
<1>3. FlattenSeq(segs) = flatten[n]
  BY DEF FlattenSeq
<1> HIDE DEF flatten
<1>4. \A i \in 1 .. n : flatten[i] = G[i]
  <2> DEFINE B == {i \in 1 .. n : flatten[i] # G[i]}
  <2> SUFFICES ASSUME B # {} PROVE FALSE
    OBVIOUS
  <2>0. B \subseteq Nat
    OBVIOUS
  <2>1. PICK i \in B : \A k \in B : i <= k
    BY ONLY <2>0, B # {}, LeastNat
  <2>2. i # 1
    BY <1>2, <2>1
  <2>3. i - 1 \in 1 .. n /\ i - 1 \notin B /\ i \in 2 .. n
    BY <2>1, <2>2
  <2>4. flatten[i - 1] = G[i - 1]
    BY <2>3
  <2>5. flatten[i] = flatten[i - 1] \o segs[i]
    BY <1>2, <2>3
  <2> QED
    BY <2>1, <2>3, <2>4, <2>5
<1> QED
  BY <1>3, <1>4

-----------------------------------------------------------------------------
(* Frames, and directions that grow *)

\* Finite sets of frames, the work of a call, and its frames being right.
Frames == {F \in SUBSET Frame : IsFiniteSet(F)}
WorkSet == [p : Block, out : Frames, data : Seq(Nat), fin : BOOLEAN, now : BOOLEAN]
FramesOK(w, d, r) ==
  \A s \in w.out : FrameOK(s, d, r) /\ (~s.rst => s.ack + s.wnd <= w.p.edge)

\* Finite sets of frames can be joined.
LEMMA FramesIs ==
  /\ {} \in Frames /\ \A o \in Frames : o \subseteq Frame
  /\ \A o \in Frames, s \in Frame : o \cup {s} \in Frames
  /\ \A o, q \in Frames : o \cup q \in Frames
<1>1. IsFiniteSet({})
  BY FS_EmptySet
<1>2. \A o \in Frames, s \in Frame : o \cup {s} \in Frames
  <2> SUFFICES ASSUME NEW o \in Frames, NEW s \in Frame PROVE IsFiniteSet(o \cup {s})
    BY DEF Frames
  <2>1. IsFiniteSet(o)
    BY DEF Frames
  <2> QED
    BY <2>1, FS_AddElement
<1>3. \A o, q \in Frames : o \cup q \in Frames
  <2> SUFFICES ASSUME NEW o \in Frames, NEW q \in Frames PROVE IsFiniteSet(o \cup q)
    BY DEF Frames
  <2>1. IsFiniteSet(o) /\ IsFiniteSet(q)
    BY DEF Frames
  <2> QED
    BY <2>1, FS_Union
<1> QED
  BY <1>1, <1>2, <1>3 DEF Frames

\* As many frames as there are segments.
LEMMA ShotsFrames ==
  ASSUME NEW n \in Nat, NEW f, NEW o, o \subseteq Frame,
         \A i \in 1 .. n : f[i] \in o, \A s \in o : \E i \in 1 .. n : s = f[i]
  PROVE  o \in Frames
<1> DEFINE g == [i \in 1 .. n |-> f[i]]
<1>1. g \in Surjection(1 .. n, o)
  BY DEF Surjection
<1>2. ExistsSurjection(1 .. n, o)
  BY <1>1 DEF ExistsSurjection
<1>3. IsFiniteSet(o)
  BY <1>2, FS_NatSurjection
<1> QED
  BY <1>3 DEF Frames

\* What is said of segments and queues depends on what is written and closed only.
LEMMA SameStream ==
  ASSUME NEW d, NEW b, b.first = d.first, b.written = d.written, b.closed = d.closed
  PROVE  /\ EndOf(b) = EndOf(d)
         /\ \A s : Own(s, b) <=> Own(s, d)
         /\ \A q, t : Run(q, t, b) <=> Run(q, t, d)
         /\ \A u, v, la : Queue(u, v, la, b) <=> Queue(u, v, la, d)
<1>1. EndOf(b) = EndOf(d)
  BY DEF EndOf
<1>2. \A s : Own(s, b) <=> Own(s, d)
  BY DEF Own
<1>3. \A q, t : Run(q, t, b) <=> Run(q, t, d)
  BY <1>2 DEF Run
<1>4. \A u, v, la : Queue(u, v, la, b) <=> Queue(u, v, la, d)
  BY <1>1, <1>3 DEF Queue
<1> QED
  BY <1>1, <1>2, <1>3, <1>4

\* A direction at a later time.
Grown(d, b) ==
  /\ b.first = d.first /\ d.written <= b.written /\ (d.closed => b.closed /\ b.written = d.written)
  /\ d.sent <= b.sent /\ d.got <= b.got /\ d.limit <= b.limit

\* A segment of a stream stays one as the stream grows.
LEMMA GrownOwn ==
  ASSUME NEW d, FlowOK(d), NEW b, FlowOK(b), Grown(d, b), NEW s, Shaped(s), Own(s, d)
  PROVE  Own(s, b)
BY FlowFacts DEF Own, Grown, Shaped

\* A frame that was right stays right as the streams grow, so that a late copy does no harm.
LEMMA GrownFrame ==
  ASSUME NEW d, FlowOK(d), NEW b, FlowOK(b), Grown(d, b),
         NEW r, FlowOK(r), NEW t, FlowOK(t), Grown(r, t),
         NEW s \in Frame, FrameOK(s, d, r)
  PROVE  FrameOK(s, b, t)
<1>1. Shaped(s) /\ s.seq \in Nat /\ s.len \in Nat /\ s.fin \in BOOLEAN /\ s.ack \in Nat /\ s.wnd \in Nat
  BY SegmentShape DEF Frame
<1>2. Stop(s) \in Nat
  BY <1>1 DEF Stop, TcpLen
<1>3. /\ d.first \in Nat /\ d.sent \in Nat /\ d.limit \in Nat /\ b.sent \in Nat /\ b.limit \in Nat
      /\ r.first \in Nat /\ r.got \in Nat /\ t.got \in Nat
  BY FlowFacts
<1>4. Own(s, d) => Own(s, b)
  BY <1>1, GrownOwn
<1>5. b.first = d.first /\ d.sent <= b.sent /\ d.limit <= b.limit /\ t.first = r.first /\ r.got <= t.got
  BY DEF Grown
<1> QED
  BY <1>1, <1>2, <1>3, <1>4, <1>5 DEF FrameOK

\* The right edge moves to what the frame announces (tcp_output_segment, tcp_send_empty_ack).
LEMMA AnnouncedIs ==
  ASSUME NEW r, FlowOK(r), NEW p \in Block, Rcv(p, r)
  PROVE  /\ Announced(p) = [p EXCEPT !.edge = p.rcv_nxt + p.rcv_ann_wnd]
         /\ p.rcv_nxt + p.rcv_ann_wnd \in Nat
         /\ p.edge \in Nat /\ p.edge <= p.rcv_nxt + p.rcv_ann_wnd
         /\ p.rcv_nxt \in Nat /\ p.rcv_ann_wnd \in Nat
         /\ p.rcv_nxt = r.first + r.got /\ p.rcv_nxt + Wnd \in Low
<1>1. p.rcv_nxt \in Nat /\ p.rcv_ann_wnd \in Int /\ p.edge \in Nat
  BY DEF Block
<1>2. /\ p.rcv_nxt = r.first + r.got /\ Wnd - Mss <= p.rcv_ann_wnd /\ p.rcv_ann_wnd <= Wnd
      /\ p.edge <= p.rcv_nxt + p.rcv_ann_wnd
  BY DEF Rcv
<1>3. p.rcv_nxt + Wnd + 1 < Half
  BY <1>1, <1>2, FlowFacts, SizeFacts
<1>4. p.rcv_ann_wnd \in Nat /\ p.rcv_nxt + p.rcv_ann_wnd \in Low /\ p.rcv_nxt + Wnd \in Low
  BY <1>1, <1>2, <1>3, SizeFacts DEF Low
<1>5. Add(p.rcv_nxt, p.rcv_ann_wnd) = p.rcv_nxt + p.rcv_ann_wnd
  BY <1>1, <1>4, LowAdd
<1> QED
  BY <1>1, <1>2, <1>4, <1>5 DEF Announced, Low

\* A segment that was sent is a right frame.
LEMMA SentFrame ==
  ASSUME NEW d, FlowOK(d), NEW r, FlowOK(r), NEW p \in Block, Rcv(p, r),
         NEW s, Shaped(s), d.first <= s.seq, Stop(s) <= d.sent, TcpLen(s) > 0 => Own(s, d),
         s.len > 0 => s.seq + s.len <= d.limit
  PROVE  /\ Sent(p, s) \in Frame /\ FrameOK(Sent(p, s), d, r)
         /\ ~Sent(p, s).rst
         /\ Sent(p, s).ack + Sent(p, s).wnd = p.rcv_nxt + p.rcv_ann_wnd
<1> DEFINE m == Sent(p, s)
<1>1. s.seq \in Nat /\ s.pos \in Nat /\ s.len \in Nat /\ s.fin \in BOOLEAN
  BY DEF Shaped
<1>2. /\ m.seq = s.seq /\ m.pos = s.pos /\ m.len = s.len /\ m.fin = s.fin
      /\ m.ack = p.rcv_nxt /\ m.wnd = p.rcv_ann_wnd /\ m.rst = FALSE
  BY DEF Sent
<1>3. p.rcv_nxt \in Nat /\ p.rcv_ann_wnd \in Nat /\ p.rcv_nxt = r.first + r.got
  BY AnnouncedIs
<1>4. m \in Frame
  BY <1>1, <1>3 DEF Frame, Sent
<1> HIDE DEF m
<1>5. TcpLen(m) = TcpLen(s) /\ Stop(m) = Stop(s)
  BY <1>2 DEF TcpLen, Stop
<1>6. Own(s, d) => Own(m, d)
  BY <1>2, <1>5 DEF Own
<1>7. Wnd - Mss <= p.rcv_ann_wnd /\ p.rcv_ann_wnd <= Wnd
  BY DEF Rcv
<1>8. r.first <= r.first + r.got
  BY FlowFacts
<1>9. FrameOK(m, d, r)
  BY <1>2, <1>3, <1>5, <1>6, <1>7, <1>8 DEF FrameOK
<1> QED
  BY <1>2, <1>4, <1>9 DEF m

\* An empty acknowledgement is a right frame.
LEMMA EmptyAckFrame ==
  ASSUME NEW d, FlowOK(d), NEW r, FlowOK(r), NEW p \in Block, Rcv(p, r), p.snd_nxt = d.sent
  PROVE  /\ EmptyAck(p) \in Frame /\ FrameOK(EmptyAck(p), d, r)
         /\ ~EmptyAck(p).rst
         /\ EmptyAck(p).ack + EmptyAck(p).wnd = p.rcv_nxt + p.rcv_ann_wnd
<1> DEFINE s == [seq |-> p.snd_nxt, pos |-> 0, len |-> 0, fin |-> FALSE]
<1>1. p.snd_nxt \in Nat
  BY DEF Block
<1>2. Shaped(s) /\ s.len = 0 /\ s.seq = p.snd_nxt /\ TcpLen(s) = 0 /\ Stop(s) = p.snd_nxt
  BY <1>1 DEF Shaped, TcpLen, Stop
<1>3. EmptyAck(p) = Sent(p, s)
  BY DEF EmptyAck
<1> HIDE DEF s
<1>4. d.first <= s.seq /\ Stop(s) <= d.sent
  BY <1>1, <1>2, FlowFacts
<1>5. (TcpLen(s) > 0 => Own(s, d)) /\ (s.len > 0 => s.seq + s.len <= d.limit)
  BY <1>2
<1> QED
  BY <1>2, <1>3, <1>4, <1>5, SentFrame

\* What a call of tcp_output leaves as it is.
Kept(w, v) ==
  /\ v.data = w.data /\ v.fin = w.fin
  /\ v.p.state = w.p.state /\ v.p.rxclosed = w.p.rxclosed
  /\ v.p.lastack = w.p.lastack /\ v.p.snd_wl1 = w.p.snd_wl1 /\ v.p.snd_wl2 = w.p.snd_wl2
  /\ v.p.rcv_nxt = w.p.rcv_nxt /\ w.p.edge <= v.p.edge

\* The frames of a call stay right when some are added and the streams grow.
LEMMA FramesMore ==
  ASSUME NEW d, FlowOK(d), NEW b, FlowOK(b), Grown(d, b),
         NEW r, FlowOK(r), NEW t, FlowOK(t), Grown(r, t),
         NEW w \in WorkSet, FramesOK(w, d, r),
         NEW v \in WorkSet, w.p.edge <= v.p.edge,
         \A s \in v.out : s \in w.out \/ (FrameOK(s, b, t) /\ (~s.rst => s.ack + s.wnd <= v.p.edge))
  PROVE  FramesOK(v, b, t)
<1> SUFFICES ASSUME NEW s \in v.out
             PROVE  FrameOK(s, b, t) /\ (~s.rst => s.ack + s.wnd <= v.p.edge)
  BY DEF FramesOK
<1>1. s \in Frame /\ w.p.edge \in Nat /\ v.p.edge \in Nat
  BY FramesIs DEF WorkSet, Block
<1>2. CASE s \in w.out
  <2>1. FrameOK(s, d, r) /\ (~s.rst => s.ack + s.wnd <= w.p.edge)
    BY <1>2 DEF FramesOK
  <2>2. FrameOK(s, b, t)
    BY <1>1, <2>1, GrownFrame
  <2>3. s.ack \in Nat /\ s.wnd \in Nat
    BY <1>1 DEF Frame
  <2> QED
    BY <1>1, <2>1, <2>2, <2>3
<1> QED
  BY <1>2

\* A stream has grown from itself.
LEMMA SameFlow ==
  ASSUME NEW d, FlowOK(d)
  PROVE  Grown(d, d)
BY FlowFacts DEF Grown

\* An empty acknowledgement changes nothing but the edge.
LEMMA EmptyAckKeeps ==
  ASSUME NEW d, FlowOK(d), NEW r, FlowOK(r), NEW w \in WorkSet, Rcv(w.p, r), w.p.snd_nxt = d.sent,
         FramesOK(w, d, r)
  PROVE  LET v == SendEmptyAck(w)
         IN  /\ v \in WorkSet /\ FramesOK(v, d, r) /\ Rcv(v.p, r) /\ Kept(w, v)
             /\ v.p = [w.p EXCEPT !.edge = v.p.edge]
             /\ Snd(w.p, d) => Snd(v.p, d)
<1> DEFINE v == SendEmptyAck(w)
           p == w.p
           x == p.rcv_nxt + p.rcv_ann_wnd
           a == EmptyAck(p)
<1>1. p \in Block /\ w.out \in Frames
  BY DEF WorkSet
<1>2. Announced(p) = [p EXCEPT !.edge = x] /\ x \in Nat /\ p.edge <= x
  BY <1>1, AnnouncedIs
<1>3. a \in Frame /\ FrameOK(a, d, r) /\ ~a.rst /\ a.ack + a.wnd = x
  BY <1>1, EmptyAckFrame
<1>4. v = [w EXCEPT !.p = [p EXCEPT !.edge = x], !.out = @ \cup {a}, !.now = FALSE]
  BY <1>2 DEF SendEmptyAck
<1>11. [p EXCEPT !.edge = x] \in Block
  BY <1>1, <1>2 DEF Block
<1> HIDE DEF v, a, x, p
<1>12. w.out \cup {a} \in Frames
  BY <1>1, <1>3, FramesIs
<1>5. v \in WorkSet /\ v.p = [p EXCEPT !.edge = x] /\ v.out = w.out \cup {a} /\ v.data = w.data /\ v.fin = w.fin
  BY <1>1, <1>4, <1>11, <1>12 DEF WorkSet
<1>6. v.p.edge = x /\ v.p = [p EXCEPT !.edge = v.p.edge]
  BY <1>1, <1>5 DEF Block
<1>7. FramesOK(v, d, r)
  <2>1. \A s \in v.out : s \in w.out \/ (FrameOK(s, d, r) /\ (~s.rst => s.ack + s.wnd <= v.p.edge))
    <3>1. a.ack + a.wnd <= v.p.edge
      BY <1>2, <1>3, <1>6
    <3> QED
      BY <1>3, <1>5, <3>1
  <2>2. w.p.edge <= v.p.edge
    BY <1>2, <1>6 DEF p
  <2> QED
    BY <1>5, <2>1, <2>2, FramesMore, SameFlow
<1>8. Kept(w, v)
  BY <1>1, <1>2, <1>5 DEF Kept, Block, p
<1>9. Rcv(v.p, r)
  <2>1. /\ v.p.rcv_nxt = p.rcv_nxt /\ v.p.rcv_wnd = p.rcv_wnd /\ v.p.rcv_ann_wnd = p.rcv_ann_wnd
        /\ v.p.ooseq = p.ooseq
    BY <1>1, <1>5 DEF Block
  <2>2. v.p.edge <= v.p.rcv_nxt + v.p.rcv_ann_wnd
    BY <1>2, <1>6, <2>1 DEF x
  <2>3. Rcv(p, r)
    BY DEF p
  <2> QED
    BY <2>1, <2>2, <2>3 DEF Rcv, OoseqOK
<1>10. Snd(p, d) => Snd(v.p, d)
  BY <1>1, <1>5 DEF Snd, QueuesOK, Block
<1> QED
  BY <1>5, <1>6, <1>7, <1>8, <1>9, <1>10 DEF v, p

\* The first unsent segment always fits into the windows when nothing is on its way.
LEMMA FirstFits ==
  ASSUME NEW d, FlowOK(d), NEW p \in Block, Snd(p, d), p.state # "TIME_WAIT", Sendable(p) = 0
  PROVE  Busy(p)
<1> SUFFICES ASSUME p.unsent # <<>>, p.unacked = <<>>
             PROVE  FALSE
  BY DEF Busy
<1> DEFINE q == p.unsent
           la == p.lastack
           s == q[1]
<1>1. /\ q \in Seq(Segment) /\ p.unacked \in Seq(Segment) /\ la \in Nat
      /\ p.snd_wnd \in Nat /\ p.cwnd \in Nat
  BY DEF Block
<1>2. Len(q) \in Nat /\ 1 \in 1 .. Len(q)
  BY <1>1, SegmentQueue
<1>3. Queue(p.unacked, q, la, d)
  BY DEF Snd, QueuesOK
<1>4. s.seq <= la /\ la < Stop(s)
  BY <1>3 DEF Queue
<1>5. Run(q, EndOf(d), d) /\ EndOf(d) \in Nat /\ \A i \in 1 .. Len(q) : la < Stop(q[i])
  BY <1>1, <1>3, QueueFacts
<1>6. \A i \in 1 .. Len(q) : Own(q[i], d) /\ Shaped(q[i]) /\ la < Stop(q[i])
  BY <1>1, <1>5, RunOrder
<1>7. Wnd - Mss <= p.snd_wnd /\ p.snd_wnd <= Wnd /\ Mss <= p.cwnd
  BY DEF Snd
<1>8. la \in Low
  <2>1. la <= EndOf(d) /\ EndOf(d) \in Nat /\ EndOf(d) + 2 * Wnd + 1 <= Half
    BY <1>1, <1>3, QueueFacts, FlowFacts
  <2> QED
    BY <1>1, <2>1, SizeFacts DEF Low
<1>9. s.seq + s.len > la + p.snd_wnd \/ s.seq + s.len > la + p.cwnd
  BY <1>2, <1>6, <1>7, <1>8, SendableIs
<1>10. s.seq \in Nat /\ s.len \in Nat /\ s.len <= Mss
  BY <1>2, <1>6 DEF Own, Shaped
<1> HIDE DEF s, la
<1> QED
  BY ONLY <1>1, <1>4, <1>7, <1>9, <1>10, SizeFacts, SMTT(30)

-----------------------------------------------------------------------------
(* tcp_output *)

\* tcp_output sends the first n unsent segments.
LEMMA OutputSends ==
  ASSUME NEW d, FlowOK(d), NEW r, FlowOK(r), NEW w \in WorkSet, Snd(w.p, d), Rcv(w.p, r),
         FramesOK(w, d, r), w.p.state # "TIME_WAIT", Sendable(w.p) > 0
  PROVE  LET v == Output(w)
             b == [d EXCEPT !.sent = v.p.snd_nxt]
         IN  /\ v \in WorkSet /\ FlowOK(b) /\ Grown(d, b)
             /\ Snd(v.p, b) /\ Busy(v.p) /\ Rcv(v.p, r) /\ FramesOK(v, b, r) /\ Kept(w, v)
<1> DEFINE v == Output(w)
           p == w.p
           n == Sendable(p)
           q == p.unsent
           sent == SubSeq(q, 1, n)
           rest == SubSeq(q, n + 1, Len(q))
           una == p.unacked \o sent
           x == p.rcv_nxt + p.rcv_ann_wnd
           top == End(sent[n])
           nxt == IF LT(p.snd_nxt, top) THEN top ELSE p.snd_nxt
           p2 == [p EXCEPT !.edge = x, !.unsent = rest, !.unacked = una, !.rtime = TRUE, !.snd_nxt = nxt]
           out == w.out \cup {Sent(p, s) : s \in ToSet(sent)}
           b == [d EXCEPT !.sent = v.p.snd_nxt]
<1>1. /\ p \in Block /\ w.out \in Frames /\ q \in Seq(Segment) /\ p.unacked \in Seq(Segment)
      /\ p.lastack \in Nat /\ p.snd_nxt \in Nat /\ p.snd_wnd \in Nat
  BY DEF WorkSet, Block
<1>2. Announced(p) = [p EXCEPT !.edge = x] /\ x \in Nat /\ p.edge <= x
  BY <1>1, AnnouncedIs
<1>3. /\ Queue(p.unacked, q, p.lastack, d) /\ SentOK(p.unacked, d)
      /\ p.snd_nxt = d.sent /\ p.snd_wnd <= Wnd /\ p.lastack + p.snd_wnd <= d.limit
  BY DEF Snd, QueuesOK
<1>4. /\ Run(q, EndOf(d), d) /\ EndOf(d) \in Nat /\ p.lastack <= EndOf(d)
      /\ \A i \in 1 .. Len(q) : p.lastack < Stop(q[i])
  BY <1>1, <1>3, QueueFacts
<1>5. \A i \in 1 .. Len(q) : Stop(q[i]) <= EndOf(d) /\ Own(q[i], d) /\ Shaped(q[i])
  BY <1>1, <1>4, RunOrder
<1>6. EndOf(d) + 2 * Wnd + 1 <= Half /\ d.sent \in Nat /\ d.sent <= EndOf(d) /\ d.limit \in Nat
  BY FlowFacts
<1>7. p.lastack \in Low /\ p.snd_nxt \in Low
  BY <1>1, <1>3, <1>4, <1>6, SizeFacts DEF Low
<1>8. /\ n \in 0 .. Len(q)
      /\ \A i \in 1 .. n : q[i].seq + q[i].len <= p.lastack + p.snd_wnd
  BY <1>1, <1>3, <1>4, <1>5, <1>7, SendableIs
<1>9. Len(q) \in Nat /\ n > 0 /\ n \in 1 .. Len(q)
  BY <1>1, <1>8, SegmentQueue
<1> HIDE DEF n
<1>10. /\ sent \in Seq(Segment) /\ rest \in Seq(Segment) /\ una \in Seq(Segment)
       /\ Len(sent) = n /\ Len(una) = Len(p.unacked) + n
       /\ \A i \in 1 .. n : sent[i] = q[i]
       /\ \A i \in 1 .. Len(p.unacked) + n :
             una[i] = IF i <= Len(p.unacked) THEN p.unacked[i] ELSE sent[i - Len(p.unacked)]
       /\ Queue(una, rest, p.lastack, d)
  <2> DEFINE u == p.unacked
             la == p.lastack
  <2>1. u \in Seq(Segment) /\ q \in Seq(Segment) /\ la \in Nat /\ n \in 0 .. Len(q) /\ Queue(u, q, la, d)
    BY <1>1, <1>3, <1>8
  <2> HIDE DEF u, la, q
  <2>2. LET s == SubSeq(q, 1, n)
            t == SubSeq(q, n + 1, Len(q))
        IN  /\ s \in Seq(Segment) /\ t \in Seq(Segment) /\ u \o s \in Seq(Segment)
            /\ Len(s) = n /\ Len(t) = Len(q) - n /\ Len(u \o s) = Len(u) + n
            /\ \A i \in 1 .. n : s[i] = q[i]
            /\ \A i \in 1 .. Len(u) + n : (u \o s)[i] = IF i <= Len(u) THEN u[i] ELSE s[i - Len(u)]
            /\ Queue(u \o s, t, la, d)
    BY ONLY FlowOK(d), <2>1, QueueOutput
  <2> QED
    BY ONLY <2>2 DEF u, la
<1>11. /\ \A i \in 1 .. n : /\ Own(sent[i], d) /\ Shaped(sent[i]) /\ Stop(sent[i]) <= EndOf(d)
                            /\ sent[i].seq + sent[i].len <= p.lastack + p.snd_wnd
  BY <1>5, <1>8, <1>9, <1>10
<1>12. top = Stop(q[n]) /\ top \in Low /\ top <= EndOf(d) /\ Last(sent) = sent[n]
  <2>1. n \in 1 .. n
    BY <1>9
  <2>2. Last(sent) = sent[n]
    BY <1>10 DEF Last
  <2> QED
    BY <1>10, <1>11, <2>1, <2>2, OwnFacts
<1>13. ToSet(sent) = {sent[i] : i \in 1 .. n}
  BY <1>10, LenProperties DEF ToSet
<1>14. v = [w EXCEPT !.p = p2, !.out = out, !.now = FALSE]
  <2>1. v = [w EXCEPT !.p = [Announced(p) EXCEPT
                         !.unsent = SubSeq(@, n + 1, Len(@)),
                         !.unacked = @ \o sent,
                         !.rtime = TRUE,
                         !.snd_nxt = IF LT(@, End(Last(sent))) THEN End(Last(sent)) ELSE @],
                !.out = @ \cup {Sent(p, s) : s \in ToSet(sent)},
                !.now = FALSE]
    BY <1>9 DEF Output, n
  <2>2. [Announced(p) EXCEPT
                         !.unsent = SubSeq(@, n + 1, Len(@)),
                         !.unacked = @ \o sent,
                         !.rtime = TRUE,
                         !.snd_nxt = IF LT(@, End(Last(sent))) THEN End(Last(sent)) ELSE @] = p2
    BY <1>1, <1>2, <1>12 DEF Block
  <2> QED
    BY <2>1, <2>2
<1>15. nxt \in Nat /\ p.snd_nxt <= nxt /\ top <= nxt /\ nxt <= EndOf(d)
  <2>1. LT(p.snd_nxt, top) <=> p.snd_nxt < top
    BY <1>7, <1>12, LowOrder
  <2>2. top \in Nat
    <3> HIDE DEF top
    <3> QED
      BY ONLY <1>12, SizeFacts DEF Low
  <2>3. top <= EndOf(d) /\ EndOf(d) \in Nat /\ d.sent <= EndOf(d) /\ p.snd_nxt = d.sent /\ p.snd_nxt \in Nat
    BY <1>1, <1>3, <1>4, <1>6, <1>12
  <2> DEFINE y == p.snd_nxt
  <2> HIDE DEF top, y
  <2>4. (IF LT(y, top) THEN top ELSE y) \in Nat /\ y <= (IF LT(y, top) THEN top ELSE y)
        /\ top <= (IF LT(y, top) THEN top ELSE y) /\ (IF LT(y, top) THEN top ELSE y) <= EndOf(d)
    <3>1. (LT(y, top) <=> y < top) /\ y \in Nat /\ y <= EndOf(d)
      BY <2>1, <2>3 DEF y
    <3>2. CASE LT(y, top)
      BY ONLY <3>1, <3>2, <2>2, <2>3
    <3>3. CASE ~LT(y, top)
      BY ONLY <3>1, <3>3, <2>2, <2>3
    <3> QED
      BY <3>2, <3>3
  <2> QED
    BY <2>4 DEF y
<1> HIDE DEF top, sent, rest, una, x, nxt
<1>16. p2 \in Block
  BY <1>1, <1>2, <1>10, <1>15 DEF Block
<1>17. /\ p2.edge = x /\ p2.unsent = rest /\ p2.unacked = una /\ p2.rtime = TRUE /\ p2.snd_nxt = nxt
       /\ p2.state = p.state /\ p2.rxclosed = p.rxclosed /\ p2.lastack = p.lastack
       /\ p2.snd_wl1 = p.snd_wl1 /\ p2.snd_wl2 = p.snd_wl2 /\ p2.snd_lbb = p.snd_lbb
       /\ p2.snd_buf = p.snd_buf /\ p2.snd_wnd = p.snd_wnd /\ p2.cwnd = p.cwnd
       /\ p2.rcv_nxt = p.rcv_nxt /\ p2.rcv_wnd = p.rcv_wnd /\ p2.rcv_ann_wnd = p.rcv_ann_wnd
       /\ p2.ooseq = p.ooseq
  BY <1>1 DEF Block
<1> HIDE DEF p2
<1>18. b.sent = nxt /\ b \in Direction /\ b = [d EXCEPT !.sent = nxt]
  <2>1. d \in Direction
    BY DEF FlowOK
  <2>2. v.p = p2
    BY <1>14 DEF WorkSet
  <2> QED
    BY <1>15, <1>17, <2>1, <2>2 DEF Direction
<1>19. /\ b.first = d.first /\ b.written = d.written /\ b.closed = d.closed /\ b.got = d.got
       /\ b.limit = d.limit
  BY <1>18 DEF FlowOK, Direction
<1>20. \A s \in out : s \in w.out \/ \E i \in 1 .. n : s = Sent(p, sent[i])
  BY <1>13
<1>21. EndOf(b) = EndOf(d) /\ (\A s : Own(s, b) <=> Own(s, d)) /\ Queue(una, rest, p.lastack, b)
  BY <1>10, <1>19, SameStream, ZenonT(60)
<1>22. FlowOK(b) /\ Grown(d, b)
  <2>1. FlowOK(b)
    BY <1>15, <1>18, <1>19, <1>21, FlowFacts, <1>3 DEF FlowOK
  <2>2. Grown(d, b)
    BY <1>3, <1>15, <1>18, <1>19, FlowFacts DEF Grown
  <2> QED
    BY <2>1, <2>2
<1>23. \A i \in 1 .. n : Stop(sent[i]) <= nxt
  <2> SUFFICES ASSUME NEW i \in 1 .. n
               PROVE  Stop(sent[i]) <= nxt
    OBVIOUS
  <2>1. sent[i] = q[i] /\ i \in 1 .. Len(q) /\ n \in 1 .. Len(q)
    BY <1>9, <1>10
  <2>2. i < n => Stop(q[i]) <= q[n].seq
    BY <1>1, <1>4, <2>1, RunOrder
  <2>3. q[n].seq < Stop(q[n]) /\ Stop(q[n]) \in Low /\ q[n].seq \in Low /\ Stop(q[i]) \in Low
    BY <1>5, <2>1, OwnFacts
  <2> QED
    BY <1>9, <1>12, <1>15, <2>1, <2>2, <2>3 DEF Low
<1>24. \A i \in 1 .. n : sent[i].len > 0 => sent[i].seq + sent[i].len <= d.limit
  BY <1>1, <1>3, <1>6, <1>11, SMTT(30) DEF Shaped
<1>25. SentOK(una, b)
  <2> SUFFICES ASSUME NEW i \in 1 .. Len(una)
               PROVE  Stop(una[i]) <= b.sent /\ (una[i].len > 0 => una[i].seq + una[i].len <= b.limit)
    BY DEF SentOK
  <2>1. Len(p.unacked) \in Nat
    BY <1>1, SegmentQueue
  <2>2. CASE i <= Len(p.unacked)
    <3>1. una[i] = p.unacked[i] /\ i \in 1 .. Len(p.unacked)
      BY <1>10, <2>1, <2>2
    <3>2. Stop(p.unacked[i]) <= d.sent /\ (p.unacked[i].len > 0 => p.unacked[i].seq + p.unacked[i].len <= d.limit)
      BY <1>3, <3>1 DEF SentOK
    <3>3. Stop(p.unacked[i]) \in Nat
      BY <1>1, <3>1, SegmentQueue, SMTT(30) DEF Shaped, Stop, TcpLen
    <3> QED
      BY <1>1, <1>3, <1>6, <1>15, <1>18, <1>19, <3>1, <3>2, <3>3
  <2>3. CASE i > Len(p.unacked)
    <3>1. una[i] = sent[i - Len(p.unacked)] /\ i - Len(p.unacked) \in 1 .. n
      BY <1>10, <2>1, <2>3, SMTT(30)
    <3> QED
      BY <1>18, <1>19, <1>23, <1>24, <3>1
  <2> QED
    BY <2>1, <2>2, <2>3
<1>26. una # <<>>
  BY <1>1, <1>9, <1>10, SegmentQueue
<1>27. Snd(p2, b)
  <2>1. QueuesOK(p2, b)
    BY <1>17, <1>19, <1>21, <1>25, <1>26 DEF Snd, QueuesOK
  <2> QED
    BY <1>17, <1>18, <1>19, <1>21, <2>1 DEF Snd
<1>28. Busy(p2)
  BY <1>17, <1>26 DEF Busy
<1>29. Rcv(p2, r)
  BY <1>2, <1>17 DEF Rcv, OoseqOK, x
<1>30. \A s \in out : s \in w.out \/ (s \in Frame /\ FrameOK(s, b, r) /\ s.ack + s.wnd <= p2.edge)
  <2> SUFFICES ASSUME NEW i \in 1 .. n
               PROVE  LET s == Sent(p, sent[i]) IN s \in Frame /\ FrameOK(s, b, r) /\ s.ack + s.wnd <= p2.edge
    BY <1>20
  <2> DEFINE s == Sent(p, sent[i])
  <2>1. b.first <= sent[i].seq
    BY <1>11, <1>19, OwnFacts
  <2>2. Stop(sent[i]) <= b.sent /\ Own(sent[i], b) /\ Shaped(sent[i])
    BY <1>11, <1>18, <1>21, <1>23
  <2>3. sent[i].len > 0 => sent[i].seq + sent[i].len <= b.limit
    BY <1>19, <1>24
  <2>4. s \in Frame /\ FrameOK(s, b, r) /\ s.ack + s.wnd = x
    BY <1>1, <1>22, <2>1, <2>2, <2>3, SentFrame DEF x
  <2> QED
    BY <1>2, <1>17, <2>4
<1> HIDE DEF out, p
<1>31. v \in WorkSet /\ v.p = p2 /\ v.out = out /\ v.data = w.data /\ v.fin = w.fin
  <2> DEFINE f == [i \in 1 .. n |-> Sent(p, sent[i])]
             o == {Sent(p, s) : s \in ToSet(sent)}
  <2>2. o \subseteq Frame
    BY <1>1, <1>30, FramesIs DEF out
  <2>3. \A i \in 1 .. n : f[i] \in o
    BY <1>13 DEF ToSet
  <2>4. \A s \in o : \E i \in 1 .. n : s = f[i]
    BY <1>13 DEF ToSet
  <2>1. out \in Frames
    <3>1. n \in Nat
      BY <1>9
    <3> HIDE DEF f, o
    <3>2. o \in Frames
      BY <2>2, <2>3, <2>4, <3>1, ShotsFrames
    <3> QED
      BY <1>1, <3>2, FramesIs DEF out, o
  <2> QED
    BY <1>14, <1>16, <2>1 DEF WorkSet
<1> HIDE DEF v, b
<1>32. FramesOK(v, b, r)
  <2>1. w.p.edge <= v.p.edge
    BY <1>2, <1>17, <1>31 DEF p
  <2>2. \A s \in v.out : s \in w.out \/ (FrameOK(s, b, r) /\ (~s.rst => s.ack + s.wnd <= v.p.edge))
    BY <1>30, <1>31
  <2> QED
    BY <1>22, <1>31, <2>1, <2>2, FramesMore, SameFlow
<1>33. Kept(w, v)
  BY <1>2, <1>17, <1>31 DEF Kept, p
<1> QED
  BY <1>22, <1>27, <1>28, <1>29, <1>31, <1>32, <1>33 DEF v, b

\* tcp_output sends a prefix of unsent.
LEMMA SendableNat ==
  ASSUME NEW p \in Block
  PROVE  Sendable(p) \in 0 .. Len(p.unsent)
<1> DEFINE q == p.unsent
           wnd == LeastOf(p.snd_wnd, p.cwnd)
           fits(i) == (Diff(q[i].seq, p.lastack) + q[i].len) % SeqSpace <= wnd
           T == {i \in 1 .. Len(q) : fits(i)}
           n == Cardinality({k \in 1 .. Len(q) : \A i \in 1 .. k : i \in T})
<1>1. q \in Seq(Segment) /\ Len(q) \in Nat
  BY SegmentQueue DEF Block
<1>4. {k \in 1 .. Len(q) : \A i \in 1 .. k : fits(i)}
        = {k \in 1 .. Len(q) : \A i \in 1 .. k : i \in T}
  BY <1>1
<1>5. Sendable(p) = n
  BY <1>4 DEF Sendable
<1> HIDE DEF T
<1>7. n \in 0 .. Len(q)
  BY <1>1, PrefixCount
<1> QED
  BY <1>5, <1>7

\* tcp_output keeps the invariants of both directions, and leaves nothing unsent that
\* nobody is going to send.
LEMMA OutputKeeps ==
  ASSUME NEW d, FlowOK(d), NEW r, FlowOK(r), NEW w \in WorkSet, Snd(w.p, d), Rcv(w.p, r),
         FramesOK(w, d, r)
  PROVE  LET v == Output(w)
             b == [d EXCEPT !.sent = v.p.snd_nxt]
         IN  /\ v \in WorkSet /\ FlowOK(b) /\ Grown(d, b)
             /\ Snd(v.p, b) /\ Busy(v.p) /\ Rcv(v.p, r) /\ FramesOK(v, b, r) /\ Kept(w, v)
<1> DEFINE v == Output(w)
           p == w.p
           b == [d EXCEPT !.sent = v.p.snd_nxt]
<1>1. p \in Block /\ p.snd_nxt = d.sent /\ p.edge \in Nat
  BY DEF WorkSet, Block, Snd
<1>2. Sendable(p) \in 0 .. Len(p.unsent)
  BY <1>1, SendableNat
<1>3. CASE Sendable(p) > 0 /\ p.state # "TIME_WAIT"
  BY <1>3, OutputSends
<1>4. CASE ~(Sendable(p) > 0 /\ p.state # "TIME_WAIT")
  <2>1. Sendable(p) = 0 /\ Busy(p)
    <3>1. CASE p.state = "TIME_WAIT"
      <4>1. p.unsent = <<>>
        BY <3>1 DEF Snd
      <4> QED
        BY <1>2, <4>1 DEF Busy
    <3>2. CASE p.state # "TIME_WAIT"
      <4>1. Sendable(p) = 0
        BY <1>2, <1>4, <3>2
      <4> QED
        BY <1>1, <3>2, <4>1, FirstFits
    <3> QED
      BY <3>1, <3>2
  <2>2. v = IF w.now THEN SendEmptyAck(w) ELSE w
    BY <2>1 DEF Output
  <2> DEFINE a == SendEmptyAck(w)
  <2>3. a \in WorkSet /\ FramesOK(a, d, r) /\ Rcv(a.p, r) /\ Kept(w, a)
        /\ a.p = [p EXCEPT !.edge = a.p.edge] /\ Snd(a.p, d)
    BY <1>1, EmptyAckKeeps
  <2> HIDE DEF a
  <2>4. a.p.snd_nxt = p.snd_nxt /\ Busy(a.p)
    BY <1>1, <2>1, <2>3 DEF Block, Busy
  <2>5. v = a \/ v = w
    BY <2>2 DEF a
  <2> HIDE DEF v
  <2>6. v.p.snd_nxt = d.sent
    BY <1>1, <2>4, <2>5
  <2>7. b = d
    <3>1. d \in Direction
      BY DEF FlowOK
    <3> QED
      BY <2>6, <3>1 DEF Direction
  <2>8. Kept(w, w)
    BY <1>1 DEF Kept
  <2>9. v \in WorkSet /\ FramesOK(v, d, r) /\ Rcv(v.p, r) /\ Kept(w, v) /\ Snd(v.p, d) /\ Busy(v.p)
    BY <2>1, <2>3, <2>4, <2>5, <2>8
  <2> QED
    BY <2>7, <2>9, SameFlow DEF v
<1> QED
  BY <1>3, <1>4

-----------------------------------------------------------------------------
(* tcp_receive: the window and the acknowledgement *)

\* The later of two numbers.
Later(a, b) == IF a < b THEN b ELSE a
\* Where the right edge stands that the frame m may give the sender.
EdgeKnown(p, d, r, m) ==
  \/ d.limit = d.first + d.got + Wnd
  \/ Quiet(p, d, r) /\ r.sent = r.first /\ m.ack + m.wnd <= d.limit

\* snd_wl1 of a new connection is before the first number of the peer.
LEMMA WlBefore ==
  ASSUME NEW x \in Low
  PROVE  LT(Diff(x, 2), x) /\ ~LT(x, x) /\ Diff(x, 2) # x
<1>1. x \in Nat /\ x < Half /\ Half \in Nat /\ SeqSpace = 2 * Half /\ SeqSpace \div 2 = Half /\ Half > 4
  BY SizeFacts DEF Low, Half
<1>2. \A y \in 0 .. SeqSpace - 1 : y % SeqSpace = y
  BY Modulo
<1>3. \A y \in -SeqSpace .. -1 : y % SeqSpace = y + SeqSpace
  BY Modulo
<1>4. -2 \in -SeqSpace .. -1 /\ SeqSpace - 2 \in 0 .. SeqSpace - 1 /\ 0 \in 0 .. SeqSpace - 1
  BY <1>1
<1>5. CASE x >= 2
  <2>1. x - 2 \in 0 .. SeqSpace - 1
    BY <1>1, <1>5
  <2>2. Diff(x, 2) = x - 2
    BY <1>2, <2>1 DEF Diff
  <2>3. (x - 2) - x = -2 /\ x - x = 0
    BY <1>1
  <2>4. Diff(x - 2, x) = SeqSpace - 2 /\ Diff(x, x) = 0
    BY <1>1, <1>2, <1>3, <1>4, <2>3 DEF Diff
  <2> QED
    BY <1>1, <2>2, <2>4 DEF LT
<1>6. CASE x < 2
  <2>1. x - 2 \in -SeqSpace .. -1
    BY <1>1, <1>6
  <2>2. Diff(x, 2) = x - 2 + SeqSpace
    BY <1>3, <2>1 DEF Diff
  <2>3. (x - 2 + SeqSpace) - x = SeqSpace - 2 /\ x - x = 0
    BY <1>1
  <2>4. Diff(x - 2 + SeqSpace, x) = SeqSpace - 2 /\ Diff(x, x) = 0
    BY <1>1, <1>2, <1>4, <2>3 DEF Diff
  <2> QED
    BY <1>1, <2>2, <2>4 DEF LT
<1> QED
  BY <1>1, <1>5, <1>6

\* Nothing but the window that the peer announces differs.
SameButWindow(p, q) ==
  /\ q.snd_lbb = p.snd_lbb /\ q.snd_buf = p.snd_buf /\ q.unsent = p.unsent /\ q.unacked = p.unacked
  /\ q.snd_nxt = p.snd_nxt /\ q.lastack = p.lastack /\ q.cwnd = p.cwnd
  /\ q.rtime = p.rtime /\ q.state = p.state /\ q.rxclosed = p.rxclosed
  /\ q.rcv_nxt = p.rcv_nxt /\ q.rcv_wnd = p.rcv_wnd /\ q.rcv_ann_wnd = p.rcv_ann_wnd
  /\ q.edge = p.edge /\ q.ooseq = p.ooseq

\* The window that is taken from a frame never reaches beyond what the peer has announced.
LEMMA WindowTaken ==
  ASSUME NEW d, FlowOK(d), NEW r, FlowOK(r), NEW p \in Block, Snd(p, d), p.lastack \in Low,
         NEW m \in Frame, ~m.rst, FrameOK(m, r, d), EdgeKnown(p, d, r, m)
  PROVE  LET q == WindowUpdated(p, m)
             la == Later(p.lastack, m.ack)
         IN  /\ q \in Block
             /\ SameButWindow(p, q)
             /\ Wnd - Mss <= q.snd_wnd /\ q.snd_wnd <= Wnd /\ la + q.snd_wnd <= d.limit
             /\ Quiet(p, d, r) /\ r.sent = r.first =>
                  /\ q.snd_wl2 = la /\ q.snd_wl1 \in {Diff(r.first, 2), r.first}
                  /\ q.snd_wl1 = Diff(r.first, 2) => la = d.first
<1> DEFINE q == WindowUpdated(p, m)
           la == Later(p.lastack, m.ack)
           x == p.lastack
<1>1. /\ m.seq \in Nat /\ m.ack \in Nat /\ m.wnd \in Nat
      /\ m.len \in Nat /\ m.fin \in BOOLEAN
  BY DEF Frame
<1>2. /\ r.first <= m.seq /\ Stop(m) <= r.sent
      /\ d.first <= m.ack /\ m.ack <= d.first + d.got
      /\ Wnd - Mss <= m.wnd /\ m.wnd <= Wnd
  BY DEF FrameOK
<1>3. /\ x \in Nat /\ d.first <= x /\ x <= d.first + d.got
      /\ p.snd_wnd \in Nat /\ Wnd - Mss <= p.snd_wnd /\ p.snd_wnd <= Wnd /\ x + p.snd_wnd <= d.limit
  BY DEF Snd, Block
<1>4. /\ d.first \in Nat /\ d.got \in Nat /\ d.limit \in Nat /\ r.first \in Nat /\ r.sent \in Nat
      /\ d.first + d.got <= EndOf(d) /\ EndOf(d) \in Nat /\ EndOf(d) + 2 * Wnd + 1 <= Half
      /\ r.first <= EndOf(r) /\ EndOf(r) \in Nat /\ EndOf(r) + 2 * Wnd + 1 <= Half
  BY FlowFacts
<1>5. m.ack \in Low /\ r.first \in Low
  BY <1>1, <1>2, <1>4, SizeFacts DEF Low
<1>6. \/ WindowUpdate(p, m) /\ q = [p EXCEPT !.snd_wnd = m.wnd, !.snd_wl1 = m.seq, !.snd_wl2 = m.ack]
      \/ ~WindowUpdate(p, m) /\ q = p
  BY DEF WindowUpdated
<1> HIDE DEF q
<1>7. q \in Block
  BY <1>1, <1>6, ZenonT(60) DEF Block
<1>8. SameButWindow(p, q)
  BY <1>1, <1>6 DEF Block, SameButWindow
<1>9. \/ WindowUpdate(p, m) /\ q.snd_wnd = m.wnd /\ q.snd_wl1 = m.seq /\ q.snd_wl2 = m.ack
      \/ ~WindowUpdate(p, m) /\ q.snd_wnd = p.snd_wnd /\ q.snd_wl1 = p.snd_wl1 /\ q.snd_wl2 = p.snd_wl2
  BY <1>6 DEF Block
<1>10. Wnd - Mss <= q.snd_wnd /\ q.snd_wnd <= Wnd /\ q.snd_wnd \in Nat
  BY <1>1, <1>2, <1>3, <1>9
<1>11. la \in Nat /\ la <= d.first + d.got
  BY <1>1, <1>2, <1>3 DEF Later
<1>12. ASSUME Quiet(p, d, r), r.sent = r.first
       PROVE  /\ q.snd_wl2 = la /\ q.snd_wl1 \in {Diff(r.first, 2), r.first}
              /\ q.snd_wl1 = Diff(r.first, 2) => la = d.first
              /\ (q.snd_wnd = m.wnd /\ m.ack = la) \/ (q.snd_wnd = p.snd_wnd /\ x = la)
  <2>1. m.seq = r.first
    <3>1. m.seq <= Stop(m) /\ Stop(m) \in Nat
      BY <1>1 DEF Stop, TcpLen
    <3> QED
      BY <1>1, <1>2, <1>4, <1>12, <3>1
  <2>2. /\ p.snd_wl2 = x /\ p.snd_wl1 \in {Diff(r.first, 2), r.first}
        /\ p.snd_wl1 = Diff(r.first, 2) => x = d.first
    BY <1>12 DEF Quiet
  <2>3. LT(Diff(r.first, 2), r.first) /\ ~LT(r.first, r.first) /\ Diff(r.first, 2) # r.first
    BY <1>5, WlBefore
  <2>4. LT(x, m.ack) <=> x < m.ack
    BY <1>5, LowOrder
  <2> DEFINE y == Diff(r.first, 2)
  <2> HIDE DEF y
  <2>5. CASE m.ack < x
    <3>1. p.snd_wl1 = r.first
      BY <1>1, <1>2, <1>3, <1>4, <2>2, <2>5
    <3>2. ~WindowUpdate(p, m)
      BY <1>1, <1>3, <2>1, <2>2, <2>3, <2>4, <2>5, <3>1 DEF WindowUpdate
    <3>3. la = x
      BY <1>1, <1>3, <2>5 DEF Later
    <3> QED
      BY <1>9, <2>2, <3>2, <3>3
  <2>6. CASE m.ack = x
    <3>1. la = x
      BY <1>1, <1>3, <2>6 DEF Later
    <3> QED
      BY <1>9, <2>1, <2>2, <2>3, <2>6, <3>1
  <2>7. CASE m.ack > x
    <3>1. WindowUpdate(p, m)
      <4>1. CASE p.snd_wl1 = Diff(r.first, 2)
        BY <2>1, <2>3, <4>1 DEF WindowUpdate
      <4>2. CASE p.snd_wl1 = r.first
        BY <1>1, <1>3, <2>1, <2>2, <2>4, <2>7, <4>2 DEF WindowUpdate
      <4> QED
        BY <2>2, <4>1, <4>2
    <3>2. la = m.ack
      BY <1>1, <1>3, <2>7 DEF Later
    <3> QED
      BY <1>9, <2>1, <2>3, <3>1, <3>2
  <2> QED
    BY <1>1, <1>3, <2>5, <2>6, <2>7
<1>13. la + q.snd_wnd <= d.limit
  <2>1. CASE d.limit = d.first + d.got + Wnd
    BY <1>4, <1>10, <1>11, <2>1, SizeFacts
  <2>2. CASE Quiet(p, d, r) /\ r.sent = r.first /\ m.ack + m.wnd <= d.limit
    BY <1>3, <1>12, <2>2
  <2> QED
    BY <2>1, <2>2 DEF EdgeKnown
<1> QED
  BY <1>7, <1>8, <1>10, <1>12, <1>13 DEF q

\* The capped congestion window is at least one segment and at most the window.
LEMMA CapWndIs ==
  ASSUME NEW n \in Nat, Mss <= n
  PROVE  CapWnd(n) \in Nat /\ Mss <= CapWnd(n) /\ CapWnd(n) <= Wnd
BY SizeFacts DEF CapWnd, LeastOf

\* The congestion window of an acknowledgement stays at least one segment.
LEMMA WindowGrows ==
  ASSUME NEW c \in Nat, Mss <= c, NEW t \in Nat
  PROVE  LET n == CapWnd(IF c < t THEN c + Mss ELSE c + (Mss * Mss) \div c)
         IN  n \in Nat /\ Mss <= n
<1>1. c + Mss \in Nat /\ Mss <= c + Mss
  BY SizeFacts
<1>2. (Mss * Mss) \div c \in Nat
  <2>1. Mss \in Nat /\ c \in Nat /\ c > 0
    BY SizeFacts
  <2>2. Mss * Mss \in Nat
    BY <2>1
  <2>3. \A a, b \in Nat : b > 0 => a \div b \in Nat
    OBVIOUS
  <2> QED
    BY ONLY <2>1, <2>2, <2>3
<1> DEFINE x == (Mss * Mss) \div c
<1> HIDE DEF x
<1>3. c + x \in Nat /\ Mss <= c + x
  BY <1>2, SizeFacts DEF x
<1> QED
  BY <1>1, <1>3, CapWndIs DEF x

\* An acknowledgement that is not new leaves the queues alone.
LEMMA UnsentStays ==
  ASSUME NEW d, FlowOK(d), NEW p \in Block, Queue(p.unacked, p.unsent, p.lastack, d), p.snd_nxt = d.sent,
         NEW ack \in Low, ack <= p.lastack, ack <= p.snd_nxt
  PROVE  UnsentAcked(p, ack) = p
<1> DEFINE v == p.unsent
           la == p.lastack
           nxt == p.snd_nxt
<1>1. p.unacked \in Seq(Segment) /\ v \in Seq(Segment) /\ la \in Nat /\ nxt \in Nat
  BY DEF Block
<1>2. Run(v, EndOf(d), d) /\ EndOf(d) \in Nat /\ \A i \in 1 .. Len(v) : la < Stop(v[i])
  BY <1>1, QueueFacts
<1>3. \A i \in 1 .. Len(v) : Own(v[i], d) /\ Shaped(v[i])
  BY <1>1, <1>2, RunOrder
<1>4. nxt \in Low
  <2>1. d.sent <= EndOf(d) /\ EndOf(d) + 2 * Wnd + 1 <= Half
    BY FlowFacts
  <2> QED
    BY <1>1, <1>2, <2>1, SizeFacts DEF Low
<1>5. PICK n \in 0 .. Len(v) :
        /\ After(v, LAMBDA s : Between(ack, End(s), nxt)) = SubSeq(v, n + 1, Len(v))
        /\ \A i \in 1 .. n : Stop(v[i]) <= ack
  BY <1>1, <1>3, <1>4, UnsentPrefix
<1>6. Len(v) \in Nat /\ ack \in Nat
  BY <1>1, SegmentQueue, SizeFacts DEF Low
<1>7. n = 0
  <2> SUFFICES ASSUME 1 <= n PROVE FALSE
    BY <1>5
  <2>1. 1 \in 1 .. n /\ 1 \in 1 .. Len(v)
    BY <1>5, <1>6
  <2>2. la < Stop(v[1]) /\ Stop(v[1]) <= ack /\ Shaped(v[1])
    BY <1>2, <1>3, <1>5, <2>1
  <2>3. Stop(v[1]) \in Nat
    BY <2>2, SMTT(30) DEF Shaped, Stop, TcpLen
  <2> QED
    BY <1>1, <1>6, <2>2, <2>3
<1>8. SubSeq(v, 1, Len(v)) = v
  <2>1. SubSeq(v, 1, Len(v)) \in Seq(Segment) /\ Len(SubSeq(v, 1, Len(v))) = Len(v)
        /\ \A i \in 1 .. Len(v) : SubSeq(v, 1, Len(v))[i] = v[i]
    BY <1>1, <1>6, PrefixIs
  <2> QED
    BY <1>1, <2>1, SeqEqual
<1>9. After(v, LAMBDA s : Between(ack, End(s), nxt)) = v
  <2> DEFINE rest == After(v, LAMBDA s : Between(ack, End(s), nxt))
  <2> HIDE DEF rest
  <2>1. rest = SubSeq(v, n + 1, Len(v))
    BY <1>5 DEF rest
  <2>2. n + 1 = 1
    BY <1>7
  <2> QED
    BY <1>8, <2>1, <2>2 DEF rest
<1>10. UnsentAcked(p, ack) = [p EXCEPT !.unsent = v]
  BY <1>9 DEF UnsentAcked
<1> QED
  BY <1>10 DEF Block

\* A new acknowledgement frees what it covers, on both queues.
LEMMA NewAckKeeps ==
  ASSUME NEW d, FlowOK(d), NEW p \in Block, QueuesOK(p, d), p.snd_nxt = d.sent, d.first <= p.lastack,
         p.snd_lbb <= EndOf(d), p.snd_buf >= 0, Mss <= p.cwnd,
         Wnd - Mss <= p.snd_wnd, p.snd_wnd <= Wnd, p.state # "TIME_WAIT",
         NEW ack \in Nat, p.lastack < ack, ack <= d.first + d.got, ack + p.snd_wnd <= d.limit
  PROVE  LET v == UnsentAcked(NewAck(p, ack), ack)
         IN  /\ v \in Block /\ Snd(v, d)
             /\ v.lastack = ack /\ v.state = p.state /\ v.rxclosed = p.rxclosed
             /\ v.snd_wl1 = p.snd_wl1 /\ v.snd_wl2 = p.snd_wl2
             /\ v.rcv_nxt = p.rcv_nxt /\ v.rcv_wnd = p.rcv_wnd /\ v.rcv_ann_wnd = p.rcv_ann_wnd
             /\ v.edge = p.edge /\ v.ooseq = p.ooseq
<1> DEFINE u == p.unacked
           w == p.unsent
           la == p.lastack
           nxt == p.snd_nxt
           cw == CapWnd(IF p.cwnd < p.ssthresh THEN p.cwnd + Mss ELSE p.cwnd + (Mss * Mss) \div p.cwnd)
           a == After(u, LAMBDA s : LEQ(End(s), ack))
           b == After(w, LAMBDA s : Between(ack, End(s), nxt))
           buf == p.snd_buf + Diff(ack, la)
           v == UnsentAcked(NewAck(p, ack), ack)
<1>1. /\ u \in Seq(Segment) /\ w \in Seq(Segment) /\ la \in Nat /\ nxt \in Nat /\ p.cwnd \in Nat
      /\ p.ssthresh \in Nat /\ p.snd_buf \in Int /\ p.snd_lbb \in Nat /\ p.snd_wnd \in Nat
  BY DEF Block
<1>2. Queue(u, w, la, d) /\ SentOK(u, d) /\ p.snd_buf = SndBuf - (p.snd_lbb - la)
      /\ p.snd_lbb \in {EndOf(d), EndOf(d) - Bit(d.closed)}
  BY DEF QueuesOK
<1>3. /\ Run(w, EndOf(d), d) /\ Run(u, StartOf(w, EndOf(d)), d) /\ EndOf(d) \in Nat
      /\ StartOf(w, EndOf(d)) \in Nat
  BY <1>1, <1>2, QueueFacts
<1>4. /\ \A i \in 1 .. Len(u) : Own(u[i], d) /\ Shaped(u[i])
      /\ \A i \in 1 .. Len(w) : Own(w[i], d) /\ Shaped(w[i])
  BY <1>1, <1>3, RunOrder
<1>5. /\ d.sent <= EndOf(d) /\ EndOf(d) + 2 * Wnd + 1 <= Half /\ d.first + d.got <= d.sent
      /\ d.first \in Nat /\ d.got \in Nat /\ d.sent \in Nat /\ d.limit \in Nat
  BY FlowFacts
<1>6. ack \in Low /\ la \in Low /\ nxt \in Low /\ ack <= nxt /\ ack <= EndOf(d)
  <2>1. nxt = d.sent /\ la < ack /\ la \in Nat /\ nxt \in Nat /\ ack <= d.first + d.got
    BY <1>1
  <2> DEFINE z == EndOf(d)
  <2> HIDE DEF la, nxt, z
  <2>2. z \in Nat /\ d.sent <= z /\ z + 2 * Wnd + 1 <= Half /\ d.first + d.got <= d.sent
    BY <1>3, <1>5 DEF z
  <2>3. ack < Half /\ la < Half /\ nxt < Half /\ ack <= nxt /\ ack <= z
    BY ONLY <1>5, <2>1, <2>2, SizeFacts, ack \in Nat
  <2> QED
    BY <2>1, <2>3, SizeFacts DEF Low, z
<1>7. PICK n \in 0 .. Len(u) :
        /\ a = SubSeq(u, n + 1, Len(u))
        /\ \A i \in 1 .. n : Stop(u[i]) <= ack
        /\ n < Len(u) => ~(Stop(u[n + 1]) <= ack)
  BY <1>1, <1>4, <1>6, AckedPrefix
<1>8. PICK m \in 0 .. Len(w) :
        /\ b = SubSeq(w, m + 1, Len(w))
        /\ \A i \in 1 .. m : Stop(w[i]) <= ack
        /\ m < Len(w) => ~(Stop(w[m + 1]) <= ack)
  BY <1>1, <1>4, <1>6, UnsentPrefix, ZenonT(60)
<1>9. /\ a \in Seq(Segment) /\ b \in Seq(Segment)
      /\ Len(a) = Len(u) - n /\ \A i \in 1 .. Len(a) : a[i] = u[n + i]
      /\ Queue(a, b, ack, d)
  <2> HIDE DEF a, b, u, w, la
  <2>1. LET x == SubSeq(u, n + 1, Len(u))
            y == SubSeq(w, m + 1, Len(w))
        IN  /\ x \in Seq(Segment) /\ y \in Seq(Segment)
            /\ Len(x) = Len(u) - n /\ \A i \in 1 .. Len(x) : x[i] = u[n + i]
            /\ Queue(x, y, ack, d)
    <3>1. la < ack
      BY DEF la
    <3>2. /\ \A i \in 1 .. n : Stop(u[i]) <= ack
          /\ n < Len(u) => ~(Stop(u[n + 1]) <= ack)
          /\ \A i \in 1 .. m : Stop(w[i]) <= ack
          /\ m < Len(w) => ~(Stop(w[m + 1]) <= ack)
      BY <1>7, <1>8
    <3>3. u \in Seq(Segment) /\ w \in Seq(Segment) /\ la \in Nat /\ Queue(u, w, la, d) /\ ack <= EndOf(d)
      BY <1>1, <1>2, <1>6
    <3> QED
      BY ONLY FlowOK(d), <3>1, <3>2, <3>3, ack \in Nat, n \in 0 .. Len(u), m \in 0 .. Len(w), QueueAck
  <2> QED
    BY <1>7, <1>8, <2>1
<1>10. cw \in Nat /\ Mss <= cw
  BY <1>1, WindowGrows
<1>11. buf = p.snd_buf + (ack - la) /\ buf \in Int
  <2>1. Diff(ack, la) = ack - la
    BY <1>1, <1>6, LowDiff
  <2> QED
    BY <1>1, <2>1
<1>12. NewAck(p, ack) = [p EXCEPT !.nrtx = 0, !.dupacks = 0, !.lastack = ack, !.snd_buf = buf, !.cwnd = cw,
                           !.unacked = a, !.rtime = a # <<>>]
  BY DEF NewAck
<1>13. v = [p EXCEPT !.nrtx = 0, !.dupacks = 0, !.lastack = ack, !.snd_buf = buf, !.cwnd = cw,
                     !.unacked = a, !.rtime = a # <<>>, !.unsent = b]
  <2>1. NewAck(p, ack).unsent = w /\ NewAck(p, ack).snd_nxt = nxt
    BY <1>12 DEF Block
  <2>2. v = [NewAck(p, ack) EXCEPT !.unsent = b]
    BY <2>1 DEF UnsentAcked
  <2> HIDE DEF a, b, cw, buf, v
  <2> QED
    BY <1>12, <2>2 DEF Block
<1> HIDE DEF v, a, b, cw, buf
<1>14. v \in Block
  BY <1>9, <1>10, <1>11, <1>13 DEF Block
<1>15. /\ v.lastack = ack /\ v.state = p.state /\ v.rxclosed = p.rxclosed
       /\ v.snd_wl1 = p.snd_wl1 /\ v.snd_wl2 = p.snd_wl2
       /\ v.rcv_nxt = p.rcv_nxt /\ v.rcv_wnd = p.rcv_wnd /\ v.rcv_ann_wnd = p.rcv_ann_wnd
       /\ v.edge = p.edge /\ v.ooseq = p.ooseq
       /\ v.snd_buf = buf /\ v.cwnd = cw /\ v.unacked = a /\ v.rtime = (a # <<>>) /\ v.unsent = b
       /\ v.snd_nxt = nxt /\ v.snd_lbb = p.snd_lbb /\ v.snd_wnd = p.snd_wnd
  BY <1>13 DEF Block
<1>16. SentOK(a, d)
  <2> SUFFICES ASSUME NEW i \in 1 .. Len(a)
               PROVE  Stop(a[i]) <= d.sent /\ (a[i].len > 0 => a[i].seq + a[i].len <= d.limit)
    BY DEF SentOK
  <2>1. a[i] = u[n + i] /\ n + i \in 1 .. Len(u)
    BY <1>1, <1>9, SegmentQueue, SMTT(30)
  <2> QED
    BY <1>2, <2>1 DEF SentOK
<1>17. buf >= 0 /\ buf = SndBuf - (p.snd_lbb - ack)
  <2> DEFINE x == p.snd_buf
             y == p.snd_lbb
  <2>1. x >= 0 /\ x \in Int /\ y \in Nat /\ x = SndBuf - (y - la) /\ buf = x + (ack - la) /\ la < ack
        /\ la \in Nat /\ SndBuf \in Nat
    BY <1>1, <1>2, <1>11, SizeFacts
  <2> HIDE DEF x, y, la
  <2>2. buf >= 0 /\ buf = SndBuf - (y - ack)
    BY ONLY <2>1, ack \in Nat
  <2> QED
    BY <2>2 DEF y
<1>18. QueuesOK(v, d)
  BY <1>2, <1>9, <1>15, <1>16, <1>17 DEF QueuesOK
<1>19. Snd(v, d)
  <2>1. d.first <= ack
    BY <1>1, <1>5
  <2> QED
    BY <1>10, <1>15, <1>17, <1>18, <2>1 DEF Snd
<1> QED
  BY <1>14, <1>15, <1>19 DEF v

\* A duplicate acknowledgement finds a segment to send again.
LEMMA DupAckKeeps ==
  ASSUME NEW d, FlowOK(d), NEW r, FlowOK(r), NEW w \in WorkSet, Snd(w.p, d), Rcv(w.p, r),
         FramesOK(w, d, r), w.p.state # "TIME_WAIT", w.p.unacked # <<>>
  PROVE  LET v == DupAck(w)
         IN  v \in WorkSet /\ Snd(v.p, d) /\ Rcv(v.p, r) /\ FramesOK(v, d, r) /\ Kept(w, v)
<1> DEFINE v == DupAck(w)
           p == w.p
           n == IF p.dupacks < 4 THEN p.dupacks + 1 ELSE p.dupacks
           p1 == [p EXCEPT !.dupacks = n]
           x == p.rcv_nxt + p.rcv_ann_wnd
           s == p.unacked[1]
           c == CapWnd(p.cwnd + Mss)
<1>1. /\ p \in Block /\ w.out \in Frames /\ p.unacked \in Seq(Segment) /\ p.dupacks \in Nat
      /\ p.cwnd \in Nat /\ p.edge \in Nat /\ p.unsent \in Seq(Segment) /\ p.lastack \in Nat
  BY DEF WorkSet, Block
<1>2. n \in Nat /\ p1 \in Block
  <2>1. n \in Nat
    BY <1>1
  <2> QED
    BY <1>1, <2>1 DEF Block
<1> HIDE DEF n
<1>3. /\ p1.snd_lbb = p.snd_lbb /\ p1.snd_buf = p.snd_buf /\ p1.unsent = p.unsent /\ p1.unacked = p.unacked
      /\ p1.snd_nxt = p.snd_nxt /\ p1.lastack = p.lastack /\ p1.snd_wnd = p.snd_wnd /\ p1.cwnd = p.cwnd
      /\ p1.rtime = p.rtime /\ p1.state = p.state /\ p1.rxclosed = p.rxclosed
      /\ p1.snd_wl1 = p.snd_wl1 /\ p1.snd_wl2 = p.snd_wl2
      /\ p1.rcv_nxt = p.rcv_nxt /\ p1.rcv_wnd = p.rcv_wnd /\ p1.rcv_ann_wnd = p.rcv_ann_wnd
      /\ p1.edge = p.edge /\ p1.ooseq = p.ooseq
  BY <1>1 DEF Block
<1> HIDE DEF p1
<1>4. Snd(p1, d)
  <2>1. QueuesOK(p, d) => QueuesOK(p1, d)
    BY <1>3 DEF QueuesOK
  <2> QED
    BY <1>3, <2>1 DEF Snd
<1>5. Rcv(p1, r)
  BY <1>3 DEF Rcv, OoseqOK
<1>6. CASE p.dupacks < 2
  <2>1. v = [w EXCEPT !.p = p1]
    BY <1>6 DEF DupAck, p1, n
  <2> HIDE DEF v
  <2>2. v \in WorkSet /\ v.p = p1 /\ v.out = w.out /\ v.data = w.data /\ v.fin = w.fin
    BY <1>2, <2>1 DEF WorkSet
  <2>3. FramesOK(v, d, r)
    BY <1>3, <2>2 DEF FramesOK
  <2>4. Kept(w, v)
    BY <1>1, <1>3, <2>2 DEF Kept
  <2> QED
    BY <1>4, <1>5, <2>2, <2>3, <2>4 DEF v
<1>7. CASE p.dupacks = 2
  <2>1. v = [w EXCEPT !.p = Announced(p1), !.out = @ \cup {Sent(p1, p1.unacked[1])}]
    BY <1>1, <1>7 DEF DupAck, p1, n
  <2> DEFINE a == Sent(p1, p1.unacked[1])
             p2 == [p1 EXCEPT !.edge = x]
  <2>2. Announced(p1) = p2 /\ x \in Nat /\ p.edge <= x
    BY <1>2, <1>3, <1>5, AnnouncedIs
  <2>3. Len(p.unacked) \in Nat /\ 1 \in 1 .. Len(p.unacked)
    BY <1>1, SegmentQueue
  <2>4. Queue(p.unacked, p.unsent, p.lastack, d) /\ SentOK(p.unacked, d)
    BY DEF Snd, QueuesOK
  <2>5. /\ Run(p.unacked, StartOf(p.unsent, EndOf(d)), d) /\ StartOf(p.unsent, EndOf(d)) \in Nat
    BY <1>1, <2>4, QueueFacts
  <2>6. Own(s, d) /\ Shaped(s)
    BY <1>1, <2>3, <2>5, RunOrder
  <2>7. Stop(s) <= d.sent /\ (s.len > 0 => s.seq + s.len <= d.limit)
    BY <2>3, <2>4 DEF SentOK
  <2>8. d.first <= s.seq
    BY <2>6 DEF Own
  <2>9. a \in Frame /\ FrameOK(a, d, r) /\ a.ack + a.wnd = x
    BY <1>2, <1>3, <1>5, <2>6, <2>7, <2>8, SentFrame
  <2>10. p2 \in Block
    BY <1>2, <2>2 DEF Block
  <2>11. /\ p2.snd_lbb = p1.snd_lbb /\ p2.snd_buf = p1.snd_buf /\ p2.unsent = p1.unsent
         /\ p2.unacked = p1.unacked
         /\ p2.snd_nxt = p1.snd_nxt /\ p2.lastack = p1.lastack /\ p2.snd_wnd = p1.snd_wnd
         /\ p2.cwnd = p1.cwnd
         /\ p2.rtime = p1.rtime /\ p2.state = p1.state /\ p2.rxclosed = p1.rxclosed
         /\ p2.snd_wl1 = p1.snd_wl1 /\ p2.snd_wl2 = p1.snd_wl2
         /\ p2.rcv_nxt = p1.rcv_nxt /\ p2.rcv_wnd = p1.rcv_wnd /\ p2.rcv_ann_wnd = p1.rcv_ann_wnd
         /\ p2.edge = x /\ p2.ooseq = p1.ooseq
    BY <1>2 DEF Block
  <2> HIDE DEF v, a, p2, x
  <2>12. v \in WorkSet /\ v.p = p2 /\ v.out = w.out \cup {a} /\ v.data = w.data /\ v.fin = w.fin
    <3>1. w.out \cup {a} \in Frames
      BY <1>1, <2>9, FramesIs
    <3> QED
      BY <1>1, <2>1, <2>2, <2>9, <2>10, <3>1 DEF WorkSet, a
  <2>13. FramesOK(v, d, r)
    <3>1. w.p.edge <= v.p.edge
      BY <2>2, <2>11, <2>12
    <3>2. a.ack + a.wnd <= v.p.edge
      BY <2>2, <2>9, <2>11, <2>12
    <3>3. \A t \in v.out : t \in w.out \/ (FrameOK(t, d, r) /\ (~t.rst => t.ack + t.wnd <= v.p.edge))
      BY <2>9, <2>12, <3>2
    <3> QED
      BY <2>12, <3>1, <3>3, FramesMore, SameFlow
  <2>14. Snd(p2, d)
    <3>1. QueuesOK(p1, d) => QueuesOK(p2, d)
      BY <2>11 DEF QueuesOK
    <3> QED
      BY <1>4, <2>11, <3>1 DEF Snd
  <2>15. Rcv(p2, r)
    <3>1. p2.edge <= p2.rcv_nxt + p2.rcv_ann_wnd
      BY <1>3, <2>2, <2>11 DEF x
    <3> QED
      BY <1>5, <2>11, <3>1 DEF Rcv, OoseqOK
  <2>16. Kept(w, v)
    BY <1>3, <2>2, <2>11, <2>12 DEF Kept
  <2> QED
    BY <2>12, <2>13, <2>14, <2>15, <2>16 DEF v
<1>8. CASE p.dupacks > 2
  <2>1. v = [w EXCEPT !.p = [p1 EXCEPT !.cwnd = CapWnd(@ + Mss)]]
    BY <1>1, <1>8 DEF DupAck, p1, n
  <2> DEFINE p2 == [p1 EXCEPT !.cwnd = c]
  <2>2. c \in Nat /\ Mss <= c
    <3>1. Mss <= p.cwnd
      BY DEF Snd
    <3>2. p.cwnd + Mss \in Nat /\ Mss <= p.cwnd + Mss
      BY <1>1, <3>1, SizeFacts
    <3> QED
      BY <3>2, CapWndIs
  <2>3. [p1 EXCEPT !.cwnd = CapWnd(@ + Mss)] = p2
    BY <1>3
  <2> HIDE DEF c
  <2>10. p2 \in Block
    BY <1>2, <2>2 DEF Block
  <2>11. /\ p2.snd_lbb = p1.snd_lbb /\ p2.snd_buf = p1.snd_buf /\ p2.unsent = p1.unsent
         /\ p2.unacked = p1.unacked
         /\ p2.snd_nxt = p1.snd_nxt /\ p2.lastack = p1.lastack /\ p2.snd_wnd = p1.snd_wnd
         /\ p2.cwnd = c
         /\ p2.rtime = p1.rtime /\ p2.state = p1.state /\ p2.rxclosed = p1.rxclosed
         /\ p2.snd_wl1 = p1.snd_wl1 /\ p2.snd_wl2 = p1.snd_wl2
         /\ p2.rcv_nxt = p1.rcv_nxt /\ p2.rcv_wnd = p1.rcv_wnd /\ p2.rcv_ann_wnd = p1.rcv_ann_wnd
         /\ p2.edge = p1.edge /\ p2.ooseq = p1.ooseq
    BY <1>2 DEF Block
  <2> HIDE DEF v, p2
  <2>12. v \in WorkSet /\ v.p = p2 /\ v.out = w.out /\ v.data = w.data /\ v.fin = w.fin
    BY <2>1, <2>3, <2>10 DEF WorkSet
  <2>13. FramesOK(v, d, r)
    BY <1>3, <2>11, <2>12 DEF FramesOK
  <2>14. Snd(p2, d)
    <3>1. QueuesOK(p1, d) => QueuesOK(p2, d)
      BY <2>11 DEF QueuesOK
    <3> QED
      BY <1>4, <2>2, <2>11, <3>1 DEF Snd
  <2>15. Rcv(p2, r)
    BY <1>5, <2>11 DEF Rcv, OoseqOK
  <2>16. Kept(w, v)
    BY <1>1, <1>3, <2>11, <2>12 DEF Kept
  <2> QED
    BY <2>12, <2>13, <2>14, <2>15, <2>16 DEF v
<1> QED
  BY <1>1, <1>6, <1>7, <1>8

\* tcp_receive, first part: an acknowledgement keeps the invariants of both directions,
\* except that nothing may be on its way although something is still unsent.
LEMMA AckKeeps ==
  ASSUME NEW d, FlowOK(d), NEW r, FlowOK(r), NEW w \in WorkSet, Snd(w.p, d), Rcv(w.p, r),
         FramesOK(w, d, r), w.p.state # "TIME_WAIT",
         NEW m \in Frame, ~m.rst, FrameOK(m, r, d), EdgeKnown(w.p, d, r, m)
  PROVE  LET v == AckIn(w, m)
         IN  /\ v \in WorkSet /\ Snd(v.p, d) /\ Rcv(v.p, r) /\ FramesOK(v, d, r)
             /\ v.data = w.data /\ v.fin = w.fin /\ v.p.state = w.p.state /\ v.p.rxclosed = w.p.rxclosed
             /\ v.p.rcv_nxt = w.p.rcv_nxt /\ w.p.edge <= v.p.edge
             /\ Quiet(w.p, d, r) /\ r.sent = r.first => Quiet(v.p, d, r)
<1> DEFINE v == AckIn(w, m)
           p == w.p
           q == WindowUpdated(p, m)
           la == p.lastack
           w1 == [w EXCEPT !.p = q]
<1>1. /\ p \in Block /\ w.out \in Frames /\ la \in Nat /\ p.snd_nxt \in Nat /\ p.edge \in Nat
      /\ p.unacked \in Seq(Segment) /\ p.unsent \in Seq(Segment)
  BY DEF WorkSet, Block
<1>2. /\ d.first <= la /\ la <= d.first + d.got /\ p.snd_nxt = d.sent /\ p.snd_lbb <= EndOf(d)
      /\ p.snd_buf >= 0 /\ Mss <= p.cwnd /\ QueuesOK(p, d)
  BY DEF Snd
<1>3. Queue(p.unacked, p.unsent, la, d) /\ (p.rtime <=> p.unacked # <<>>)
  BY <1>2 DEF QueuesOK
<1>4. /\ d.sent <= EndOf(d) /\ EndOf(d) + 2 * Wnd + 1 <= Half /\ d.first + d.got <= d.sent
      /\ d.first \in Nat /\ d.got \in Nat /\ d.sent \in Nat /\ d.limit \in Nat /\ EndOf(d) \in Nat
  BY FlowFacts
<1>5. m.ack \in Nat /\ d.first <= m.ack /\ m.ack <= d.first + d.got
  BY DEF FrameOK, Frame
<1>6. /\ la \in Low /\ m.ack \in Low /\ p.snd_nxt \in Low /\ m.ack <= p.snd_nxt
      /\ la + 1 \in Nat /\ (la < m.ack => la + 1 \in Low)
  <2> DEFINE z == EndOf(d)
             nxt == p.snd_nxt
             ack == m.ack
  <2> HIDE DEF la, nxt, z, ack
  <2>1. z \in Nat /\ d.sent <= z /\ z + 2 * Wnd + 1 <= Half /\ d.first + d.got <= d.sent /\ nxt = d.sent
        /\ la <= d.first + d.got /\ la \in Nat /\ nxt \in Nat /\ ack \in Nat /\ ack <= d.first + d.got
    BY <1>1, <1>2, <1>4, <1>5 DEF z, la, nxt, ack
  <2>2. ack < Half /\ la < Half /\ nxt < Half /\ ack <= nxt /\ la + 1 \in Nat /\ la + 1 < Half
    BY ONLY <1>4, <2>1, SizeFacts
  <2> QED
    BY <2>1, <2>2, SizeFacts DEF Low, ack, nxt, la
<1>7. /\ q \in Block
      /\ SameButWindow(p, q)
      /\ Wnd - Mss <= q.snd_wnd /\ q.snd_wnd <= Wnd /\ Later(la, m.ack) + q.snd_wnd <= d.limit
      /\ Quiet(p, d, r) /\ r.sent = r.first =>
           /\ q.snd_wl2 = Later(la, m.ack) /\ q.snd_wl1 \in {Diff(r.first, 2), r.first}
           /\ q.snd_wl1 = Diff(r.first, 2) => Later(la, m.ack) = d.first
  <2>1. p \in Block /\ Snd(p, d) /\ p.lastack \in Low /\ EdgeKnown(p, d, r, m)
    BY <1>1, <1>6
  <2> HIDE DEF p
  <2> QED
    BY ONLY <2>1, FlowOK(d), FlowOK(r), m \in Frame, ~m.rst, FrameOK(m, r, d), WindowTaken
<1> HIDE DEF q
<1>8. /\ q.snd_lbb = p.snd_lbb /\ q.snd_buf = p.snd_buf /\ q.unsent = p.unsent /\ q.unacked = p.unacked
      /\ q.snd_nxt = p.snd_nxt /\ q.lastack = la /\ q.cwnd = p.cwnd
      /\ q.rtime = p.rtime /\ q.state = p.state /\ q.rxclosed = p.rxclosed
      /\ q.rcv_nxt = p.rcv_nxt /\ q.rcv_wnd = p.rcv_wnd /\ q.rcv_ann_wnd = p.rcv_ann_wnd
      /\ q.edge = p.edge /\ q.ooseq = p.ooseq
  BY <1>7 DEF SameButWindow
<1>9. QueuesOK(q, d) /\ Rcv(q, r)
  BY <1>2, <1>8 DEF QueuesOK, Rcv, OoseqOK
<1>10. /\ w1 \in WorkSet /\ w1.p = q /\ w1.out = w.out /\ w1.data = w.data /\ w1.fin = w.fin
  BY <1>7 DEF WorkSet
<1> HIDE DEF w1
<1>11. FramesOK(w1, d, r)
  BY <1>8, <1>10 DEF FramesOK
<1>12. LEQ(m.ack, la) <=> m.ack <= la
  BY <1>6, LowOrder
<1>13. q.snd_wnd \in Nat
  BY <1>7 DEF Block
<1>14. CASE m.ack <= la
  <2> DEFINE u == IF IsDupAck(p, q, m) THEN DupAck(w1) ELSE [w1 EXCEPT !.p.dupacks = 0]
  <2>1. v = [u EXCEPT !.p = UnsentAcked(@, m.ack)]
    BY <1>8, <1>12, <1>14 DEF AckIn, w1, q
  <2>2. Later(la, m.ack) = la
    BY <1>1, <1>5, <1>14 DEF Later
  <2>3. Snd(q, d)
    BY <1>2, <1>7, <1>8, <1>9, <2>2 DEF Snd
  <2>4. u \in WorkSet /\ Snd(u.p, d) /\ Rcv(u.p, r) /\ FramesOK(u, d, r) /\ Kept(w1, u)
    <3>1. CASE IsDupAck(p, q, m)
      <4>1. p.unacked # <<>>
        BY <1>3, <3>1 DEF IsDupAck
      <4> QED
        BY <1>8, <1>9, <1>10, <1>11, <2>3, <3>1, <4>1, DupAckKeeps
    <3>2. CASE ~IsDupAck(p, q, m)
      <4> DEFINE q2 == [q EXCEPT !.dupacks = 0]
      <4>1. u = [w1 EXCEPT !.p = q2]
        BY <1>10, <3>2 DEF WorkSet
      <4>2. q2 \in Block
        BY <1>7 DEF Block
      <4>3. /\ q2.snd_lbb = q.snd_lbb /\ q2.snd_buf = q.snd_buf /\ q2.unsent = q.unsent /\ q2.unacked = q.unacked
            /\ q2.snd_nxt = q.snd_nxt /\ q2.lastack = q.lastack /\ q2.snd_wnd = q.snd_wnd /\ q2.cwnd = q.cwnd
            /\ q2.rtime = q.rtime /\ q2.state = q.state /\ q2.rxclosed = q.rxclosed
            /\ q2.snd_wl1 = q.snd_wl1 /\ q2.snd_wl2 = q.snd_wl2
            /\ q2.rcv_nxt = q.rcv_nxt /\ q2.rcv_wnd = q.rcv_wnd /\ q2.rcv_ann_wnd = q.rcv_ann_wnd
            /\ q2.edge = q.edge /\ q2.ooseq = q.ooseq
        BY <1>7 DEF Block
      <4> HIDE DEF q2, u
      <4>4. u \in WorkSet /\ u.p = q2 /\ u.out = w1.out /\ u.data = w1.data /\ u.fin = w1.fin
        BY <1>10, <4>1, <4>2 DEF WorkSet
      <4>5. Snd(q2, d)
        <5>1. QueuesOK(q2, d)
          BY <1>9, <4>3 DEF QueuesOK
        <5> QED
          BY <2>3, <4>3, <5>1 DEF Snd
      <4>6. Rcv(q2, r)
        BY <1>9, <4>3 DEF Rcv, OoseqOK
      <4>7. FramesOK(u, d, r)
        BY <1>10, <1>11, <4>3, <4>4 DEF FramesOK
      <4>8. Kept(w1, u)
        BY <1>1, <1>8, <1>10, <4>3, <4>4 DEF Kept
      <4> QED
        BY <4>4, <4>5, <4>6, <4>7, <4>8
    <3> QED
      BY <3>1, <3>2
  <2> HIDE DEF u, v
  <2>5. u.p \in Block /\ u.p.state # "TIME_WAIT" /\ u.p.lastack = la
    BY <1>8, <1>10, <2>4 DEF WorkSet, Kept
  <2>6. UnsentAcked(u.p, m.ack) = u.p
    <3>1. Queue(u.p.unacked, u.p.unsent, u.p.lastack, d) /\ u.p.snd_nxt = d.sent
      BY <2>4, <2>5 DEF Snd, QueuesOK
    <3>2. m.ack <= u.p.snd_nxt
      BY <1>2, <1>6, <3>1
    <3> QED
      BY <1>6, <1>14, <2>5, <3>1, <3>2, UnsentStays
  <2>7. v = u
    BY <2>1, <2>4, <2>6 DEF WorkSet
  <2>8. Quiet(p, d, r) /\ r.sent = r.first => Quiet(u.p, d, r)
    BY <1>7, <1>10, <2>2, <2>4, <2>5 DEF Quiet, Kept
  <2> QED
    BY <1>1, <1>8, <1>10, <2>4, <2>7, <2>8 DEF Kept, v
<1>15. CASE la < m.ack
  <2>1. Later(la, m.ack) = m.ack
    BY <1>1, <1>5, <1>15 DEF Later
  <2>2. Add(la, 1) = la + 1
    BY <1>1, <1>6, <1>15, LowAdd
  <2>3. Between(m.ack, Add(la, 1), p.snd_nxt)
    <3>1. la + 1 <= m.ack
      BY <1>1, <1>5, <1>15
    <3> QED
      BY <1>6, <1>15, <2>2, <3>1, LowOrder DEF Between
  <2>4. ~LEQ(m.ack, la)
    BY <1>1, <1>5, <1>12, <1>15
  <2> DEFINE u == [w1 EXCEPT !.p = NewAck(q, m.ack)]
             q2 == UnsentAcked(NewAck(q, m.ack), m.ack)
  <2>5. v = [u EXCEPT !.p = UnsentAcked(@, m.ack)]
    BY <1>8, <2>3, <2>4 DEF AckIn, w1, q
  <2>6. /\ q2 \in Block /\ Snd(q2, d)
        /\ q2.lastack = m.ack /\ q2.state = q.state /\ q2.rxclosed = q.rxclosed
        /\ q2.snd_wl1 = q.snd_wl1 /\ q2.snd_wl2 = q.snd_wl2
        /\ q2.rcv_nxt = q.rcv_nxt /\ q2.rcv_wnd = q.rcv_wnd /\ q2.rcv_ann_wnd = q.rcv_ann_wnd
        /\ q2.edge = q.edge /\ q2.ooseq = q.ooseq
    BY <1>2, <1>5, <1>7, <1>8, <1>9, <1>15, <2>1, NewAckKeeps
  <2>7. v = [w1 EXCEPT !.p = q2]
    BY <1>10, <2>5 DEF WorkSet
  <2> HIDE DEF q2, u, v
  <2>8. v \in WorkSet /\ v.p = q2 /\ v.out = w1.out /\ v.data = w1.data /\ v.fin = w1.fin
    BY <1>10, <2>6, <2>7 DEF WorkSet
  <2>9. Rcv(q2, r)
    BY <1>9, <2>6 DEF Rcv, OoseqOK
  <2>10. FramesOK(v, d, r)
    BY <1>10, <1>11, <2>6, <2>8 DEF FramesOK
  <2>11. Quiet(p, d, r) /\ r.sent = r.first => Quiet(q2, d, r)
    BY <1>7, <2>1, <2>6 DEF Quiet
  <2> QED
    BY <1>1, <1>8, <1>10, <2>6, <2>8, <2>9, <2>10, <2>11 DEF v
<1> QED
  BY <1>1, <1>5, <1>14, <1>15

-----------------------------------------------------------------------------
(* tcp_receive: segments out of order *)

\* A function on 1 .. n is a sequence.
LEMMA FunIsSeq ==
  ASSUME NEW S, NEW n \in Nat, NEW f \in [1 .. n -> S]
  PROVE  f \in Seq(S) /\ Len(f) = n
OBVIOUS

\* The elements of a queue of fragments.
LEMMA FragmentQueue ==
  ASSUME NEW q \in Seq(Fragment)
  PROVE  /\ Len(q) \in Nat /\ (q = <<>> <=> Len(q) = 0) /\ <<>> \in Seq(Fragment)
         /\ \A i \in 1 .. Len(q) : q[i] \in Fragment /\ Shaped(q[i])
BY EmptySeq, ElementOfSeq, LenProperties, SegmentShape

\* What holds of a fragment of a stream, as arithmetic.
LEMMA FragmentFacts ==
  ASSUME NEW d, FlowOK(d), NEW s \in Fragment, Own(s, d)
  PROVE  /\ s.seq \in Nat /\ s.len \in Nat /\ s.pos \in Nat /\ s.held \in Nat /\ s.fin \in BOOLEAN /\ Shaped(s)
         /\ Stop(s) = s.seq + s.len + (IF s.fin THEN 1 ELSE 0) /\ Stop(s) \in Nat
         /\ s.seq \in Low /\ Stop(s) \in Low /\ s.seq + s.len \in Low
         /\ End(s) = Stop(s) /\ Add(s.seq, s.len) = s.seq + s.len
         /\ s.seq < Stop(s) /\ TcpLen(s) = s.len + (IF s.fin THEN 1 ELSE 0)
         /\ d.first <= s.seq /\ s.seq + s.len <= d.first + d.written /\ s.len <= Mss
<1>1. s.seq \in Nat /\ s.len \in Nat /\ s.pos \in Nat /\ s.held \in Nat /\ s.fin \in BOOLEAN /\ Shaped(s)
  BY DEF Fragment, Shaped
<1>2. /\ s.seq \in Low /\ Stop(s) \in Low /\ s.seq + s.len \in Low
      /\ End(s) = Stop(s) /\ Add(s.seq, s.len) = s.seq + s.len
      /\ s.seq < Stop(s) /\ TcpLen(s) = s.len + (IF s.fin THEN 1 ELSE 0) /\ Stop(s) = s.seq + TcpLen(s)
      /\ d.first <= s.seq
  BY <1>1, OwnFacts
<1>3. s.seq + s.len <= d.first + d.written /\ s.len <= Mss
  BY DEF Own
<1>4. Stop(s) = s.seq + s.len + (IF s.fin THEN 1 ELSE 0) /\ Stop(s) \in Nat
  BY <1>1, <1>2
<1> QED
  BY <1>1, <1>2, <1>3, <1>4

\* A piece of stream cut at b.
LEMMA CutIs ==
  ASSUME NEW d, FlowOK(d), NEW s \in Fragment, Own(s, d), s.held = s.len,
         NEW b \in Low, s.seq < b, b <= s.seq + s.len
  PROVE  LET u == [UpTo(s, b) EXCEPT !.fin = FALSE]
         IN  /\ u \in Fragment /\ Own(u, d) /\ u.held = u.len
             /\ u.seq = s.seq /\ u.len = b - s.seq /\ u.fin = FALSE /\ Stop(u) = b /\ u.pos = s.pos
             /\ ~s.fin => UpTo(s, b) = u
<1> DEFINE n == b - s.seq
           u == [UpTo(s, b) EXCEPT !.fin = FALSE]
           c == [s EXCEPT !.len = n, !.held = n, !.fin = FALSE]
<1>1. /\ s.seq \in Nat /\ s.len \in Nat /\ s.pos \in Nat /\ s.held \in Nat /\ s.fin \in BOOLEAN
      /\ s.seq \in Low
  BY FragmentFacts
<1>2. b \in Nat /\ n \in Nat /\ n > 0 /\ n <= s.len
  BY <1>1, SizeFacts DEF Low
<1>3. Diff(b, s.seq) = n
  BY <1>1, <1>2, LowDiff
<1>4. LeastOf(s.held, n) = n
  BY <1>1, <1>2 DEF LeastOf
<1> HIDE DEF n
<1>5. UpTo(s, b) = [s EXCEPT !.len = n, !.held = n]
  BY <1>3, <1>4 DEF UpTo
<1>6. u = c /\ (~s.fin => UpTo(s, b) = c)
  BY <1>1, <1>5 DEF Fragment
<1>7. /\ c \in Fragment /\ c.held = n /\ c.len = n /\ c.seq = s.seq /\ c.fin = FALSE /\ c.pos = s.pos
  BY <1>1, <1>2 DEF Fragment
<1> HIDE DEF c
<1>8. Stop(c) = b /\ TcpLen(c) = n
  BY <1>1, <1>2, <1>7 DEF Stop, TcpLen, n
<1>9. Own(c, d)
  <2>1. /\ d.first <= s.seq /\ s.seq + s.len <= d.first + d.written
        /\ s.len > 0 => s.seq = d.first + s.pos
        /\ s.len <= Mss /\ d.first \in Nat /\ d.written \in Nat /\ Mss \in Nat
    BY FlowFacts, SizeFacts DEF Own
  <2>2. s.seq + n <= d.first + d.written /\ n <= Mss /\ (n > 0 => s.len > 0)
    BY <1>1, <1>2, <2>1
  <2> QED
    BY <1>2, <1>7, <1>8, <2>1, <2>2 DEF Own
<1> QED
  BY <1>6, <1>7, <1>8, <1>9 DEF n

\* The fragments without the first n are in order.
LEMMA FragmentsSuffix ==
  ASSUME NEW d, NEW nxt, NEW q \in Seq(Fragment), Fragments(q, nxt, d), NEW n \in 0 .. Len(q)
  PROVE  LET r == SubSeq(q, n + 1, Len(q))
         IN  /\ r \in Seq(Fragment) /\ Len(r) = Len(q) - n /\ Fragments(r, nxt, d)
             /\ \A i \in 1 .. Len(r) : r[i] = q[n + i]
<1> DEFINE r == SubSeq(q, n + 1, Len(q))
<1>1. r \in Seq(Fragment) /\ Len(r) = Len(q) - n /\ \A i \in 1 .. Len(q) - n : r[i] = q[n + i]
  BY SuffixIs
<1>2. Len(q) \in Nat
  BY FragmentQueue
<1> HIDE DEF r
<1>3. \A i \in 1 .. Len(r) : r[i] = q[n + i] /\ n + i \in 1 .. Len(q)
  BY <1>1, <1>2
<1>4. \A i \in 1 .. Len(r) : Fits(r[i], nxt, d)
  BY <1>3 DEF Fragments
<1>5. Sorted(r)
  <2> SUFFICES ASSUME NEW i \in 1 .. Len(r), NEW j \in 1 .. Len(r), i < j
               PROVE  ~r[i].fin /\ Stop(r[i]) <= r[j].seq
    BY DEF Sorted
  <2>1. r[i] = q[n + i] /\ n + i \in 1 .. Len(q) /\ r[j] = q[n + j] /\ n + j \in 1 .. Len(q) /\ n + i < n + j
    BY <1>1, <1>2, <1>3
  <2> QED
    BY <2>1 DEF Fragments, Sorted
<1> QED
  BY <1>1, <1>3, <1>4, <1>5 DEF Fragments, r

\* The first n fragments are in order.
LEMMA FragmentsPrefix ==
  ASSUME NEW d, NEW nxt, NEW q \in Seq(Fragment), Fragments(q, nxt, d), NEW n \in 0 .. Len(q)
  PROVE  LET r == SubSeq(q, 1, n)
         IN  /\ r \in Seq(Fragment) /\ Len(r) = n /\ Fragments(r, nxt, d)
             /\ \A i \in 1 .. n : r[i] = q[i]
<1> DEFINE r == SubSeq(q, 1, n)
<1>1. r \in Seq(Fragment) /\ Len(r) = n /\ \A i \in 1 .. n : r[i] = q[i]
  BY PrefixIs
<1>2. Len(q) \in Nat
  BY FragmentQueue
<1> HIDE DEF r
<1>3. \A i \in 1 .. Len(r) : r[i] = q[i] /\ i \in 1 .. Len(q)
  BY <1>1, <1>2
<1>4. \A i \in 1 .. Len(r) : Fits(r[i], nxt, d)
  BY <1>3 DEF Fragments
<1>5. Sorted(r)
  BY <1>1, <1>2, <1>3 DEF Fragments, Sorted
<1> QED
  BY <1>1, <1>3, <1>4, <1>5 DEF Fragments, r

\* Fragments in front of later ones are in order.
LEMMA FragmentsConcat ==
  ASSUME NEW d, NEW nxt, NEW u \in Seq(Fragment), Fragments(u, nxt, d),
         NEW v \in Seq(Fragment), Fragments(v, nxt, d),
         \A i \in 1 .. Len(u), j \in 1 .. Len(v) : ~u[i].fin /\ Stop(u[i]) <= v[j].seq
  PROVE  /\ u \o v \in Seq(Fragment) /\ Fragments(u \o v, nxt, d) /\ Len(u \o v) = Len(u) + Len(v)
         /\ \A i \in 1 .. Len(u) + Len(v) : (u \o v)[i] = IF i <= Len(u) THEN u[i] ELSE v[i - Len(u)]
<1> DEFINE w == u \o v
<1>1. /\ w \in Seq(Fragment) /\ Len(w) = Len(u) + Len(v)
      /\ \A i \in 1 .. Len(u) + Len(v) : w[i] = IF i <= Len(u) THEN u[i] ELSE v[i - Len(u)]
  BY ConcatProperties
<1>2. Len(u) \in Nat /\ Len(v) \in Nat
  BY FragmentQueue
<1> HIDE DEF w
<1>3. \A i \in 1 .. Len(w) : \/ i \in 1 .. Len(u) /\ w[i] = u[i]
                             \/ i > Len(u) /\ i - Len(u) \in 1 .. Len(v) /\ w[i] = v[i - Len(u)]
  BY <1>1, <1>2
<1>4. \A i \in 1 .. Len(w) : Fits(w[i], nxt, d)
  BY <1>3 DEF Fragments
<1>5. ASSUME NEW i \in 1 .. Len(w), NEW j \in 1 .. Len(w), i < j
      PROVE  ~w[i].fin /\ Stop(w[i]) <= w[j].seq
  <2>1. CASE i \in 1 .. Len(u) /\ w[i] = u[i]
    <3>1. CASE j \in 1 .. Len(u) /\ w[j] = u[j]
      BY <1>5, <2>1, <3>1 DEF Fragments, Sorted
    <3>2. CASE j - Len(u) \in 1 .. Len(v) /\ w[j] = v[j - Len(u)]
      BY <2>1, <3>2
    <3> QED
      BY <1>3, <3>1, <3>2
  <2>2. CASE i > Len(u) /\ i - Len(u) \in 1 .. Len(v) /\ w[i] = v[i - Len(u)]
    <3>1. j - Len(u) \in 1 .. Len(v) /\ w[j] = v[j - Len(u)] /\ i - Len(u) < j - Len(u)
      BY <1>2, <1>3, <1>5, <2>2
    <3> QED
      BY <2>2, <3>1 DEF Fragments, Sorted
  <2> QED
    BY <1>3, <2>1, <2>2
<1>6. Sorted(w)
  BY <1>5 DEF Sorted
<1> QED
  BY <1>1, <1>4, <1>6 DEF Fragments, w

\* One fragment is in order.
LEMMA FragmentAlone ==
  ASSUME NEW d, NEW nxt, NEW s \in Fragment, Fits(s, nxt, d)
  PROVE  <<s>> \in Seq(Fragment) /\ Len(<<s>>) = 1 /\ <<s>>[1] = s /\ Fragments(<<s>>, nxt, d)
BY DEF Fragments, Sorted

\* The prefix of a queue of pieces that end at ack or before.
LEMMA CoveredPrefix ==
  ASSUME NEW d, FlowOK(d), NEW q \in Seq(Fragment), \A i \in 1 .. Len(q) : Own(q[i], d),
         NEW ack \in Low
  PROVE  \E n \in 0 .. Len(q) :
           /\ After(q, LAMBDA x : LEQ(Add(x.seq, x.len), ack)) = SubSeq(q, n + 1, Len(q))
           /\ \A i \in 1 .. n : q[i].seq + q[i].len <= ack
           /\ n < Len(q) => ~(q[n + 1].seq + q[n + 1].len <= ack)
<1> DEFINE T == {i \in 1 .. Len(q) : LEQ(Add(q[i].seq, q[i].len), ack)}
           n == Cardinality({k \in 1 .. Len(q) : \A i \in 1 .. k : i \in T})
<1>1. Len(q) \in Nat /\ \A i \in 1 .. Len(q) : q[i] \in Fragment
  BY FragmentQueue
<1>2. \A i \in 1 .. Len(q) : i \in T <=> q[i].seq + q[i].len <= ack
  BY <1>1, FragmentFacts, LowOrder
<1>3. {k \in 1 .. Len(q) : \A i \in 1 .. k : LEQ(Add(q[i].seq, q[i].len), ack)}
        = {k \in 1 .. Len(q) : \A i \in 1 .. k : i \in T}
  BY <1>1
<1>4. After(q, LAMBDA x : LEQ(Add(x.seq, x.len), ack)) = SubSeq(q, n + 1, Len(q))
  BY <1>3 DEF After
<1> HIDE DEF T
<1>5. n \in 0 .. Len(q) /\ (\A i \in 1 .. n : i \in T) /\ (n < Len(q) => n + 1 \notin T)
  BY <1>1, PrefixCount
<1> HIDE DEF n
<1>6. (\A i \in 1 .. n : q[i].seq + q[i].len <= ack) /\ (n < Len(q) => ~(q[n + 1].seq + q[n + 1].len <= ack))
  BY <1>1, <1>2, <1>5
<1> QED
  BY <1>4, <1>5, <1>6

\* tcp_oos_insert_segment: s in front of pieces none of which starts with it.
LEMMA InsertedKeeps ==
  ASSUME NEW d, FlowOK(d), NEW nxt \in Nat, NEW s \in Fragment, Fits(s, nxt, d),
         NEW q \in Seq(Fragment), Fragments(q, nxt, d),
         \A i \in 1 .. Len(q) : s.seq < q[i].seq \/ q[i].seq + q[i].len <= s.seq + s.len
  PROVE  LET v == Inserted(s, q)
         IN  /\ v \in Seq(Fragment) /\ Fragments(v, nxt, d)
             /\ \A i \in 1 .. Len(v) : s.seq <= v[i].seq
<1> DEFINE v == Inserted(s, q)
           ack == s.seq + s.len
           rest == After(q, LAMBDA x : LEQ(Add(x.seq, x.len), Add(s.seq, s.len)))
<1>1. /\ s.seq \in Nat /\ s.len \in Nat /\ s.pos \in Nat /\ s.fin \in BOOLEAN /\ s.held = s.len
      /\ ack \in Low /\ ack \in Nat /\ Add(s.seq, s.len) = ack /\ ack = s.seq + s.len /\ Own(s, d)
      /\ nxt < s.seq /\ ack <= nxt + Wnd
      /\ ack <= d.first + d.written /\ Stop(s) \in Nat /\ Stop(s) <= d.sent /\ s.seq \in Low
  BY FragmentFacts DEF Fits
<1> HIDE DEF ack
<1>2. CASE s.fin
  <2>1. v = <<s>>
    BY <1>2 DEF Inserted
  <2> QED
    BY <1>1, <2>1, FragmentAlone
<1>3. CASE ~s.fin
  <2>1. Len(q) \in Nat /\ \A i \in 1 .. Len(q) : q[i] \in Fragment /\ Own(q[i], d) /\ Fits(q[i], nxt, d)
    BY FragmentQueue DEF Fragments, Fits
  <2>2. PICK n \in 0 .. Len(q) :
           /\ After(q, LAMBDA x : LEQ(Add(x.seq, x.len), ack)) = SubSeq(q, n + 1, Len(q))
           /\ \A i \in 1 .. n : q[i].seq + q[i].len <= ack
           /\ n < Len(q) => ~(q[n + 1].seq + q[n + 1].len <= ack)
    BY <1>1, <2>1, CoveredPrefix
  <2>3. rest = SubSeq(q, n + 1, Len(q))
    BY <1>1, <2>2 DEF After
  <2> DEFINE t == [s EXCEPT !.fin = \E i \in 1 .. Len(q) - Len(rest) : q[i].fin]
             x == IF rest # <<>> /\ LT(rest[1].seq, Add(t.seq, t.len)) THEN UpTo(t, rest[1].seq) ELSE t
  <2>4. v = <<x>> \o rest
    BY <1>3 DEF Inserted
  <2> HIDE DEF rest
  <2>5. /\ rest \in Seq(Fragment) /\ Len(rest) = Len(q) - n /\ Fragments(rest, nxt, d)
        /\ \A i \in 1 .. Len(rest) : rest[i] = q[n + i]
    BY <2>3, FragmentsSuffix
  <2>6. Len(q) - Len(rest) = n /\ (rest = <<>> <=> n = Len(q))
    BY <2>1, <2>5, FragmentQueue
  <2>7. t \in Fragment /\ t.seq = s.seq /\ t.len = s.len /\ t.pos = s.pos /\ t.held = s.len
        /\ t.fin = (\E i \in 1 .. n : q[i].fin)
    BY <1>1, <2>6 DEF Fragment
  <2>8. \A i \in 1 .. n : q[i].fin => i = Len(q) /\ n = Len(q)
    <3> SUFFICES ASSUME NEW i \in 1 .. n, q[i].fin, i # Len(q) PROVE FALSE
      BY <2>1
    <3>1. i \in 1 .. Len(q) /\ Len(q) \in 1 .. Len(q) /\ i < Len(q)
      BY <2>1
    <3> QED
      BY <3>1 DEF Fragments, Sorted
  <2> HIDE DEF t
  <2>13. t.seq = s.seq /\ t.len = s.len /\ t.pos = s.pos /\ t.held = s.len /\ t.fin \in BOOLEAN
    BY <2>7 DEF Fragment
  <2>14. d.first + d.written \in Nat
    BY FlowFacts
  <2>9. Own(t, d) /\ Stop(t) <= d.sent
    <3>1. CASE t.fin
      <4>1. PICK i \in 1 .. n : q[i].fin
        BY <2>7, <3>1
      <4>2. i \in 1 .. Len(q) /\ q[i].seq + q[i].len <= ack
        BY <2>1, <2>2
      <4>3. d.closed /\ q[i].seq + q[i].len = d.first + d.written /\ Stop(q[i]) <= d.sent
        BY <2>1, <4>1, <4>2 DEF Fits, Own
      <4>4. ack = d.first + d.written
        BY <1>1, <2>14, <4>2, <4>3
      <4>5. TcpLen(t) = s.len + 1
        BY <2>13, <3>1 DEF TcpLen
      <4>6. Stop(t) = Stop(q[i])
        <5>1. Stop(t) = ack + 1
          BY <1>1, <2>13, <4>5 DEF Stop
        <5>2. Stop(q[i]) = q[i].seq + q[i].len + 1
          BY <2>1, <4>1, <4>2, FragmentFacts
        <5> QED
          BY <4>3, <4>4, <5>1, <5>2
      <4>7. TcpLen(t) > 0 /\ s.len > 0 => s.seq = d.first + s.pos
        BY <1>1, <4>5 DEF Own
      <4>8. TcpLen(t) > 0 /\ d.first <= s.seq /\ s.len <= Mss
        BY <1>1, <4>5 DEF Own
      <4> QED
        BY <1>1, <2>13, <3>1, <4>3, <4>4, <4>6, <4>7, <4>8 DEF Own
    <3>2. CASE ~t.fin
      <4>1. t.fin = FALSE /\ s.fin = FALSE
        BY <1>1, <1>3, <2>7, <3>2
      <4>2. TcpLen(t) = TcpLen(s) /\ Stop(t) = Stop(s)
        BY <2>7, <4>1 DEF TcpLen, Stop
      <4> QED
        BY <1>1, <2>7, <4>1, <4>2 DEF Own
    <3> QED
      BY <3>1, <3>2
  <2>10. Fits(t, nxt, d)
    BY <1>1, <2>7, <2>9 DEF Fits
  <2>11. CASE rest = <<>>
    <3>1. v = <<t>>
      <4>1. x = t
        BY <2>11
      <4> QED
        BY <2>4, <2>7, <2>11, <4>1, FragmentAlone, <2>10, ConcatEmptySeq
    <3> QED
      BY <2>7, <2>10, <3>1, FragmentAlone, <1>1
  <2>12. CASE rest # <<>>
    <3>1. n < Len(q) /\ n + 1 \in 1 .. Len(q) /\ rest[1] = q[n + 1] /\ 1 \in 1 .. Len(rest) /\ Len(rest) \in Nat
      BY <2>1, <2>5, <2>6, <2>12
    <3>2. t.fin = FALSE
      BY <2>7, <2>8, <3>1
    <3> DEFINE b == rest[1].seq
    <3>3. b \in Low /\ b \in Nat /\ s.seq < b
      <4>1. b \in Low /\ b \in Nat
        BY <2>1, <3>1, FragmentFacts
      <4>2. s.seq < q[n + 1].seq \/ q[n + 1].seq + q[n + 1].len <= ack
        BY <1>1, <3>1
      <4> QED
        BY <2>2, <3>1, <4>1, <4>2
    <3>4. LT(b, Add(t.seq, t.len)) <=> b < ack
      BY <1>1, <2>7, <3>3, LowOrder
    <3> HIDE DEF b
    <3>5. x = IF b < ack THEN UpTo(t, b) ELSE t
      BY <2>12, <3>4 DEF b
    <3>6. /\ x \in Fragment /\ Fits(x, nxt, d) /\ x.seq = s.seq /\ x.fin = FALSE /\ Stop(x) <= b
      <4>1. CASE b < ack
        <5>1. /\ x \in Fragment /\ Own(x, d) /\ x.held = x.len
              /\ x.seq = t.seq /\ x.len = b - t.seq /\ x.fin = FALSE /\ Stop(x) = b
          <6>1. b <= t.seq + t.len /\ t.seq < b /\ t.held = t.len /\ ~t.fin
            BY <1>1, <2>7, <3>2, <3>3, <4>1
          <6>2. x = UpTo(t, b)
            BY <3>5, <4>1
          <6> DEFINE u == [UpTo(t, b) EXCEPT !.fin = FALSE]
          <6>3. /\ u \in Fragment /\ Own(u, d) /\ u.held = u.len
                /\ u.seq = t.seq /\ u.len = b - t.seq /\ u.fin = FALSE /\ Stop(u) = b
                /\ UpTo(t, b) = u
            BY <2>7, <2>9, <3>3, <6>1, CutIs, ZenonT(60)
          <6> HIDE DEF x, u
          <6> QED
            BY <6>2, <6>3
        <5> HIDE DEF x
        <5>2. Stop(x) <= d.sent
          <6>1. b <= ack /\ ack <= Stop(s)
            BY <1>1, <3>3, <4>1 DEF Stop, TcpLen
          <6>2. d.sent \in Nat
            BY FlowFacts
          <6> QED
            BY <1>1, <3>3, <5>1, <6>1, <6>2
        <5>3. nxt < x.seq /\ x.seq + x.len <= nxt + Wnd
          BY <1>1, <2>7, <3>3, <4>1, <5>1, SizeFacts
        <5> QED
          BY <2>7, <3>3, <5>1, <5>2, <5>3 DEF Fits
      <4>2. CASE ~(b < ack)
        <5>1. x = t
          BY <3>5, <4>2
        <5>2. Stop(t) = ack
          BY <1>1, <2>7, <3>2 DEF Stop, TcpLen
        <5>3. ack <= b
          BY <1>1, <3>3, <4>2
        <5> HIDE DEF x
        <5> QED
          BY ONLY <2>7, <2>10, <3>2, <5>1, <5>2, <5>3
      <4> QED
        BY <4>1, <4>2
    <3> HIDE DEF x
    <3>7. <<x>> \in Seq(Fragment) /\ Len(<<x>>) = 1 /\ <<x>>[1] = x /\ Fragments(<<x>>, nxt, d)
      BY <3>6, FragmentAlone
    <3>8. \A j \in 1 .. Len(rest) : b <= rest[j].seq /\ rest[j].seq \in Nat
      <4> SUFFICES ASSUME NEW j \in 1 .. Len(rest) PROVE b <= rest[j].seq /\ rest[j].seq \in Nat
        OBVIOUS
      <4>1. rest[j] = q[n + j] /\ n + j \in 1 .. Len(q)
        BY <2>1, <2>5
      <4>2. rest[j].seq \in Nat /\ b < Stop(rest[1]) /\ Stop(rest[1]) \in Nat
        BY <2>1, <3>1, <4>1, FragmentFacts DEF b
      <4>3. 1 < j => Stop(rest[1]) <= rest[j].seq
        BY <2>5, <3>1 DEF Fragments, Sorted
      <4>4. j = 1 => rest[j].seq = b
        BY DEF b
      <4> QED
        BY <3>1, <3>3, <4>2, <4>3, <4>4
    <3>9. Stop(x) \in Nat
      BY <3>6, FragmentFacts DEF Fits
    <3>10. \A i \in 1 .. 1, j \in 1 .. Len(rest) : ~<<x>>[i].fin /\ Stop(<<x>>[i]) <= rest[j].seq
      BY <3>3, <3>6, <3>7, <3>8, <3>9
    <3>11. /\ v \in Seq(Fragment) /\ Fragments(v, nxt, d) /\ Len(v) = 1 + Len(rest)
           /\ \A i \in 1 .. 1 + Len(rest) : v[i] = IF i <= 1 THEN <<x>>[i] ELSE rest[i - 1]
      <4> DEFINE u == <<x>>
      <4> HIDE DEF u
      <4>1. u \in Seq(Fragment) /\ Len(u) = 1 /\ Fragments(u, nxt, d)
            /\ \A i \in 1 .. Len(u), j \in 1 .. Len(rest) : ~u[i].fin /\ Stop(u[i]) <= rest[j].seq
        BY <3>7, <3>10 DEF u
      <4>2. v = u \o rest
        BY <2>4 DEF u
      <4>3. /\ u \o rest \in Seq(Fragment) /\ Fragments(u \o rest, nxt, d) /\ Len(u \o rest) = Len(u) + Len(rest)
            /\ \A i \in 1 .. Len(u) + Len(rest) : (u \o rest)[i] = IF i <= Len(u) THEN u[i] ELSE rest[i - Len(u)]
        <5>1. rest \in Seq(Fragment) /\ Fragments(rest, nxt, d)
          BY <2>5
        <5> QED
          BY ONLY <4>1, <5>1, FragmentsConcat
      <4> QED
        BY <4>1, <4>2, <4>3 DEF u
    <3> HIDE DEF v
    <3>12. \A i \in 1 .. Len(v) : s.seq <= v[i].seq
      <4> SUFFICES ASSUME NEW i \in 1 .. Len(v) PROVE s.seq <= v[i].seq
        OBVIOUS
      <4>1. CASE i = 1
        BY <1>1, <3>1, <3>6, <3>7, <3>11, <4>1
      <4>2. CASE i # 1
        <5>1. i \in 1 .. 1 + Len(rest) /\ i - 1 \in 1 .. Len(rest) /\ ~(i <= 1)
          <6>1. i \in 1 .. Len(v)
            OBVIOUS
          <6> QED
            BY ONLY <3>1, <3>11, <4>2, <6>1
        <5>2. v[i] = rest[i - 1]
          BY ONLY <3>11, <5>1
        <5> QED
          BY <1>1, <3>3, <3>8, <5>1, <5>2, SMTT(30)
      <4> QED
        BY <4>1, <4>2
    <3> QED
      BY <3>11, <3>12 DEF v
  <2> QED
    BY <2>11, <2>12
<1> QED
  BY <1>1, <1>2, <1>3

\* A fragment put at the end of ooseq, cut to the window, is part of the stream.
LEMMA AtEndKeeps ==
  ASSUME NEW d, FlowOK(d), NEW p \in Block, p.rcv_nxt + Wnd \in Low, p.rcv_wnd = Wnd,
         NEW s \in Fragment, Fits(s, p.rcv_nxt, d), s.seq < p.rcv_nxt + Wnd
  PROVE  AtEnd(p, s) \in Fragment /\ Fits(AtEnd(p, s), p.rcv_nxt, d) /\ AtEnd(p, s).seq = s.seq
<1> DEFINE nxt == p.rcv_nxt
           b == nxt + Wnd
           u == [UpTo(s, b) EXCEPT !.fin = FALSE]
<1>1. nxt \in Nat /\ b \in Nat
  <2>1. nxt \in Nat
    BY DEF Block
  <2> QED
    BY <2>1, SizeFacts
<1>2. NewEdge(p) = b
  BY <1>1, LowAdd, SizeFacts DEF NewEdge
<1>3. /\ s.seq \in Nat /\ s.len \in Nat /\ s.fin \in BOOLEAN /\ End(s) = Stop(s)
      /\ Stop(s) = s.seq + s.len + (IF s.fin THEN 1 ELSE 0) /\ Stop(s) \in Nat
  BY FragmentFacts DEF Fits
<1>4. Own(s, d) /\ s.held = s.len /\ nxt < s.seq /\ s.seq + s.len <= b /\ Stop(s) <= d.sent
  BY DEF Fits
<1>5. CASE End(s) > b
  <2>1. s.seq + s.len = b
    BY <1>1, <1>3, <1>4, <1>5
  <2>2. s.seq < b
    OBVIOUS
  <2>3. /\ u \in Fragment /\ Own(u, d) /\ u.held = u.len
        /\ u.seq = s.seq /\ u.len = b - s.seq /\ Stop(u) = b
    BY <1>3, <1>4, <2>1, <2>2, CutIs
  <2>4. AtEnd(p, s) = u
    BY <1>2, <1>5 DEF AtEnd, Overruns
  <2> HIDE DEF u
  <2>5. b <= d.sent /\ u.seq + u.len <= b
    BY <1>1, <1>3, <1>4, <1>5, <2>1, <2>3, FlowFacts
  <2> QED
    BY <1>4, <2>3, <2>4, <2>5 DEF Fits
<1>6. CASE ~(End(s) > b)
  <2>1. AtEnd(p, s) = s
    BY <1>2, <1>6 DEF AtEnd, Overruns
  <2> QED
    BY <2>1
<1> QED
  BY <1>5, <1>6

\* A fragment cut where the next one starts does not overlap it.
LEMMA TrimmedKeeps ==
  ASSUME NEW d, FlowOK(d), NEW nxt \in Nat,
         NEW t \in Fragment, Fits(t, nxt, d), ~t.fin,
         NEW s \in Fragment, Fits(s, nxt, d), t.seq < s.seq
  PROVE  LET u == PrevTrimmed(t, s)
         IN  u \in Fragment /\ Fits(u, nxt, d) /\ ~u.fin /\ u.seq = t.seq /\ Stop(u) <= s.seq
<1> DEFINE u == PrevTrimmed(t, s)
           b == s.seq
           c == [UpTo(t, b) EXCEPT !.fin = FALSE]
<1>1. /\ t.seq \in Nat /\ t.len \in Nat /\ t.fin = FALSE /\ t.seq + t.len \in Low
      /\ Add(t.seq, t.len) = t.seq + t.len
      /\ Stop(t) = t.seq + t.len + (IF t.fin THEN 1 ELSE 0) /\ Stop(t) \in Nat
      /\ b \in Nat /\ b \in Low
  BY FragmentFacts DEF Fits, Fragment
<1>2. Own(t, d) /\ t.held = t.len /\ nxt < t.seq /\ t.seq + t.len <= nxt + Wnd /\ Stop(t) <= d.sent
  BY DEF Fits
<1>3. LT(b, t.seq + t.len) <=> b < t.seq + t.len
  BY <1>1, LowOrder
<1>4. CASE b < t.seq + t.len
  <2>1. b <= t.seq + t.len /\ t.seq < b
    BY <1>1, <1>4
  <2>2. /\ c \in Fragment /\ Own(c, d) /\ c.held = c.len
        /\ c.seq = t.seq /\ c.len = b - t.seq /\ c.fin = FALSE /\ Stop(c) = b
        /\ UpTo(t, b) = c
    <3> HIDE DEF b
    <3> QED
      BY <1>1, <1>2, <2>1, CutIs
  <2>3. u = c
    BY <1>1, <1>3, <1>4, <2>2 DEF PrevTrimmed
  <2> HIDE DEF c
  <2>4. b <= d.sent /\ c.seq + c.len <= nxt + Wnd
    BY <1>1, <1>2, <1>4, <2>2, FlowFacts, SizeFacts
  <2> QED
    BY <1>2, <2>2, <2>3, <2>4, <1>1 DEF Fits
<1>5. CASE ~(b < t.seq + t.len)
  <2>1. u = t
    BY <1>1, <1>3, <1>5 DEF PrevTrimmed
  <2> QED
    BY <1>1, <1>5, <2>1
<1> QED
  BY <1>4, <1>5

\* ooseq splits into the fragments that start before a number and the others.
LEMMA BeforeCount ==
  ASSUME NEW d, FlowOK(d), NEW nxt, NEW q \in Seq(Fragment), Fragments(q, nxt, d), NEW a \in Low
  PROVE  LET c == Cardinality({k \in 1 .. Len(q) : LT(q[k].seq, a)})
         IN  c \in 0 .. Len(q) /\ (\A k \in 1 .. c : q[k].seq < a)
             /\ (\A k \in c + 1 .. Len(q) : a <= q[k].seq)
<1> DEFINE T == {k \in 1 .. Len(q) : q[k].seq < a}
           c == Cardinality({k \in 1 .. Len(q) : \A i \in 1 .. k : i \in T})
<1>1. Len(q) \in Nat /\ a \in Nat
  BY FragmentQueue, SizeFacts DEF Low
<1>2. \A k \in 1 .. Len(q) : /\ q[k].seq \in Nat /\ q[k].seq < Stop(q[k]) /\ Stop(q[k]) \in Nat
                             /\ LT(q[k].seq, a) <=> q[k].seq < a
  BY FragmentQueue, FragmentFacts, LowOrder DEF Fragments, Fits
<1>3. \A i, j \in 1 .. Len(q) : i < j => q[i].seq < q[j].seq
  <2> SUFFICES ASSUME NEW i \in 1 .. Len(q), NEW j \in 1 .. Len(q), i < j PROVE q[i].seq < q[j].seq
    OBVIOUS
  <2>1. Stop(q[i]) <= q[j].seq
    BY DEF Fragments, Sorted
  <2> QED
    BY <1>2, <2>1
<1>4. {k \in 1 .. Len(q) : LT(q[k].seq, a)} = {k \in 1 .. Len(q) : \A i \in 1 .. k : i \in T}
  <2>1. ASSUME NEW k \in 1 .. Len(q)
        PROVE  LT(q[k].seq, a) <=> \A i \in 1 .. k : i \in T
    <3>1. CASE q[k].seq < a
      <4>1. ASSUME NEW i \in 1 .. k PROVE i \in T
        <5>1. i \in 1 .. Len(q) /\ (i = k \/ i < k)
          BY <1>1
        <5>2. i < k => q[i].seq < q[k].seq
          BY <1>3, <5>1
        <5> QED
          BY <1>1, <1>2, <3>1, <5>1, <5>2
      <4> QED
        BY <1>2, <3>1, <4>1
    <3>2. CASE ~(q[k].seq < a)
      BY <1>1, <1>2, <3>2
    <3> QED
      BY <3>1, <3>2
  <2> QED
    BY <2>1
<1>5. \A i : i \in T <=> i \in 1 .. Len(q) /\ q[i].seq < a
  OBVIOUS
<1> HIDE DEF T
<1>6. c \in 0 .. Len(q) /\ (\A i \in 1 .. c : i \in T) /\ (c < Len(q) => c + 1 \notin T)
  BY <1>1, PrefixCount
<1>7. Cardinality({k \in 1 .. Len(q) : LT(q[k].seq, a)}) = c
  BY <1>4
<1> HIDE DEF c
<1>8. \A k \in c + 1 .. Len(q) : a <= q[k].seq
  <2> SUFFICES ASSUME NEW k \in c + 1 .. Len(q) PROVE a <= q[k].seq
    OBVIOUS
  <2>1. c + 1 \in 1 .. Len(q) /\ k \in 1 .. Len(q) /\ (k = c + 1 \/ c + 1 < k)
    BY <1>1, <1>6
  <2>2. a <= q[c + 1].seq
    BY <1>1, <1>2, <1>5, <1>6, <2>1
  <2>3. c + 1 < k => q[c + 1].seq < q[k].seq
    BY <1>3, <2>1
  <2> QED
    BY <1>1, <1>2, <2>1, <2>2, <2>3
<1> QED
  BY <1>5, <1>6, <1>7, <1>8

\* A segment that is not next in sequence finds its place on ooseq.
LEMMA QueuedKeeps ==
  ASSUME NEW d, FlowOK(d), NEW p \in Block, p.rcv_nxt + Wnd \in Low, p.rcv_wnd = Wnd, OoseqOK(p, d),
         NEW s \in Fragment, Fits(s, p.rcv_nxt, d), s.seq < p.rcv_nxt + Wnd
  PROVE  Queued(p, s) \in Seq(Fragment) /\ Fragments(Queued(p, s), p.rcv_nxt, d)
<1> DEFINE nxt == p.rcv_nxt
           q == p.ooseq
           n == Len(q)
           i == Cardinality({k \in 1 .. n : LT(q[k].seq, s.seq)})
           before == [k \in 1 .. i |-> IF k = i THEN PrevTrimmed(q[k], s) ELSE q[k]]
           rest == SubSeq(q, i + 1, n)
           same == i < n /\ q[i + 1].seq = s.seq
           v == Queued(p, s)
<1>1. q \in Seq(Fragment) /\ nxt \in Nat /\ Fragments(q, nxt, d)
  BY DEF Block, OoseqOK
<1>2. n \in Nat /\ \A k \in 1 .. n : q[k] \in Fragment /\ Fits(q[k], nxt, d) /\ Own(q[k], d)
  BY <1>1, FragmentQueue DEF Fragments, Fits
<1>3. /\ s.seq \in Low /\ s.seq \in Nat /\ Own(s, d) /\ s.len \in Nat /\ s.fin \in BOOLEAN
      /\ s.seq + s.len <= d.first + d.written
  BY FragmentFacts DEF Fits
<1>4. i \in 0 .. n /\ (\A k \in 1 .. i : q[k].seq < s.seq) /\ (\A k \in i + 1 .. n : s.seq <= q[k].seq)
  BY <1>1, <1>3, BeforeCount
<1> DEFINE replaced == SubSeq(q, 1, i) \o Inserted(s, rest)
           between == before \o Inserted(s, rest)
           appended == Append(before, AtEnd(p, s))
           longer == s.len > q[i + 1].len
           ends == q[n].fin
<1>5. /\ n = 0 => v = <<s>>
      /\ n > 0 /\ same => v = IF longer THEN replaced ELSE q
      /\ n > 0 /\ ~same /\ i < n => v = between
      /\ n > 0 /\ i = n => v = IF ends THEN q ELSE appended
  <2>1. v = CASE n = 0 -> <<s>>
              [] n > 0 /\ same -> IF longer THEN replaced ELSE q
              [] n > 0 /\ ~same /\ i < n -> between
              [] n > 0 /\ i = n -> IF ends THEN q ELSE appended
    BY DEF Queued
  <2>2. same => i < n
    OBVIOUS
  <2> HIDE DEF v, i, n, same, replaced, between, appended, longer, ends
  <2>3. n \in Nat /\ i \in 0 .. n
    BY <1>2, <1>4 DEF n, i
  <2> QED
    BY <2>1, <2>2, <2>3
<1> HIDE DEF v, i
<1>6. \A k \in 1 .. n : /\ q[k].seq \in Nat /\ q[k].len \in Nat /\ q[k].seq < Stop(q[k]) /\ Stop(q[k]) \in Nat
                        /\ Stop(q[k]) = q[k].seq + q[k].len + (IF q[k].fin THEN 1 ELSE 0)
  BY <1>2, FragmentFacts
<1>7. \A k, j \in 1 .. n : k < j => ~q[k].fin /\ Stop(q[k]) <= q[j].seq
  BY <1>1 DEF Fragments, Sorted
<1>8. /\ rest \in Seq(Fragment) /\ Len(rest) = n - i /\ Fragments(rest, nxt, d)
      /\ \A k \in 1 .. Len(rest) : rest[k] = q[i + k]
  BY <1>1, <1>4, FragmentsSuffix
<1>9. /\ SubSeq(q, 1, i) \in Seq(Fragment) /\ Len(SubSeq(q, 1, i)) = i /\ Fragments(SubSeq(q, 1, i), nxt, d)
      /\ \A k \in 1 .. i : SubSeq(q, 1, i)[k] = q[k]
  BY <1>1, <1>4, FragmentsPrefix
<1>10. ASSUME i < n \/ ~q[n].fin
       PROVE  /\ before \in Seq(Fragment) /\ Len(before) = i /\ Fragments(before, nxt, d)
              /\ \A k \in 1 .. i : before[k].fin = FALSE /\ Stop(before[k]) <= s.seq /\ Stop(before[k]) \in Nat
  <2>1. ASSUME NEW k \in 1 .. i
        PROVE  /\ before[k] \in Fragment /\ Fits(before[k], nxt, d) /\ ~before[k].fin
               /\ Stop(before[k]) <= s.seq /\ before[k].seq = q[k].seq
               /\ k < i => before[k] = q[k]
    <3>1. k \in 1 .. n /\ q[k].seq < s.seq
      BY <1>2, <1>4
    <3>2. ~q[k].fin
      <4>1. CASE k < n
        <5>1. n \in 1 .. n
          BY <1>2, <3>1
        <5> QED
          BY <1>7, <3>1, <4>1, <5>1
      <4>2. CASE k = n
        BY <1>4, <1>10, <4>2
      <4> QED
        BY <1>2, <3>1, <4>1, <4>2
    <3>3. CASE k = i
      <4>1. before[k] = PrevTrimmed(q[k], s)
        BY <3>3
      <4> HIDE DEF before
      <4> QED
        BY <1>1, <1>2, <3>1, <3>2, <3>3, <4>1, TrimmedKeeps
    <3>4. CASE k # i
      <4>1. before[k] = q[k]
        BY <3>4
      <4>2. k < i /\ i \in 1 .. n
        BY <1>2, <1>4, <3>1, <3>4
      <4>3. Stop(q[k]) <= q[i].seq /\ q[i].seq < s.seq
        BY <1>4, <1>7, <3>1, <4>2
      <4>4. Stop(q[k]) <= s.seq
        BY <1>3, <1>6, <3>1, <4>2, <4>3
      <4> HIDE DEF before
      <4> QED
        BY <1>2, <3>1, <3>2, <4>1, <4>4
    <3> QED
      BY <3>3, <3>4
  <2>2. i \in Nat /\ before \in [1 .. i -> Fragment]
    BY <1>4, <2>1
  <2>3. before \in Seq(Fragment) /\ Len(before) = i
    BY <2>2, FunIsSeq
  <2> HIDE DEF before
  <2>4. \A k \in 1 .. i : Stop(before[k]) \in Nat /\ before[k].fin = FALSE
    BY <2>1, FragmentFacts DEF Fits, Fragment
  <2>5. Sorted(before)
    <3> SUFFICES ASSUME NEW k \in 1 .. i, NEW j \in 1 .. i, k < j
                 PROVE  ~before[k].fin /\ Stop(before[k]) <= before[j].seq
      BY <2>3 DEF Sorted
    <3>1. k < i
      BY <2>2
    <3>2. before[k] = q[k] /\ before[j].seq = q[j].seq /\ ~before[k].fin
      BY <2>1, <3>1
    <3>3. k \in 1 .. n /\ j \in 1 .. n
      BY <1>2, <1>4
    <3> QED
      BY <1>7, <3>2, <3>3
  <2> QED
    BY <2>1, <2>3, <2>4, <2>5 DEF Fragments
<1>11. ASSUME i < n, q[i + 1].seq = s.seq => s.len > q[i + 1].len
       PROVE  LET x == Inserted(s, rest)
              IN  /\ x \in Seq(Fragment) /\ Fragments(x, nxt, d)
                  /\ \A k \in 1 .. Len(x) : s.seq <= x[k].seq /\ x[k].seq \in Nat
  <2>1. ASSUME NEW k \in 1 .. Len(rest)
        PROVE  s.seq < rest[k].seq \/ rest[k].seq + rest[k].len <= s.seq + s.len
    <3>1. i + k \in 1 .. n /\ i + k \in i + 1 .. n /\ rest[k] = q[i + k] /\ i + 1 \in 1 .. n /\ i + 1 \in i + 1 .. n
      BY <1>2, <1>4, <1>8, <1>11
    <3>2. s.seq <= q[i + k].seq /\ s.seq <= q[i + 1].seq /\ q[i + k].seq \in Nat /\ q[i + 1].seq \in Nat
      BY <1>4, <1>6, <3>1
    <3>3. CASE s.seq = q[i + k].seq
      <4>1. k = 1
        <5> SUFFICES ASSUME k # 1 PROVE FALSE
          OBVIOUS
        <5>1. i + 1 < i + k
          BY <1>4, <1>8
        <5>2. Stop(q[i + 1]) <= q[i + k].seq /\ q[i + 1].seq < Stop(q[i + 1]) /\ Stop(q[i + 1]) \in Nat
          BY <1>6, <1>7, <3>1, <5>1
        <5> QED
          BY <1>3, <3>2, <3>3, <5>2
      <4>2. s.len > q[i + 1].len /\ rest[k] = q[i + 1]
        BY <1>11, <3>1, <3>3, <4>1
      <4>3. q[i + 1].len \in Nat
        BY <1>6, <3>1
      <4> QED
        BY <1>3, <3>1, <3>2, <3>3, <4>1, <4>2, <4>3, SMTT(30)
    <3>4. CASE s.seq # q[i + k].seq
      BY <1>3, <3>1, <3>2, <3>4, SMTT(30)
    <3> QED
      BY <3>3, <3>4
  <2> DEFINE x == Inserted(s, rest)
  <2> HIDE DEF rest
  <2>2. x \in Seq(Fragment) /\ Fragments(x, nxt, d) /\ \A k \in 1 .. Len(x) : s.seq <= x[k].seq
    BY <1>1, <1>8, <2>1, InsertedKeeps
  <2> HIDE DEF x
  <2>3. \A k \in 1 .. Len(x) : x[k].seq \in Nat
    BY <2>2, FragmentQueue DEF Fragment
  <2> QED
    BY <2>2, <2>3 DEF x
<1>12. CASE n = 0
  <2>1. v = <<s>>
    BY <1>5, <1>12
  <2> QED
    BY <2>1, FragmentAlone DEF v
<1>13. CASE n > 0 /\ same /\ s.len > q[i + 1].len
  <2> DEFINE x == Inserted(s, rest)
             u == SubSeq(q, 1, i)
  <2>1. v = u \o x
    <3>1. n > 0 /\ same /\ longer
      BY <1>13
    <3> HIDE DEF n, same, longer, replaced
    <3>2. v = replaced
      BY <1>5, <3>1
    <3> QED
      BY <3>2 DEF replaced
  <2>2. x \in Seq(Fragment) /\ Fragments(x, nxt, d) /\ \A k \in 1 .. Len(x) : s.seq <= x[k].seq /\ x[k].seq \in Nat
    BY <1>11, <1>13
  <2>3. u \in Seq(Fragment) /\ Fragments(u, nxt, d) /\ Len(u) = i /\ \A k \in 1 .. i : u[k] = q[k]
    BY <1>9
  <2> HIDE DEF x, u
  <2>4. ASSUME NEW k \in 1 .. Len(u), NEW j \in 1 .. Len(x)
        PROVE  ~u[k].fin /\ Stop(u[k]) <= x[j].seq
    <3>1. u[k] = q[k] /\ k \in 1 .. n /\ i + 1 \in 1 .. n /\ k < i + 1
      BY <1>2, <1>4, <1>13, <2>3
    <3>2. ~q[k].fin /\ Stop(q[k]) <= s.seq
      BY <1>7, <1>13, <3>1
    <3>3. s.seq <= x[j].seq /\ x[j].seq \in Nat /\ Stop(q[k]) \in Nat
      BY <1>6, <2>2, <3>1
    <3> QED
      BY <1>3, <3>1, <3>2, <3>3
  <2>5. u \o x \in Seq(Fragment) /\ Fragments(u \o x, nxt, d)
    BY <2>2, <2>3, <2>4, FragmentsConcat
  <2> QED
    BY <2>1, <2>5 DEF v
<1>14. CASE n > 0 /\ same /\ ~(s.len > q[i + 1].len)
  <2>1. v = q
    BY <1>5, <1>14
  <2> QED
    BY <1>1, <2>1 DEF v
<1>15. CASE n > 0 /\ ~same /\ i < n
  <2> DEFINE x == Inserted(s, rest)
             u == before
  <2>1. v = u \o x
    <3>1. n > 0 /\ ~same /\ i < n
      BY <1>15
    <3> HIDE DEF n, same, between
    <3>2. v = between
      BY <1>5, <3>1
    <3> QED
      BY <3>2 DEF between
  <2>2. x \in Seq(Fragment) /\ Fragments(x, nxt, d) /\ \A k \in 1 .. Len(x) : s.seq <= x[k].seq /\ x[k].seq \in Nat
    BY <1>11, <1>15
  <2>3. u \in Seq(Fragment) /\ Fragments(u, nxt, d) /\ Len(u) = i
        /\ \A k \in 1 .. i : u[k].fin = FALSE /\ Stop(u[k]) <= s.seq /\ Stop(u[k]) \in Nat
    BY <1>10, <1>15
  <2> HIDE DEF x, u
  <2>4. ASSUME NEW k \in 1 .. Len(u), NEW j \in 1 .. Len(x)
        PROVE  ~u[k].fin /\ Stop(u[k]) <= x[j].seq
    <3>1. u[k].fin = FALSE /\ Stop(u[k]) <= s.seq /\ Stop(u[k]) \in Nat
      BY <2>3
    <3>3. s.seq <= x[j].seq /\ x[j].seq \in Nat
      BY <2>2
    <3> QED
      BY <1>3, <3>1, <3>3
  <2>5. u \o x \in Seq(Fragment) /\ Fragments(u \o x, nxt, d)
    BY <2>2, <2>3, <2>4, FragmentsConcat
  <2> QED
    BY <2>1, <2>5 DEF v
<1>16. CASE n > 0 /\ i = n /\ q[n].fin
  <2>1. v = q
    BY <1>5, <1>16
  <2> QED
    BY <1>1, <2>1 DEF v
<1>17. CASE n > 0 /\ i = n /\ ~q[n].fin
  <2> DEFINE a == AtEnd(p, s)
             u == before
  <2>1. v = Append(u, a)
    <3>1. n > 0 /\ i = n /\ ~ends
      BY <1>17
    <3> HIDE DEF n, ends, appended
    <3>2. v = appended
      BY <1>5, <3>1
    <3> QED
      BY <3>2 DEF appended
  <2>2. a \in Fragment /\ Fits(a, nxt, d) /\ a.seq = s.seq
    BY AtEndKeeps
  <2>3. u \in Seq(Fragment) /\ Fragments(u, nxt, d) /\ Len(u) = i
        /\ \A k \in 1 .. i : u[k].fin = FALSE /\ Stop(u[k]) <= s.seq /\ Stop(u[k]) \in Nat
    BY <1>10, <1>17
  <2> HIDE DEF a, u
  <2> DEFINE x == <<a>>
  <2>4. x \in Seq(Fragment) /\ Len(x) = 1 /\ x[1] = a /\ Fragments(x, nxt, d)
    BY <2>2, FragmentAlone
  <2>5. Append(u, a) = u \o x
    BY <2>2, <2>3, AppendIsConcat
  <2> HIDE DEF x
  <2>6. ASSUME NEW k \in 1 .. Len(u), NEW j \in 1 .. Len(x)
        PROVE  ~u[k].fin /\ Stop(u[k]) <= x[j].seq
    BY <1>3, <2>2, <2>3, <2>4
  <2>7. u \o x \in Seq(Fragment) /\ Fragments(u \o x, nxt, d)
    BY <2>3, <2>4, <2>6, FragmentsConcat
  <2> QED
    BY <2>1, <2>5, <2>7 DEF v
<1> QED
  BY <1>2, <1>4, <1>12, <1>13, <1>14, <1>15, <1>16, <1>17

\* A segment that starts before the byte expected next and ends after it is cut.
LEMMA FirstEdgeKeeps ==
  ASSUME NEW d, FlowOK(d), NEW p \in Block, p.rcv_nxt \in Low,
         NEW m \in Frame, Own(m, d)
  PROVE  LET s == FirstEdgeTrimmed(p, Piece(m))
         IN  /\ s \in Fragment /\ Own(s, d) /\ s.held = s.len /\ s.fin = m.fin
             /\ s.seq + s.len = m.seq + m.len /\ Stop(s) = Stop(m)
             /\ s.seq = p.rcv_nxt \/ s.seq = m.seq
<1> DEFINE t == Piece(m)
           nxt == p.rcv_nxt
           s == FirstEdgeTrimmed(p, t)
           n == Diff(nxt, t.seq)
           c == From(t, nxt)
<1>1. m.seq \in Nat /\ m.len \in Nat /\ m.pos \in Nat /\ m.fin \in BOOLEAN /\ Shaped(m)
  BY SegmentShape DEF Frame
<1>2. /\ t \in Fragment /\ t.seq = m.seq /\ t.len = m.len /\ t.held = m.len /\ t.pos = m.pos /\ t.fin = m.fin
      /\ Stop(t) = Stop(m)
  BY <1>1 DEF Piece, Fragment, Stop, TcpLen
<1> HIDE DEF t
<1>3. Own(t, d)
  BY <1>2 DEF Own, TcpLen
<1>4. /\ t.seq \in Low /\ Stop(t) \in Low /\ t.seq < Stop(t) /\ Stop(t) \in Nat
      /\ Stop(t) = t.seq + t.len + (IF t.fin THEN 1 ELSE 0) /\ TcpLen(t) = t.len + (IF t.fin THEN 1 ELSE 0)
      /\ d.first <= t.seq /\ t.seq + t.len <= d.first + d.written /\ t.len <= Mss
  BY <1>2, <1>3, FragmentFacts
<1>5. nxt \in Nat /\ nxt \in Low
  BY DEF Block
<1>6. Add(t.seq, 1) = t.seq + 1 /\ Add(t.seq, TcpLen(t) - 1) = Stop(t) - 1
  <2>1. t.seq + 1 \in Low /\ t.seq + (TcpLen(t) - 1) \in Low /\ t.seq + (TcpLen(t) - 1) = Stop(t) - 1
        /\ t.seq \in Int /\ TcpLen(t) - 1 \in Int
    BY <1>1, <1>2, <1>4, SizeFacts DEF Low
  <2> QED
    BY <2>1, LowAdd
<1>7. Between(nxt, Add(t.seq, 1), Add(t.seq, TcpLen(t) - 1)) <=> t.seq < nxt /\ nxt < Stop(t)
  <2>1. t.seq + 1 \in Low /\ Stop(t) - 1 \in Low
    BY <1>1, <1>2, <1>4, SizeFacts DEF Low
  <2>2. LEQ(t.seq + 1, nxt) <=> t.seq + 1 <= nxt
    BY <1>5, <2>1, LowOrder
  <2>3. LEQ(nxt, Stop(t) - 1) <=> nxt <= Stop(t) - 1
    BY <1>5, <2>1, LowOrder
  <2> QED
    BY <1>1, <1>2, <1>4, <1>5, <1>6, <2>2, <2>3 DEF Between
<1>8. CASE t.seq < nxt /\ nxt < Stop(t)
  <2>1. s = c
    BY <1>7, <1>8 DEF FirstEdgeTrimmed
  <2>2. n = nxt - t.seq
    BY <1>1, <1>2, <1>4, <1>5, <1>8, LowDiff
  <2>3. n \in Nat /\ n <= t.len /\ n >= 1
    <3> HIDE DEF n
    <3> QED
      BY <1>1, <1>2, <1>4, <1>5, <1>8, <2>2
  <2>4. c = [t EXCEPT !.seq = nxt, !.pos = @ + n, !.len = @ - n, !.held = @ - n]
    BY DEF From
  <2> HIDE DEF n, c
  <2>5. c.seq = nxt /\ c.pos = t.pos + n /\ c.len = t.len - n /\ c.held = c.len /\ c.fin = t.fin
    BY <1>2, <2>4 DEF Fragment
  <2>6. c \in Fragment
    <3>1. t.pos + n \in Nat /\ t.len - n \in Nat /\ t.held - n \in Nat
      BY <1>1, <1>2, <2>3
    <3> QED
      BY <1>2, <1>5, <2>4, <3>1 DEF Fragment
  <2>7. c.seq + c.len = t.seq + t.len /\ Stop(c) = Stop(t) /\ TcpLen(c) > 0 /\ c.len <= Mss
    <3>1. TcpLen(c) = c.len + (IF c.fin THEN 1 ELSE 0)
      BY <2>5, <1>1, <1>2, <2>3 DEF TcpLen
    <3>2. c.seq + c.len = t.seq + t.len /\ c.len \in Nat /\ c.len <= t.len
      BY <1>1, <1>2, <1>5, <2>2, <2>3, <2>5
    <3>3. c.fin = FALSE => c.len > 0
      BY <1>1, <1>2, <1>4, <1>5, <1>8, <2>2, <2>5
    <3> QED
      BY <1>1, <1>2, <1>4, <1>5, <2>5, <3>1, <3>2, <3>3, SizeFacts DEF Stop
  <2>8. Own(c, d)
    <3>1. d.first <= c.seq
      BY <1>1, <1>2, <1>4, <1>5, <1>8, <2>5, FlowFacts
    <3>2. c.len > 0 => c.seq = d.first + c.pos
      BY <1>1, <1>2, <1>3, <1>5, <2>2, <2>3, <2>5, FlowFacts DEF Own
    <3> QED
      BY <1>3, <2>5, <2>7, <3>1, <3>2 DEF Own
  <2> QED
    BY <1>2, <2>1, <2>5, <2>6, <2>7, <2>8 DEF t
<1>9. CASE ~(t.seq < nxt /\ nxt < Stop(t))
  <2>1. s = t
    BY <1>7, <1>9 DEF FirstEdgeTrimmed
  <2> QED
    BY <1>2, <1>3, <2>1 DEF t
<1> QED
  BY <1>8, <1>9

\* Whether a sequence number is in the window.
LEMMA InWindowIs ==
  ASSUME NEW p \in Block, p.rcv_nxt + Wnd \in Low, p.rcv_wnd = Wnd, NEW a \in Low
  PROVE  InWindow(p, a) <=> p.rcv_nxt <= a /\ a < p.rcv_nxt + Wnd
<1> DEFINE nxt == p.rcv_nxt
           b == nxt + (Wnd - 1)
<1>1. nxt \in Nat /\ a \in Nat
  BY SizeFacts DEF Block, Low
<1>2. nxt \in Low /\ b \in Low /\ b \in Nat /\ Wnd - 1 \in Int
  BY <1>1, SizeFacts DEF Low
<1>3. Add(nxt, p.rcv_wnd - 1) = b
  BY <1>1, <1>2, LowAdd
<1>4. (LEQ(nxt, a) <=> nxt <= a) /\ (LEQ(a, b) <=> a <= b)
  BY <1>2, LowOrder
<1> QED
  BY <1>1, <1>2, <1>3, <1>4, SizeFacts DEF InWindow, Between

\* No segment is as long as the window.
LEMMA NotTrimmed ==
  ASSUME NEW d, FlowOK(d), NEW p \in Block, p.rcv_wnd = Wnd, NEW s \in Fragment, Own(s, d)
  PROVE  TrimmedToWindow(p, s) = s
<1>1. TcpLen(s) = s.len + (IF s.fin THEN 1 ELSE 0) /\ s.len <= Mss /\ s.len \in Nat
  BY FragmentFacts
<1>2. ~(TcpLen(s) > Wnd)
  BY <1>1, SizeFacts
<1> QED
  BY <1>2 DEF TrimmedToWindow

-----------------------------------------------------------------------------
(* tcp_receive: segments in order *)

\* The segment that is next in sequence and what is left on ooseq behind it.
InTurn(s, q, nxt, d) ==
  /\ s \in Fragment /\ Own(s, d) /\ s.held = s.len /\ s.seq = nxt
  /\ s.seq + s.len <= nxt + Wnd /\ Stop(s) <= d.sent
  /\ q \in Seq(Fragment) /\ Fragments(q, nxt, d)

\* A segment in order that overlaps ooseq: what it covers is dropped or it is cut, no byte is taken twice.
LEMMA JoinKeeps ==
  ASSUME NEW d, FlowOK(d), NEW p \in Block, NEW s, InTurn(s, p.ooseq, p.rcv_nxt, d)
  PROVE  LET j == Join(p, s)
         IN  /\ InTurn(j.seg, j.ooseq, p.rcv_nxt, d)
             /\ \A i \in 1 .. Len(j.ooseq) : Stop(j.seg) <= j.ooseq[i].seq
             /\ j.seg.fin => j.ooseq = <<>>
<1> DEFINE nxt == p.rcv_nxt
           q == p.ooseq
           j == Join(p, s)
<1>1. /\ s \in Fragment /\ Own(s, d) /\ s.held = s.len /\ s.seq = nxt
      /\ s.seq + s.len <= nxt + Wnd /\ Stop(s) <= d.sent
      /\ q \in Seq(Fragment) /\ Fragments(q, nxt, d)
  BY DEF InTurn
<1>2. /\ s.seq \in Nat /\ s.len \in Nat /\ s.fin \in BOOLEAN /\ Stop(s) \in Nat /\ Stop(s) \in Low
      /\ End(s) = Stop(s) /\ s.seq < Stop(s) /\ s.seq + s.len <= d.first + d.written
      /\ Stop(s) = s.seq + s.len + (IF s.fin THEN 1 ELSE 0)
  BY <1>1, FragmentFacts
<1>3. Len(q) \in Nat /\ <<>> \in Seq(Fragment) /\ Len(<<>>) = 0
      /\ \A k \in 1 .. Len(q) : q[k] \in Fragment /\ Fits(q[k], nxt, d) /\ Own(q[k], d)
  BY <1>1, FragmentQueue DEF Fragments, Fits
<1>4. CASE s.fin
  <2>1. j.seg = s /\ j.ooseq = <<>>
    BY <1>4 DEF Join
  <2>2. Fragments(<<>>, nxt, d)
    BY <1>3 DEF Fragments, Sorted
  <2> HIDE DEF j
  <2> QED
    BY <1>1, <1>3, <2>1, <2>2 DEF j, InTurn
<1>5. CASE ~s.fin
  <2> DEFINE z == End(s)
  <2>1. PICK n \in 0 .. Len(q) :
           /\ After(q, LAMBDA x : LEQ(Add(x.seq, x.len), z)) = SubSeq(q, n + 1, Len(q))
           /\ \A i \in 1 .. n : q[i].seq + q[i].len <= z
           /\ n < Len(q) => ~(q[n + 1].seq + q[n + 1].len <= z)
    <3>1. z \in Low /\ q \in Seq(Fragment) /\ \A k \in 1 .. Len(q) : Own(q[k], d)
      BY <1>1, <1>2, <1>3
    <3> HIDE DEF z, q
    <3> QED
      BY ONLY FlowOK(d), <3>1, CoveredPrefix
  <2> DEFINE rest == SubSeq(q, n + 1, Len(q))
             drop == SubSeq(q, 1, n)
             late == \E i \in 1 .. n : q[i].fin
             t == [s EXCEPT !.fin = late]
             cut == rest # <<>> /\ LT(rest[1].seq, End(t))
             u == IF cut THEN UpTo(t, rest[1].seq) ELSE t
  <2>2. /\ rest \in Seq(Fragment) /\ Len(rest) = Len(q) - n /\ Fragments(rest, nxt, d)
        /\ \A i \in 1 .. Len(rest) : rest[i] = q[n + i]
    BY <1>1, <2>1, FragmentsSuffix
  <2>3. drop \in Seq(Fragment) /\ Len(drop) = n /\ \A i \in 1 .. n : drop[i] = q[i]
    BY <1>1, <2>1, FragmentsPrefix
  <2>4. j.seg = u /\ j.ooseq = rest
    <3>1. After(q, LAMBDA x : Covers(s, x)) = rest
      BY <2>1 DEF Covers
    <3>2. SubSeq(q, 1, Len(q) - Len(rest)) = drop
      BY <1>3, <2>1, <2>2
    <3>3. (\E i \in 1 .. Len(drop) : drop[i].fin) <=> late
      BY <2>3
    <3> HIDE DEF rest, drop, late
    <3>4. [s EXCEPT !.fin = \E i \in 1 .. Len(drop) : drop[i].fin] = t
      <4> DEFINE x == \E i \in 1 .. Len(drop) : drop[i].fin
      <4>1. x = late
        BY <3>3, Zenon DEF late
      <4> QED
        BY <4>1
    <3> HIDE DEF t
    <3> QED
      BY <1>5, <3>1, <3>2, <3>4 DEF Join
  <2>5. late \in BOOLEAN
    OBVIOUS
  <2>6. ASSUME late
        PROVE  n = Len(q) /\ d.closed /\ s.seq + s.len = d.first + d.written /\ s.seq + s.len + 1 <= d.sent
    <3>1. PICK i \in 1 .. n : q[i].fin
      BY <2>6
    <3>2. i \in 1 .. Len(q) /\ Len(q) \in 1 .. Len(q)
      BY <1>3, <2>1, <3>1
    <3>3. Own(q[i], d) /\ Stop(q[i]) <= d.sent
      BY <1>3, <3>2 DEF Fits
    <3>4. d.closed /\ q[i].seq + q[i].len = d.first + d.written
      BY <3>1, <3>3 DEF Own
    <3>5. q[i].seq + q[i].len <= s.seq + s.len
      BY <1>2, <1>5, <2>1
    <3>6. s.seq + s.len = d.first + d.written
      BY <1>2, <3>4, <3>5, FlowFacts
    <3>7. Stop(q[i]) = q[i].seq + q[i].len + 1
      <4>1. Stop(q[i]) = q[i].seq + q[i].len + (IF q[i].fin THEN 1 ELSE 0)
        BY <1>3, <3>2, <3>3, FragmentFacts
      <4> QED
        BY <3>1, <4>1
    <3>8. i = Len(q)
      <4> SUFFICES ASSUME i # Len(q) PROVE FALSE
        OBVIOUS
      <4>1. i < Len(q)
        BY <1>3, <3>2
      <4>2. ~q[i].fin
        BY <1>1, <3>2, <4>1 DEF Fragments, Sorted
      <4> QED
        BY <3>1, <4>2
    <3> QED
      BY <1>3, <2>1, <3>3, <3>4, <3>6, <3>7, <3>8
  <2>7. CASE late
    <3>1. rest = <<>>
      BY <1>3, <2>2, <2>6, <2>7, FragmentQueue
    <3>2. u = t
      BY <3>1
    <3>3. t \in Fragment /\ t.seq = s.seq /\ t.len = s.len /\ t.held = s.held /\ t.pos = s.pos /\ t.fin = TRUE
      BY <1>1, <2>5, <2>7 DEF Fragment
    <3> HIDE DEF t, rest, u, j
    <3>4. Own(t, d)
      <4>1. TcpLen(t) > 0
        BY <1>2, <3>3 DEF TcpLen
      <4> QED
        BY <1>1, <2>6, <2>7, <3>3, <4>1 DEF Own
    <3>5. Stop(t) = s.seq + s.len + 1
      BY <1>2, <3>3 DEF Stop, TcpLen
    <3>6. Len(rest) = 0
      BY <3>1
    <3> QED
      BY <1>1, <2>2, <2>4, <2>6, <2>7, <3>1, <3>2, <3>3, <3>4, <3>5, <3>6 DEF InTurn, j
  <2>8. CASE ~late
    <3>1. t = s
      BY <1>1, <1>5, <2>8 DEF Fragment
    <3> HIDE DEF t, late
    <3>2. ASSUME NEW i \in 1 .. Len(rest)
          PROVE  rest[i].seq \in Nat /\ rest[1].seq <= rest[i].seq /\ 1 \in 1 .. Len(rest) /\ nxt < rest[1].seq
                 /\ rest[1].seq \in Low /\ rest # <<>>
      <4> HIDE DEF rest
      <4>1. 1 \in 1 .. Len(rest) /\ rest # <<>> /\ (i = 1 \/ 1 < i)
        BY <2>2, <3>2, FragmentQueue
      <4>2. rest[1] \in Fragment /\ rest[i] \in Fragment /\ Fits(rest[1], nxt, d) /\ Fits(rest[i], nxt, d)
        BY <2>2, <3>2, <4>1, FragmentQueue DEF Fragments
      <4>3. /\ rest[1].seq \in Nat /\ rest[i].seq \in Nat /\ rest[1].seq < Stop(rest[1]) /\ Stop(rest[1]) \in Nat
            /\ rest[1].seq \in Low /\ nxt < rest[1].seq
        BY <4>2, FragmentFacts DEF Fits
      <4>4. 1 < i => Stop(rest[1]) <= rest[i].seq
        BY <2>2, <3>2, <4>1 DEF Fragments, Sorted
      <4> QED
        BY <4>1, <4>3, <4>4
    <3>3. rest # <<>> => 1 \in 1 .. Len(rest)
      <4> HIDE DEF rest
      <4> QED
        BY <2>2, FragmentQueue
    <3>4. CASE cut
      <4> DEFINE b == rest[1].seq
                 c == [UpTo(s, b) EXCEPT !.fin = FALSE]
      <4>1. b \in Nat /\ nxt < b /\ b \in Low /\ 1 \in 1 .. Len(rest)
        BY <3>2, <3>3, <3>4
      <4>2. b < Stop(s)
        BY <1>2, <3>1, <3>4, <4>1, LowOrder
      <4>3. u = UpTo(s, b)
        BY <3>1, <3>4
      <4> HIDE DEF b
      <4>4. /\ c \in Fragment /\ Own(c, d) /\ c.held = c.len
            /\ c.seq = s.seq /\ c.len = b - s.seq /\ c.fin = FALSE /\ Stop(c) = b
            /\ UpTo(s, b) = c
        <5>1. s.seq < b /\ b <= s.seq + s.len
          BY <1>1, <1>2, <1>5, <4>1, <4>2
        <5> QED
          BY <1>1, <1>5, <4>1, <5>1, CutIs
      <4> HIDE DEF c, u, cut
      <4>5. c.seq + c.len <= nxt + Wnd /\ Stop(c) <= d.sent
        <5>1. c.seq + c.len = b /\ b <= s.seq + s.len /\ b <= Stop(s) /\ Stop(c) = b
          BY <1>2, <1>5, <4>1, <4>2, <4>4
        <5>2. nxt \in Nat /\ nxt + Wnd \in Nat /\ d.sent \in Nat /\ s.seq + s.len \in Nat
          <6>1. nxt \in Nat /\ s.seq + s.len \in Nat
            BY <1>1, <1>2
          <6>2. Wnd \in Nat
            BY SizeFacts
          <6>3. d.sent \in Nat
            BY FlowFacts
          <6> HIDE DEF nxt
          <6> QED
            BY <6>1, <6>2, <6>3
        <5> QED
          BY <1>1, <1>2, <4>1, <5>1, <5>2
      <4>6. InTurn(u, rest, nxt, d)
        BY <1>1, <2>2, <4>3, <4>4, <4>5 DEF InTurn
      <4>7. \A i \in 1 .. Len(rest) : Stop(u) <= rest[i].seq
        BY <3>2, <4>3, <4>4 DEF b
      <4> HIDE DEF rest, j
      <4> QED
        BY <2>4, <4>3, <4>4, <4>6, <4>7 DEF j
    <3>5. CASE ~cut
      <4>1. u = s
        BY <3>1, <3>5
      <4>2. \A i \in 1 .. Len(rest) : Stop(s) <= rest[i].seq
        <5> SUFFICES ASSUME NEW i \in 1 .. Len(rest) PROVE Stop(s) <= rest[i].seq
          OBVIOUS
        <5>1. ~LT(rest[1].seq, Stop(s))
          BY <1>2, <3>1, <3>2, <3>5
        <5>2. ~(rest[1].seq < Stop(s))
          BY <1>2, <3>2, <5>1, LowOrder
        <5>3. rest[1].seq \in Nat
          BY <3>2, SizeFacts DEF Low
        <5>4. rest[1].seq <= rest[i].seq /\ rest[i].seq \in Nat /\ Stop(s) \in Nat
          BY <1>2, <3>2
        <5> HIDE DEF rest
        <5> QED
          BY <5>2, <5>3, <5>4
      <4> HIDE DEF u, rest, j
      <4> QED
        BY <1>1, <1>5, <2>2, <2>4, <4>1, <4>2 DEF j, InTurn
    <3> QED
      BY <3>4, <3>5
  <2> QED
    BY <2>7, <2>8
<1> QED
  BY <1>2, <1>4, <1>5

\* Segments that follow each other from nxt on.
Chain(all, nxt, d) ==
  /\ all \in Seq(Fragment) /\ Len(all) >= 1 /\ all[1].seq = nxt
  /\ \A i \in 1 .. Len(all) :
       /\ Own(all[i], d) /\ all[i].held = all[i].len
       /\ Stop(all[i]) <= d.sent /\ nxt <= all[i].seq /\ all[i].seq + all[i].len <= nxt + Wnd
       /\ i < Len(all) => ~all[i].fin /\ all[i + 1].seq = Stop(all[i])

\* The segment and the fragments that are now in order form a chain, the rest stays on ooseq.
LEMMA DrainIs ==
  ASSUME NEW d, FlowOK(d), NEW nxt \in Nat, NEW s, NEW q, InTurn(s, q, nxt, d),
         \A i \in 1 .. Len(q) : Stop(s) <= q[i].seq, s.fin => q = <<>>
  PROVE  LET dr == InSequence(q, End(s))
             all == <<s>> \o dr
             rem == SubSeq(q, Len(dr) + 1, Len(q))
             late == \E i \in 1 .. Len(dr) : dr[i].fin
         IN  /\ Chain(all, nxt, d)
             /\ rem \in Seq(Fragment) /\ Fragments(rem, Stop(all[Len(all)]), d)
             /\ s.fin \/ late <=> all[Len(all)].fin
<1> DEFINE z == End(s)
           starts(i) == IF i = 1 THEN z ELSE End(q[i - 1])
           T == {i \in 1 .. Len(q) : q[i].seq = starts(i)}
           n == Cardinality({k \in 1 .. Len(q) : \A i \in 1 .. k : i \in T})
           dr == InSequence(q, z)
           all == <<s>> \o dr
           rem == SubSeq(q, Len(dr) + 1, Len(q))
           late == \E i \in 1 .. Len(dr) : dr[i].fin
           t == Stop(all[Len(all)])
<1>1. /\ s \in Fragment /\ Own(s, d) /\ s.held = s.len /\ s.seq = nxt
      /\ s.seq + s.len <= nxt + Wnd /\ Stop(s) <= d.sent
      /\ q \in Seq(Fragment) /\ Fragments(q, nxt, d)
  BY DEF InTurn
<1>2. /\ s.seq \in Nat /\ s.len \in Nat /\ s.fin \in BOOLEAN /\ Stop(s) \in Nat
      /\ z = Stop(s) /\ s.seq < Stop(s)
  BY <1>1, FragmentFacts
<1>3. Len(q) \in Nat
      /\ \A k \in 1 .. Len(q) : q[k] \in Fragment /\ Fits(q[k], nxt, d) /\ Own(q[k], d)
  BY <1>1, FragmentQueue DEF Fragments, Fits
<1>4. \A k \in 1 .. Len(q) : /\ q[k].seq \in Nat /\ q[k].seq < Stop(q[k]) /\ Stop(q[k]) \in Nat
                             /\ End(q[k]) = Stop(q[k]) /\ nxt < q[k].seq /\ q[k].len \in Nat
                             /\ q[k].seq + q[k].len <= nxt + Wnd /\ Stop(q[k]) <= d.sent
                             /\ q[k].held = q[k].len /\ q[k].fin \in BOOLEAN
  BY <1>3, FragmentFacts DEF Fits
<1>5. \A k, j \in 1 .. Len(q) : k < j => ~q[k].fin /\ Stop(q[k]) <= q[j].seq
  BY <1>1 DEF Fragments, Sorted
<1>6. dr = SubSeq(q, 1, n)
  <2>1. {k \in 1 .. Len(q) : \A i \in 1 .. k : q[i].seq = starts(i)}
        = {k \in 1 .. Len(q) : \A i \in 1 .. k : i \in T}
    <3> SUFFICES ASSUME NEW k \in 1 .. Len(q)
                 PROVE  (\A i \in 1 .. k : q[i].seq = starts(i)) <=> (\A i \in 1 .. k : i \in T)
      OBVIOUS
    <3>1. \A i \in 1 .. k : i \in 1 .. Len(q)
      BY <1>3
    <3> HIDE DEF starts
    <3> QED
      BY <3>1
  <2> HIDE DEF z
  <2> QED
    BY <2>1 DEF InSequence
<1>7. \A i : i \in T <=> i \in 1 .. Len(q) /\ q[i].seq = starts(i)
  OBVIOUS
<1> HIDE DEF T
<1>8. n \in 0 .. Len(q) /\ (\A i \in 1 .. n : i \in T) /\ (n < Len(q) => n + 1 \notin T)
  BY <1>3, PrefixCount
<1> HIDE DEF n, dr
<1>9. /\ dr \in Seq(Fragment) /\ Len(dr) = n /\ \A i \in 1 .. n : dr[i] = q[i]
  BY <1>1, <1>6, <1>8, FragmentsPrefix
<1>10. \A i \in 1 .. n : i \in 1 .. Len(q) /\ q[i].seq = starts(i)
  BY <1>7, <1>8
<1>11. /\ all \in Seq(Fragment) /\ Len(all) = n + 1 /\ all[1] = s
       /\ \A i \in 1 .. n : all[i + 1] = q[i]
  <2>1. n \in Nat
    BY <1>3, <1>8
  <2>2. <<s>> \in Seq(Fragment) /\ Len(<<s>>) = 1 /\ <<s>>[1] = s
    BY <1>1
  <2>3. all \in Seq(Fragment) /\ Len(all) = 1 + Len(dr)
        /\ \A i \in 1 .. 1 + Len(dr) : all[i] = IF i <= 1 THEN <<s>>[i] ELSE dr[i - 1]
    BY <1>9, <2>2, ConcatProperties
  <2> HIDE DEF all
  <2> QED
    BY <1>9, <2>1, <2>2, <2>3
<1> HIDE DEF all
<1>12. n > 0 => ~s.fin
  <2> SUFFICES ASSUME n > 0, s.fin PROVE FALSE
    OBVIOUS
  <2>1. Len(q) = 0
    OBVIOUS
  <2> QED
    BY <1>8, <2>1
<1>13. Chain(all, nxt, d)
  <2>1. Len(all) >= 1 /\ all[1].seq = nxt
    BY <1>1, <1>3, <1>8, <1>11
  <2>2. ASSUME NEW i \in 1 .. Len(all)
        PROVE  /\ Own(all[i], d) /\ all[i].held = all[i].len
               /\ Stop(all[i]) <= d.sent /\ nxt <= all[i].seq /\ all[i].seq + all[i].len <= nxt + Wnd
               /\ i < Len(all) => ~all[i].fin /\ all[i + 1].seq = Stop(all[i])
    <3>1. CASE i = 1
      <4>1. i < Len(all) => 1 \in 1 .. n /\ n > 0
        BY <1>3, <1>8, <1>11, <3>1
      <4>2. i < Len(all) => all[i + 1] = q[1] /\ q[1].seq = z
        BY <1>10, <1>11, <3>1, <4>1
      <4> QED
        BY <1>1, <1>2, <1>11, <1>12, <3>1, <4>1, <4>2
    <3>2. CASE i # 1
      <4> DEFINE k == i - 1
      <4>1. k \in 1 .. n /\ i = k + 1
        BY <1>3, <1>8, <1>11, <3>2
      <4>2. all[i] = q[k] /\ k \in 1 .. Len(q)
        BY <1>10, <1>11, <4>1
      <4>3. i < Len(all) => ~all[i].fin /\ all[i + 1].seq = Stop(all[i])
        <5> SUFFICES ASSUME i < Len(all) PROVE ~all[i].fin /\ all[i + 1].seq = Stop(all[i])
          OBVIOUS
        <5>1. i \in 1 .. n /\ k < i /\ i \in 1 .. Len(q)
          BY <1>3, <1>8, <1>11, <4>1, <1>10
        <5>2. all[i + 1] = q[i] /\ q[i].seq = End(q[k])
          BY <1>10, <1>11, <3>2, <5>1
        <5> QED
          BY <1>4, <1>5, <4>2, <5>1, <5>2
      <4> HIDE DEF k
      <4> QED
        BY <1>3, <1>4, <4>2, <4>3
    <3> QED
      BY <3>1, <3>2
  <2> QED
    BY <1>11, <2>1, <2>2 DEF Chain
<1>14. /\ rem \in Seq(Fragment) /\ Len(rem) = Len(q) - n /\ Fragments(rem, nxt, d)
       /\ \A i \in 1 .. Len(rem) : rem[i] = q[n + i]
  BY <1>1, <1>8, <1>9, FragmentsSuffix
<1> HIDE DEF rem
<1>15. t = (IF n = 0 THEN Stop(s) ELSE Stop(q[n])) /\ t \in Nat /\ nxt <= t
  <2>1. CASE n = 0
    BY <1>1, <1>2, <1>11, <2>1
  <2>2. CASE n # 0
    <3>1. n \in 1 .. n /\ n \in 1 .. Len(q)
      BY <1>3, <1>8, <2>2
    <3>2. t = Stop(q[n])
      BY <1>11, <3>1
    <3>3. nxt < q[n].seq /\ q[n].seq < Stop(q[n]) /\ Stop(q[n]) \in Nat /\ q[n].seq \in Nat
      BY <1>4, <3>1
    <3> HIDE DEF t
    <3> QED
      BY <2>2, <3>2, <3>3
  <2> QED
    BY <2>1, <2>2
<1>16. ASSUME NEW i \in 1 .. Len(rem)
       PROVE  t < rem[i].seq
  <2>1. n + i \in 1 .. Len(q) /\ n + 1 \in 1 .. Len(q) /\ rem[i] = q[n + i] /\ n < Len(q) /\ (i = 1 \/ n + 1 < n + i)
    BY <1>3, <1>8, <1>14
  <2>2. q[n + 1].seq # t /\ t <= q[n + 1].seq
    <3>1. q[n + 1].seq # starts(n + 1)
      BY <1>7, <1>8, <2>1
    <3>2. CASE n = 0
      BY <1>2, <1>15, <2>1, <3>1, <3>2
    <3>3. CASE n # 0
      <4>1. n \in 1 .. Len(q) /\ n < n + 1 /\ n + 1 # 1 /\ (n + 1) - 1 = n
        BY <1>3, <1>8, <3>3
      <4>2. starts(n + 1) = End(q[n])
        BY <4>1
      <4> HIDE DEF starts
      <4> QED
        BY <1>4, <1>5, <1>15, <2>1, <3>1, <3>3, <4>1, <4>2
    <3> QED
      BY <3>2, <3>3
  <2>3. q[n + 1].seq <= q[n + i].seq
    <3>1. i # 1 => Stop(q[n + 1]) <= q[n + i].seq
      BY <1>5, <2>1
    <3>2. q[n + 1].seq \in Nat /\ q[n + i].seq \in Nat /\ q[n + 1].seq < Stop(q[n + 1]) /\ Stop(q[n + 1]) \in Nat
      BY <1>4, <2>1
    <3> QED
      BY <2>1, <3>1, <3>2
  <2>4. q[n + 1].seq \in Nat /\ q[n + i].seq \in Nat /\ t \in Nat
    BY <1>4, <1>15, <2>1
  <2> HIDE DEF t
  <2> QED
    BY <2>1, <2>2, <2>3, <2>4
<1>17. Fragments(rem, t, d)
  <2>1. ASSUME NEW i \in 1 .. Len(rem) PROVE Fits(rem[i], t, d)
    <3>1. Fits(rem[i], nxt, d) /\ t < rem[i].seq /\ rem[i] \in Fragment
      BY <1>14, <1>16, FragmentQueue DEF Fragments
    <3>2. rem[i].seq \in Nat /\ rem[i].len \in Nat
      BY <3>1 DEF Fragment
    <3>3. rem[i].seq + rem[i].len <= nxt + Wnd
      BY <3>1 DEF Fits
    <3>4. rem[i].seq + rem[i].len <= t + Wnd
      <4> DEFINE x == rem[i].seq + rem[i].len
      <4>1. x \in Nat
        BY <3>2
      <4> HIDE DEF x, t
      <4> QED
        BY <1>15, <3>3, <4>1, SizeFacts DEF x
    <3> HIDE DEF t
    <3> QED
      BY <3>1, <3>4 DEF Fits
  <2> QED
    BY <1>14, <2>1 DEF Fragments
<1>18. s.fin \/ late <=> all[Len(all)].fin
  <2>1. CASE n = 0
    BY <1>9, <1>11, <2>1
  <2>2. CASE n # 0
    <3>1. n \in 1 .. n /\ n \in 1 .. Len(q) /\ n > 0
      BY <1>3, <1>8, <2>2
    <3>2. all[Len(all)] = q[n] /\ dr[n] = q[n]
      BY <1>9, <1>11, <3>1
    <3>3. ASSUME NEW i \in 1 .. Len(dr), dr[i].fin PROVE i = n
      <4>1. i \in 1 .. n /\ i \in 1 .. Len(q) /\ dr[i] = q[i]
        BY <1>9, <1>10
      <4>2. i < n => ~q[i].fin
        BY <1>5, <3>1, <4>1
      <4> QED
        BY <1>3, <1>8, <3>3, <4>1, <4>2
    <3> QED
      BY <1>9, <1>12, <3>1, <3>2, <3>3
  <2> QED
    BY <2>1, <2>2
<1> QED
  BY <1>13, <1>14, <1>17, <1>18 DEF all, dr, rem

\* n numbers from g + 1 on.
Counts(x, n, g) == x \in Seq(Nat) /\ Len(x) = n /\ \A k \in 1 .. n : x[k] = g + k

\* The sequence that counts.
LEMMA CountsIs ==
  ASSUME NEW n \in Nat, NEW g \in Nat
  PROVE  Counts([k \in 1 .. n |-> g + k], n, g)
<1> DEFINE x == [k \in 1 .. n |-> g + k]
<1>1. x \in [1 .. n -> Nat] /\ \A k \in 1 .. n : x[k] = g + k
  OBVIOUS
<1> HIDE DEF x
<1>2. x \in Seq(Nat) /\ Len(x) = n
  BY <1>1, FunIsSeq
<1> QED
  BY <1>1, <1>2 DEF Counts, x

\* Counting on from where another count ends.
LEMMA CountConcat ==
  ASSUME NEW a \in Nat, NEW n \in Nat, NEW g \in Nat, NEW pos \in Nat, n > 0 => pos = g + a,
         NEW x, Counts(x, a, g), NEW y, Counts(y, n, pos), NEW z, Counts(z, a + n, g)
  PROVE  x \o y = z
<1>1. /\ x \in Seq(Nat) /\ Len(x) = a /\ y \in Seq(Nat) /\ Len(y) = n /\ z \in Seq(Nat) /\ Len(z) = a + n
      /\ (\A i \in 1 .. a : x[i] = g + i) /\ (\A i \in 1 .. n : y[i] = pos + i)
      /\ \A i \in 1 .. a + n : z[i] = g + i
  BY DEF Counts
<1>2. /\ x \o y \in Seq(Nat) /\ Len(x \o y) = a + n
      /\ \A i \in 1 .. a + n : (x \o y)[i] = IF i <= a THEN x[i] ELSE y[i - a]
  BY ONLY <1>1, ConcatProperties
<1>3. ASSUME NEW i \in 1 .. a + n PROVE (x \o y)[i] = z[i]
  <2>1. CASE i <= a
    <3>1. i \in 1 .. a
      BY <2>1
    <3> QED
      BY <1>1, <1>2, <2>1, <3>1
  <2>2. CASE ~(i <= a)
    <3>1. i - a \in 1 .. n /\ n > 0
      BY <2>2
    <3>2. y[i - a] = pos + (i - a) /\ pos = g + a
      BY <1>1, <3>1
    <3>3. pos + (i - a) = g + i
      BY <3>2
    <3> QED
      BY <1>1, <1>2, <2>2, <3>2, <3>3
  <2> QED
    BY <2>1, <2>2
<1> QED
  BY ONLY <1>1, <1>2, <1>3, SeqEqual

\* A chain of segments, in increasing order.
LEMMA ChainFacts ==
  ASSUME NEW d, FlowOK(d), NEW nxt \in Nat, NEW all, Chain(all, nxt, d)
  PROVE  /\ Len(all) \in Nat /\ Len(all) \in 1 .. Len(all)
         /\ \A i \in 1 .. Len(all) :
              /\ all[i] \in Fragment /\ all[i].seq \in Nat /\ all[i].len \in Nat /\ all[i].pos \in Nat
              /\ all[i].fin \in BOOLEAN /\ End(all[i]) = Stop(all[i]) /\ Stop(all[i]) \in Nat
              /\ Stop(all[i]) = all[i].seq + all[i].len + (IF all[i].fin THEN 1 ELSE 0)
              /\ TcpLen(all[i]) = all[i].len + (IF all[i].fin THEN 1 ELSE 0)
              /\ nxt <= all[i].seq /\ all[i].seq < Stop(all[i])
              /\ i < Len(all) => Stop(all[i]) = all[i].seq + all[i].len
              /\ i > 1 => i - 1 \in 1 .. Len(all) /\ all[i].seq = Stop(all[i - 1]) /\ ~all[i - 1].fin
<1>1. all \in Seq(Fragment) /\ Len(all) >= 1 /\ Len(all) \in Nat
  BY FragmentQueue DEF Chain
<1>2. ASSUME NEW i \in 1 .. Len(all)
      PROVE  /\ all[i] \in Fragment /\ all[i].seq \in Nat /\ all[i].len \in Nat /\ all[i].pos \in Nat
              /\ all[i].fin \in BOOLEAN /\ End(all[i]) = Stop(all[i]) /\ Stop(all[i]) \in Nat
              /\ Stop(all[i]) = all[i].seq + all[i].len + (IF all[i].fin THEN 1 ELSE 0)
              /\ TcpLen(all[i]) = all[i].len + (IF all[i].fin THEN 1 ELSE 0)
              /\ nxt <= all[i].seq /\ all[i].seq < Stop(all[i])
  BY <1>1, FragmentQueue, FragmentFacts DEF Chain
<1>3. ASSUME NEW i \in 1 .. Len(all), i < Len(all)
      PROVE  Stop(all[i]) = all[i].seq + all[i].len
  <2>1. ~all[i].fin
    BY <1>3 DEF Chain
  <2> QED
    BY <1>2, <2>1
<1>4. ASSUME NEW i \in 1 .. Len(all), i > 1
      PROVE  i - 1 \in 1 .. Len(all) /\ all[i].seq = Stop(all[i - 1]) /\ ~all[i - 1].fin
  <2>1. i - 1 \in 1 .. Len(all) /\ i - 1 < Len(all) /\ (i - 1) + 1 = i
    BY <1>1, <1>4
  <2> QED
    BY <2>1 DEF Chain
<1>5. Len(all) \in 1 .. Len(all)
  BY <1>1
<1> QED
  BY <1>1, <1>2, <1>3, <1>4, <1>5

\* The bytes of a chain are the next bytes of the stream.
LEMMA ChainBytes ==
  ASSUME NEW d, FlowOK(d), NEW nxt \in Nat, nxt = d.first + d.got, NEW all, Chain(all, nxt, d)
  PROVE  LET z == all[Len(all)]
         IN  FlattenSeq([i \in 1 .. Len(all) |-> Bytes(all[i])])
             = [k \in 1 .. z.seq + z.len - nxt |-> d.got + k]
<1> DEFINE n == Len(all)
           g == d.got
           B == [i \in 1 .. n |-> Bytes(all[i])]
           G == [i \in 1 .. n |-> [k \in 1 .. all[i].seq + all[i].len - nxt |-> g + k]]
<1>1. /\ n \in Nat /\ n \in 1 .. n
      /\ \A i \in 1 .. n :
              /\ all[i].seq \in Nat /\ all[i].len \in Nat /\ all[i].pos \in Nat
              /\ nxt <= all[i].seq
              /\ i < n => Stop(all[i]) = all[i].seq + all[i].len
              /\ i > 1 => i - 1 \in 1 .. n /\ all[i].seq = Stop(all[i - 1]) /\ i - 1 < n
  BY ChainFacts
<1>2. /\ g \in Nat /\ d.first \in Nat
  BY FlowFacts
<1>3. \A i \in 1 .. n : all[i].held = all[i].len /\ (all[i].len > 0 => all[i].seq = d.first + all[i].pos)
  BY DEF Chain, Own
<1>4. \A i \in 1 .. n : B[i] = [k \in 1 .. all[i].len |-> all[i].pos + k]
  BY <1>3 DEF Bytes
<1>5. \A i \in 1 .. n : all[i].len > 0 => all[i].pos = g + (all[i].seq - nxt)
  <2> SUFFICES ASSUME NEW i \in 1 .. n, all[i].len > 0 PROVE all[i].pos = g + (all[i].seq - nxt)
    OBVIOUS
  <2>1. all[i].seq = d.first + all[i].pos /\ all[i].seq \in Nat /\ all[i].pos \in Nat
    BY <1>1, <1>3
  <2> QED
    BY <1>2, <2>1, SMTT(30)
<1>6. G = [i \in 1 .. n |-> G[i]] /\ \A i \in 1 .. n : G[i] = [k \in 1 .. all[i].seq + all[i].len - nxt |-> g + k]
  OBVIOUS
<1>7. Len(B) = n
  <2>1. n \in Nat
    BY <1>1
  <2> HIDE DEF n
  <2> QED
    BY <2>1
<1>8. ASSUME NEW i \in 1 .. n
      PROVE  /\ Counts(G[i], all[i].seq + all[i].len - nxt, g) /\ Counts(B[i], all[i].len, all[i].pos)
             /\ all[i].seq + all[i].len - nxt \in Nat
  <2> DEFINE a == all[i].seq + all[i].len - nxt
             len == all[i].len
             pos == all[i].pos
  <2>1. a \in Nat /\ len \in Nat /\ pos \in Nat
    BY <1>1
  <2>2. G[i] = [k \in 1 .. a |-> g + k] /\ B[i] = [k \in 1 .. len |-> pos + k]
    BY <1>4
  <2> HIDE DEF a, len, pos, B, G
  <2> QED
    BY <1>2, <2>1, <2>2, CountsIs DEF a, len, pos
<1> HIDE DEF B, G
<1>9. G[1] = B[1]
  <2>1. 1 \in 1 .. n
    BY <1>1
  <2>2. all[1].seq = nxt /\ all[1].seq + all[1].len - nxt = all[1].len
    BY <1>1, <2>1 DEF Chain
  <2>3. Counts(G[1], all[1].len, g) /\ Counts(B[1], all[1].len, all[1].pos)
    BY <1>8, <2>1, <2>2
  <2>4. all[1].len = 0 \/ (all[1].len > 0 /\ all[1].pos = g)
    <3>1. all[1].len \in Nat /\ (all[1].len > 0 => all[1].pos = g + (all[1].seq - nxt))
      BY <1>1, <1>5, <2>1
    <3>2. g + (all[1].seq - nxt) = g
      BY <1>2, <2>2
    <3> QED
      BY <3>1, <3>2
  <2>5. ASSUME NEW k \in 1 .. all[1].len PROVE G[1][k] = B[1][k]
    <3>1. all[1].len > 0
      BY <1>1, <2>1
    <3> QED
      BY <2>3, <2>4, <3>1 DEF Counts
  <2> QED
    BY <2>3, <2>5, SeqEqual DEF Counts
<1>10. ASSUME NEW i \in 2 .. n PROVE G[i] = G[i - 1] \o B[i]
  <2> DEFINE a == all[i].seq - nxt
             len == all[i].len
             pos == all[i].pos
             x == G[i - 1]
             y == B[i]
             z == G[i]
  <2>1. i \in 1 .. n /\ i - 1 \in 1 .. n /\ all[i].seq = all[i - 1].seq + all[i - 1].len
    BY <1>1
  <2>2. a \in Nat /\ len \in Nat /\ pos \in Nat /\ (len > 0 => pos = g + a) /\ g \in Nat
    BY <1>1, <1>2, <1>5, <2>1
  <2>3. Counts(y, len, pos)
    BY <1>8, <2>1
  <2>4. all[i].seq + all[i].len - nxt = a + len /\ all[i - 1].seq + all[i - 1].len - nxt = a
    BY <1>1, <2>1
  <2>5. Counts(z, a + len, g)
    BY <1>8, <2>1, <2>4
  <2>6. Counts(x, a, g)
    BY <1>8, <2>1, <2>4
  <2> HIDE DEF a, len, pos, x, y, z, g
  <2>7. x \o y = z
    BY ONLY <2>2, <2>3, <2>5, <2>6, CountConcat
  <2> QED
    BY <2>7 DEF x, y, z
<1>11. n \in Nat \ {0}
  BY <1>1
<1>12. FlattenSeq(B) = G[n]
  <2> DEFINE h == n
  <2>1. h = Len(B) /\ h \in Nat \ {0} /\ G = [i \in 1 .. h |-> G[i]] /\ \A i \in 2 .. h : G[i] = G[i - 1] \o B[i]
    BY <1>6, <1>7, <1>10, <1>11
  <2> HIDE DEF h
  <2>2. FlattenSeq(B) = G[Len(B)]
    BY ONLY <1>9, <2>1, FlattenIs
  <2> QED
    BY <1>7, <2>2
<1> QED
  BY <1>1, <1>6, <1>12 DEF B

\* The window that is announced with the right edge at e when t is expected next and
\* there is room up to b.
Ann(e, t, b) == IF e + Mss <= b THEN b - t ELSE IF e < t THEN 0 ELSE e - t
At(p, t, b) == [p EXCEPT !.rcv_nxt = t, !.rcv_wnd = b - t, !.rcv_ann_wnd = Ann(p.edge, t, b)]

\* tcp_update_rcv_ann_wnd, without a wrap.
LEMMA UpdateAnnIs ==
  ASSUME NEW p \in Block, p.rcv_nxt \in Low, p.edge \in Low, p.edge + Mss \in Low,
         p.rcv_nxt + p.rcv_wnd \in Low
  PROVE  /\ UpdateAnnWnd(p) = [p EXCEPT !.rcv_ann_wnd = Ann(p.edge, p.rcv_nxt, p.rcv_nxt + p.rcv_wnd)]
         /\ EdgeMoves(p) <=> p.edge + Mss <= p.rcv_nxt + p.rcv_wnd
         /\ NewEdge(p) = p.rcv_nxt + p.rcv_wnd
<1> DEFINE t == p.rcv_nxt
           b == p.rcv_nxt + p.rcv_wnd
           e == p.edge
<1>1. /\ t \in Nat /\ e \in Nat /\ p.rcv_wnd \in Int /\ b \in Nat /\ Mss \in Nat
      /\ t \in Low /\ b \in Low /\ e \in Low /\ e + Mss \in Low
  BY SizeFacts DEF Block, Low
<1>2. NewEdge(p) = b
  BY <1>1, LowAdd DEF NewEdge
<1>3. Add(e, LeastOf(Wnd \div 2, Mss)) = e + Mss
  BY <1>1, SizeFacts, LowAdd
<1>4. EdgeMoves(p) <=> e + Mss <= b
  BY <1>1, <1>2, <1>3, LowOrder DEF EdgeMoves
<1>5. LT(e, t) <=> e < t
  BY <1>1, LowOrder
<1>6. ~(e < t) => Diff(e, t) = e - t
  BY <1>1, LowDiff
<1>7. p.rcv_wnd = b - t
  BY <1>1
<1>8. (IF EdgeMoves(p) THEN p.rcv_wnd ELSE IF LT(p.edge, p.rcv_nxt) THEN 0 ELSE Diff(p.edge, p.rcv_nxt))
      = Ann(e, t, b)
  <2> HIDE DEF t, b, e
  <2>1. p.edge = e /\ p.rcv_nxt = t
    BY DEF e, t
  <2> QED
    BY <1>4, <1>5, <1>6, <1>7, <2>1 DEF Ann
<1>9. UpdateAnnWnd(p) = [p EXCEPT !.rcv_ann_wnd = Ann(e, t, b)]
  BY <1>8 DEF UpdateAnnWnd
<1> QED
  BY <1>2, <1>4, <1>9

\* The announced window is a number.
LEMMA AnnInt ==
  ASSUME NEW e \in Nat, NEW t \in Nat, NEW b \in Nat
  PROVE  Ann(e, t, b) \in Int
BY SizeFacts DEF Ann

\* The fields of a block that taking a segment leaves alone.
SameRest(p, q) ==
  /\ q.snd_lbb = p.snd_lbb /\ q.snd_buf = p.snd_buf /\ q.unsent = p.unsent /\ q.unacked = p.unacked
  /\ q.snd_nxt = p.snd_nxt /\ q.lastack = p.lastack /\ q.snd_wnd = p.snd_wnd /\ q.cwnd = p.cwnd
  /\ q.rtime = p.rtime /\ q.state = p.state /\ q.rxclosed = p.rxclosed
  /\ q.snd_wl1 = p.snd_wl1 /\ q.snd_wl2 = p.snd_wl2 /\ q.ssthresh = p.ssthresh
  /\ q.dupacks = p.dupacks /\ q.nrtx = p.nrtx
  /\ q.edge = p.edge /\ q.ooseq = p.ooseq

\* The fields of the block that expects t.
LEMMA AtBlock ==
  ASSUME NEW p \in Block, NEW t \in Nat, NEW b \in Nat
  PROVE  LET q == At(p, t, b)
         IN  /\ q \in Block
             /\ q.rcv_nxt = t /\ q.rcv_wnd = b - t /\ q.rcv_ann_wnd = Ann(p.edge, t, b)
             /\ SameRest(p, q)
<1> DEFINE a == Ann(p.edge, t, b)
           w == b - t
           q == At(p, t, b)
<1>1. a \in Int /\ w \in Int
  <2>1. p.edge \in Nat
    BY DEF Block
  <2> QED
    BY <2>1, AnnInt
<1>2. q = [p EXCEPT !.rcv_nxt = t, !.rcv_wnd = w, !.rcv_ann_wnd = a]
  BY DEF At
<1> HIDE DEF a, w, q
<1>3. q \in Block
  BY <1>1, <1>2 DEF Block
<1> QED
  BY <1>2, <1>3 DEF Block, SameRest, a, w, q

\* Blocks with the same fields are the same.
LEMMA BlockEqual ==
  ASSUME NEW p \in Block, NEW q \in Block, SameRest(p, q),
         q.rcv_nxt = p.rcv_nxt, q.rcv_wnd = p.rcv_wnd, q.rcv_ann_wnd = p.rcv_ann_wnd
  PROVE  p = q
<1>1. p = [state |-> p.state, snd_lbb |-> p.snd_lbb, snd_buf |-> p.snd_buf, unsent |-> p.unsent, unacked |-> p.unacked,
          snd_nxt |-> p.snd_nxt, lastack |-> p.lastack, snd_wnd |-> p.snd_wnd, snd_wl1 |-> p.snd_wl1, snd_wl2 |-> p.snd_wl2,
          cwnd |-> p.cwnd, ssthresh |-> p.ssthresh, dupacks |-> p.dupacks, nrtx |-> p.nrtx, rtime |-> p.rtime,
          rcv_nxt |-> p.rcv_nxt, rcv_wnd |-> p.rcv_wnd, rcv_ann_wnd |-> p.rcv_ann_wnd, edge |-> p.edge, ooseq |-> p.ooseq,
          rxclosed |-> p.rxclosed]
  BY DEF Block
<1>2. q = [state |-> q.state, snd_lbb |-> q.snd_lbb, snd_buf |-> q.snd_buf, unsent |-> q.unsent, unacked |-> q.unacked,
          snd_nxt |-> q.snd_nxt, lastack |-> q.lastack, snd_wnd |-> q.snd_wnd, snd_wl1 |-> q.snd_wl1, snd_wl2 |-> q.snd_wl2,
          cwnd |-> q.cwnd, ssthresh |-> q.ssthresh, dupacks |-> q.dupacks, nrtx |-> q.nrtx, rtime |-> q.rtime,
          rcv_nxt |-> q.rcv_nxt, rcv_wnd |-> q.rcv_wnd, rcv_ann_wnd |-> q.rcv_ann_wnd, edge |-> q.edge, ooseq |-> q.ooseq,
          rxclosed |-> q.rxclosed]
  BY DEF Block
<1> QED
  BY <1>1, <1>2 DEF SameRest

\* Taking the segment that is next moves rcv_nxt behind it and closes the window by as much.
LEMMA TakenIs ==
  ASSUME NEW d, FlowOK(d), NEW p \in Block, p.edge \in Low, p.edge + Mss \in Low,
         NEW b \in Low, NEW x \in Block, NEW t \in Nat,
         SameRest(p, x), x.rcv_nxt = t, x.rcv_wnd = b - t,
         NEW s \in Fragment, Own(s, d), s.seq = t
  PROVE  Taken(x, s) = At(p, Stop(s), b)
<1> DEFINE n == TcpLen(s)
           u == Stop(s)
           w == b - u
           a == Ann(p.edge, u, b)
           y == [x EXCEPT !.rcv_nxt = Add(s.seq, TcpLen(s)), !.rcv_wnd = @ - TcpLen(s)]
           z == Taken(x, s)
           c == At(p, u, b)
<1>1. b \in Nat /\ t \in Nat
  BY SizeFacts DEF Low
<1>2. u \in Low /\ u \in Nat /\ n \in Nat /\ Add(s.seq, TcpLen(s)) = u /\ u = t + n
  <2>1. u \in Low /\ u \in Nat /\ End(s) = u /\ n = s.len + (IF s.fin THEN 1 ELSE 0) /\ s.len \in Nat
    BY FragmentFacts
  <2> QED
    BY <2>1 DEF End, Stop
<1>3. x.rcv_wnd - n = w
  <2> HIDE DEF u, n
  <2> QED
    BY <1>1, <1>2
<1>4. y = [x EXCEPT !.rcv_nxt = u, !.rcv_wnd = w]
  BY <1>2, <1>3
<1>5. w \in Int /\ a \in Int /\ p.edge \in Nat
  <2>1. p.edge \in Nat
    BY DEF Block
  <2> HIDE DEF u
  <2> QED
    BY <1>1, <1>2, <2>1, AnnInt
<1>6. c \in Block /\ c.rcv_nxt = u /\ c.rcv_wnd = w /\ c.rcv_ann_wnd = a /\ SameRest(p, c)
  <2> HIDE DEF u
  <2> QED
    BY <1>1, <1>2, AtBlock, ZenonT(60)
<1>7. z = UpdateAnnWnd(y)
  BY DEF Taken
<1>8. u + w = b
  <2> HIDE DEF u
  <2> QED
    BY <1>1, <1>2
<1> HIDE DEF u, n, w, a, y, z, c
<1>9. y \in Block /\ y.rcv_nxt = u /\ y.rcv_wnd = w /\ SameRest(x, y)
  BY <1>2, <1>4, <1>5 DEF Block, SameRest
<1>10. y.edge = p.edge
  BY <1>9 DEF SameRest
<1>11. z = [y EXCEPT !.rcv_ann_wnd = a]
  BY <1>2, <1>7, <1>8, <1>9, <1>10, UpdateAnnIs DEF a
<1>12. z \in Block /\ z.rcv_nxt = u /\ z.rcv_wnd = w /\ z.rcv_ann_wnd = a /\ SameRest(y, z)
  BY <1>5, <1>9, <1>11 DEF Block, SameRest
<1>13. SameRest(c, z)
  BY <1>6, <1>9, <1>12 DEF SameRest
<1>14. c = z
  BY <1>6, <1>12, <1>13, BlockEqual
<1> QED
  BY <1>14 DEF c, z, u

\* A chain of segments is taken as if it were one.
LEMMA TakenChain ==
  ASSUME NEW d, FlowOK(d), NEW p \in Block, p.rcv_wnd = Wnd, p.edge <= p.rcv_nxt + Wnd,
         p.rcv_nxt = d.first + d.got, NEW all, Chain(all, p.rcv_nxt, d)
  PROVE  TakenAll(p, all) = At(p, Stop(all[Len(all)]), p.rcv_nxt + Wnd)
<1> DEFINE n == Len(all)
           nxt == p.rcv_nxt
           b == nxt + Wnd
           G == [i \in 0 .. n |-> IF i = 0 THEN p ELSE At(p, Stop(all[i]), b)]
<1>1. nxt \in Nat /\ p.edge \in Nat
  BY DEF Block
<1>2. b \in Low /\ p.edge \in Low /\ p.edge + Mss \in Low /\ b \in Nat
  <2> DEFINE e == p.edge
             a == EndOf(d)
  <2>1. nxt <= a /\ a + 2 * Wnd + 1 <= Half /\ a \in Nat
    BY FlowFacts
  <2>2. e \in Nat /\ e <= nxt + Wnd
    BY <1>1
  <2> HIDE DEF a, nxt, e
  <2> QED
    BY <1>1, <2>1, <2>2, SizeFacts DEF Low, e
<1>3. /\ n \in Nat /\ n \in 1 .. n
      /\ \A i \in 1 .. n : /\ all[i] \in Fragment /\ all[i].seq \in Nat /\ Stop(all[i]) \in Nat
                           /\ i > 1 => i - 1 \in 1 .. n /\ all[i].seq = Stop(all[i - 1])
  <2> HIDE DEF n
  <2> QED
    BY <1>1, ChainFacts DEF n
<1>4. all[1].seq = nxt /\ \A i \in 1 .. n : Own(all[i], d)
  BY DEF Chain
<1>5. G = [i \in 0 .. n |-> G[i]] /\ G[0] = p /\ \A i \in 1 .. n : G[i] = At(p, Stop(all[i]), b)
  <2>1. 0 \in 0 .. n /\ \A i \in 1 .. n : i \in 0 .. n /\ i # 0
    BY <1>3
  <2> HIDE DEF n
  <2> QED
    BY <2>1
<1> HIDE DEF G, b
<1>6. ASSUME NEW i \in 1 .. n PROVE G[i] = Taken(G[i - 1], all[i])
  <2> DEFINE x == G[i - 1]
             t == all[i].seq
  <2>1. x \in Block /\ SameRest(p, x) /\ x.rcv_nxt = t /\ x.rcv_wnd = b - t /\ t \in Nat
    <3>1. CASE i = 1
      <4>1. x = p /\ t = nxt
        BY <1>3, <1>4, <1>5, <3>1
      <4>2. b - nxt = Wnd
        BY <1>1, SizeFacts DEF b
      <4> QED
        BY <1>1, <4>1, <4>2 DEF SameRest
    <3>2. CASE i # 1
      <4> DEFINE u == Stop(all[i - 1])
      <4>1. i - 1 \in 1 .. n /\ t = u
        BY <1>3, <3>2
      <4>2. x = At(p, u, b) /\ u \in Nat
        BY <1>3, <1>5, <4>1
      <4> HIDE DEF u, x, t
      <4> QED
        BY <1>2, <4>1, <4>2, AtBlock
    <3> QED
      BY <3>1, <3>2
  <2>2. all[i] \in Fragment /\ Own(all[i], d) /\ all[i].seq = t
    BY <1>3, <1>4
  <2> HIDE DEF x, t
  <2>3. Taken(x, all[i]) = At(p, Stop(all[i]), b)
    BY ONLY <1>2, <2>1, <2>2, FlowOK(d), p \in Block, TakenIs
  <2> QED
    BY <1>5, <2>3 DEF x
<1>7. TakenAll(p, all) = G[n]
  <2> DEFINE h == n
  <2>1. h = Len(all) /\ h \in Nat /\ G = [i \in 0 .. h |-> G[i]] /\ \A i \in 1 .. h : G[i] = Taken(G[i - 1], all[i])
    BY <1>3, <1>5, <1>6
  <2> HIDE DEF h
  <2>2. TakenAll(p, all) = G[Len(all)]
    BY ONLY <1>5, <2>1, TakenAllIs
  <2> QED
    BY <2>2
<1> QED
  BY <1>3, <1>5, <1>7 DEF b

\* The fields that receiving data leaves alone.
SameSend(p, q) ==
  /\ q.snd_lbb = p.snd_lbb /\ q.snd_buf = p.snd_buf /\ q.unsent = p.unsent /\ q.unacked = p.unacked
  /\ q.snd_nxt = p.snd_nxt /\ q.lastack = p.lastack /\ q.snd_wnd = p.snd_wnd /\ q.cwnd = p.cwnd
  /\ q.rtime = p.rtime /\ q.rxclosed = p.rxclosed
  /\ q.snd_wl1 = p.snd_wl1 /\ q.snd_wl2 = p.snd_wl2 /\ q.edge = p.edge

\* The block has taken n bytes, and a FIN if fin, of which the program has not been told.
Got(q, d, n, fin) ==
  /\ q.rcv_nxt = d.first + d.got + n + Bit(fin)
  /\ q.rcv_wnd = Wnd - n - Bit(fin)
  /\ n = 0 => /\ Wnd - Mss <= q.rcv_ann_wnd /\ q.rcv_ann_wnd <= Wnd
              /\ q.edge <= q.rcv_nxt + q.rcv_ann_wnd
  /\ q.edge <= d.first + d.got + Wnd
  /\ OoseqOK(q, d)
  /\ n <= Wnd /\ q.rcv_nxt <= d.sent
  /\ n > 0 \/ fin => d.got + n <= d.written
  /\ fin => d.closed /\ d.got + n = d.written

\* After a chain of segments was taken the block is as Got says.
LEMMA ChainGot ==
  ASSUME NEW d, FlowOK(d), NEW p \in Block, Rcv(p, d),
         NEW all, Chain(all, p.rcv_nxt, d), NEW rem \in Seq(Fragment),
         Fragments(rem, Stop(all[Len(all)]), d),
         NEW q \in Block, q.ooseq = rem, q.edge = p.edge,
         q.rcv_nxt = Stop(all[Len(all)]), q.rcv_wnd = p.rcv_nxt + Wnd - Stop(all[Len(all)]),
         q.rcv_ann_wnd = Ann(p.edge, Stop(all[Len(all)]), p.rcv_nxt + Wnd)
  PROVE  LET z == all[Len(all)]
             n == z.seq + z.len - p.rcv_nxt
         IN  n \in Nat /\ Got(q, d, n, z.fin)
<1> DEFINE z == all[Len(all)]
           nxt == p.rcv_nxt
           n == z.seq + z.len - nxt
           t == Stop(z)
           e == p.edge
           f == IF z.fin THEN 1 ELSE 0
<1>1. nxt \in Nat /\ e \in Nat
  BY DEF Block
<1>2. /\ z \in Fragment /\ z.seq \in Nat /\ z.len \in Nat /\ z.fin \in BOOLEAN
      /\ t \in Nat /\ t = z.seq + z.len + f /\ nxt <= z.seq /\ z.seq < t
  <2>1. Len(all) \in 1 .. Len(all)
    BY <1>1, ChainFacts
  <2> QED
    BY <1>1, <2>1, ChainFacts
<1>3. Own(z, d) /\ t <= d.sent /\ z.seq + z.len <= nxt + Wnd
  <2>1. Len(all) \in 1 .. Len(all)
    BY <1>1, ChainFacts
  <2> QED
    BY <2>1 DEF Chain
<1>4. z.seq + z.len <= d.first + d.written /\ (z.fin => d.closed /\ z.seq + z.len = d.first + d.written)
  BY <1>3 DEF Own
<1>5. /\ nxt = d.first + d.got /\ e <= nxt + Wnd /\ Wnd \in Nat /\ Mss \in Nat
      /\ d.first \in Nat /\ d.got \in Nat /\ d.written \in Nat
  <2>1. nxt = d.first + d.got /\ e <= nxt + p.rcv_ann_wnd /\ p.rcv_ann_wnd <= Wnd /\ p.rcv_ann_wnd \in Int
    BY DEF Rcv, Block
  <2>2. Wnd \in Nat /\ Mss \in Nat /\ d.first \in Nat /\ d.got \in Nat /\ d.written \in Nat
    BY SizeFacts, FlowFacts
  <2> HIDE DEF nxt, e
  <2> QED
    BY <1>1, <2>1, <2>2
<1>6. n \in Nat /\ t = nxt + n + f /\ f \in {0, 1} /\ Bit(z.fin) = f
  <2>1. Bit(z.fin) = f
    BY DEF Bit
  <2> HIDE DEF t, nxt, f
  <2>2. f \in {0, 1}
    BY DEF f
  <2> QED
    BY <1>1, <1>2, <2>1, <2>2, SMTT(30)
<1>7. z.seq + z.len = nxt + n
  <2> HIDE DEF nxt
  <2> QED
    BY <1>1, <1>2
<1>8. q.rcv_nxt = t /\ q.rcv_wnd = nxt + Wnd - t /\ q.rcv_ann_wnd = Ann(e, t, nxt + Wnd) /\ q.edge = e
  OBVIOUS
<1>9. OoseqOK(q, d)
  BY DEF OoseqOK
<1>10. n = 0 => f = 1
  <2> HIDE DEF n, nxt, t, f
  <2>1. n = 0 => z.seq + z.len = z.seq
    BY <1>1, <1>2, <1>7
  <2> QED
    BY <1>1, <1>2, <1>6, <2>1
<1> HIDE DEF n, nxt, t, f, e, z
<1>11. q.rcv_nxt = d.first + d.got + n + f /\ q.rcv_wnd = Wnd - n - f
  BY <1>1, <1>5, <1>6, <1>8
<1>12. n = 0 => /\ Wnd - Mss <= q.rcv_ann_wnd /\ q.rcv_ann_wnd <= Wnd
                /\ q.edge <= q.rcv_nxt + q.rcv_ann_wnd
  <2> SUFFICES ASSUME n = 0
               PROVE  /\ Wnd - Mss <= q.rcv_ann_wnd /\ q.rcv_ann_wnd <= Wnd
                      /\ q.edge <= q.rcv_nxt + q.rcv_ann_wnd
    OBVIOUS
  <2>1. t = nxt + 1 /\ Mss >= 1 /\ 2 * Mss <= Wnd
    BY <1>1, <1>6, <1>10, SizeFacts
  <2>2. CASE e + Mss <= nxt + Wnd
    <3>1. q.rcv_ann_wnd = nxt + Wnd - t
      BY ONLY <1>1, <1>2, <1>5, <1>8, <2>2 DEF Ann
    <3>2. q.rcv_ann_wnd = Wnd - 1 /\ q.rcv_nxt = nxt + 1 /\ q.edge = e
      BY ONLY <1>1, <1>2, <1>5, <1>8, <2>1, <3>1
    <3> DEFINE a == q.rcv_ann_wnd
               y == q.rcv_nxt
               k == q.edge
    <3>3. a = Wnd - 1 /\ y = nxt + 1 /\ k = e
      BY <3>2
    <3> HIDE DEF a, y, k
    <3>4. Wnd - Mss <= a /\ a <= Wnd /\ k <= y + a
      BY ONLY <1>1, <1>5, <2>1, <2>2, <3>3
    <3> QED
      BY ONLY <3>4 DEF a, y, k
  <2>3. CASE ~(e + Mss <= nxt + Wnd)
    <3>1. ~(e < t)
      BY ONLY <1>1, <1>5, <2>1, <2>3
    <3>2. q.rcv_ann_wnd = e - t
      BY ONLY <1>1, <1>2, <1>5, <1>8, <2>3, <3>1 DEF Ann
    <3>3. q.rcv_ann_wnd = e - (nxt + 1) /\ q.rcv_nxt = nxt + 1 /\ q.edge = e
      BY <1>1, <1>2, <1>5, <1>8, <2>1, <3>2
    <3> DEFINE a == q.rcv_ann_wnd
               y == q.rcv_nxt
               k == q.edge
    <3>4. a = e - (nxt + 1) /\ y = nxt + 1 /\ k = e
      BY <3>3
    <3> HIDE DEF a, y, k
    <3>5. /\ e \in Nat /\ nxt \in Nat /\ e <= nxt + Wnd /\ Wnd \in Nat /\ Mss \in Nat /\ Mss >= 1
          /\ ~(e + Mss <= nxt + Wnd)
      BY <1>1, <1>5, <2>1, <2>3
    <3>6. Wnd - Mss <= a /\ a <= Wnd /\ k <= y + a
      BY ONLY <3>4, <3>5
    <3> QED
      BY <3>6 DEF a, y, k
  <2> QED
    BY <2>2, <2>3
<1>13. n <= Wnd /\ d.got + n <= d.written /\ (z.fin => d.closed /\ d.got + n = d.written)
  <2> DEFINE x == d.first
             g == d.got
             l == d.written
             c == z.fin
  <2>1. /\ nxt + n <= nxt + Wnd /\ nxt + n <= x + l /\ (c => nxt + n = x + l)
        /\ nxt = x + g /\ nxt \in Nat /\ n \in Nat /\ x \in Nat /\ g \in Nat /\ l \in Nat /\ Wnd \in Nat
    BY <1>1, <1>3, <1>4, <1>5, <1>6, <1>7
  <2> HIDE DEF x, g, l, c
  <2>2. n <= Wnd /\ g + n <= l
    BY ONLY <2>1
  <2>3. c => g + n = l
    BY ONLY <2>1
  <2> QED
    BY <1>4, <2>2, <2>3 DEF g, l, c
<1>14. n \in Nat /\ Bit(z.fin) = f /\ q.rcv_nxt <= d.sent
  BY <1>3, <1>6, <1>8
<1>15. q.edge <= d.first + d.got + Wnd
  BY <1>5, <1>8
<1>16. Got(q, d, n, z.fin)
  BY <1>9, <1>11, <1>12, <1>13, <1>14, <1>15 DEF Got
<1> QED
  BY <1>14, <1>16 DEF n, nxt, z

\* What tcp_receive has done with a segment: the block v.p has taken v.data and, if v.fin,
\* the FIN; the rest is as it was.
Accepted(w, v, d) ==
  /\ Got(v.p, d, Len(v.data), v.fin) /\ Counts(v.data, Len(v.data), d.got)
  /\ v.p.state = w.p.state \/ (v.fin /\ v.p.state = "CLOSE_WAIT" /\ w.p.state = "ESTABLISHED")

\* tcp_receive with the segment that is next: the data and the FIN are passed up in order, once.
LEMMA InOrderKeeps ==
  ASSUME NEW d, FlowOK(d), NEW w \in WorkSet, Rcv(w.p, d), NEW s, InTurn(s, w.p.ooseq, w.p.rcv_nxt, d)
  PROVE  LET v == InOrder(w, s)
         IN  v \in WorkSet /\ Accepted(w, v, d) /\ SameSend(w.p, v.p) /\ v.out = w.out
<1> DEFINE p == w.p
           nxt == p.rcv_nxt
           j == Join(p, s)
           dr == InSequence(j.ooseq, End(j.seg))
           all == <<j.seg>> \o dr
           rem == SubSeq(j.ooseq, Len(dr) + 1, Len(j.ooseq))
           late == \E i \in 1 .. Len(dr) : dr[i].fin
           z == all[Len(all)]
           t == Stop(z)
           n == z.seq + z.len - nxt
           k == TakenAll(p, all)
           state == IF late /\ k.state = "ESTABLISHED" THEN "CLOSE_WAIT" ELSE k.state
           q == [k EXCEPT !.ooseq = rem, !.state = state]
           data == FlattenSeq([i \in 1 .. Len(all) |-> Bytes(all[i])])
           fin == j.seg.fin \/ late
           v == InOrder(w, s)
<1>1. p \in Block /\ Rcv(p, d) /\ InTurn(s, p.ooseq, nxt, d) /\ nxt \in Nat
  BY DEF WorkSet, Block
<1>2. /\ nxt = d.first + d.got /\ p.rcv_wnd = Wnd /\ p.edge <= nxt + Wnd
  <2> DEFINE a == p.rcv_ann_wnd
             e == p.edge
  <2>1. nxt = d.first + d.got /\ p.rcv_wnd = Wnd /\ e <= nxt + a /\ a <= Wnd /\ a \in Int /\ e \in Nat
    BY <1>1 DEF Rcv, Block
  <2> HIDE DEF a, e, nxt
  <2>2. e <= nxt + Wnd
    BY ONLY <1>1, <2>1, SizeFacts
  <2> QED
    BY <2>1, <2>2 DEF e
<1>3. TrimmedToWindow(p, s) = s
  <2>1. s \in Fragment /\ Own(s, d)
    BY <1>1 DEF InTurn
  <2> QED
    BY <1>1, <1>2, <2>1, NotTrimmed
<1>4. v = [w EXCEPT !.p = q, !.data = data, !.fin = fin, !.now = TRUE]
  BY <1>3 DEF InOrder
<1> HIDE DEF p, v
<1>5. /\ InTurn(j.seg, j.ooseq, nxt, d)
      /\ \A i \in 1 .. Len(j.ooseq) : Stop(j.seg) <= j.ooseq[i].seq
      /\ j.seg.fin => j.ooseq = <<>>
  BY <1>1, JoinKeeps
<1>6. /\ Chain(all, nxt, d)
      /\ rem \in Seq(Fragment) /\ Fragments(rem, t, d)
      /\ fin <=> z.fin
  <2> DEFINE a == j.seg
             c == j.ooseq
  <2>1. InTurn(a, c, nxt, d) /\ (\A i \in 1 .. Len(c) : Stop(a) <= c[i].seq) /\ (a.fin => c = <<>>)
    BY <1>5
  <2> HIDE DEF a, c, nxt
  <2>2. LET x == InSequence(c, End(a))
            y == <<a>> \o x
            r == SubSeq(c, Len(x) + 1, Len(c))
            l == \E i \in 1 .. Len(x) : x[i].fin
        IN  /\ Chain(y, nxt, d)
            /\ r \in Seq(Fragment) /\ Fragments(r, Stop(y[Len(y)]), d)
            /\ a.fin \/ l <=> y[Len(y)].fin
    BY ONLY <1>1, <2>1, FlowOK(d), DrainIs
  <2> QED
    BY <2>2 DEF a, c
<1>7. fin \in BOOLEAN /\ z.fin \in BOOLEAN
  <2>1. j.seg.fin \in BOOLEAN
    BY <1>5 DEF InTurn, Fragment
  <2> HIDE DEF all
  <2>2. Len(all) \in 1 .. Len(all)
    BY <1>1, <1>6, ChainFacts
  <2>3. z.fin \in BOOLEAN
    BY <1>1, <1>6, <2>2, ChainFacts
  <2> QED
    BY <2>1, <2>3
<1>8. t \in Nat
  <2> HIDE DEF all
  <2>2. Len(all) \in 1 .. Len(all)
    BY <1>1, <1>6, ChainFacts
  <2> QED
    BY <1>1, <1>6, <2>2, ChainFacts
<1> HIDE DEF all, rem
<1>9. k = At(p, t, nxt + Wnd)
  BY <1>1, <1>2, <1>6, TakenChain
<1>10. data = [i \in 1 .. n |-> d.got + i]
  BY <1>1, <1>2, <1>6, ChainBytes, ZenonT(60)
<1> HIDE DEF fin, data, k, z
<1>11. /\ k \in Block /\ k.rcv_nxt = t /\ k.rcv_wnd = nxt + Wnd - t /\ k.rcv_ann_wnd = Ann(p.edge, t, nxt + Wnd)
       /\ SameRest(p, k)
  <2>1. nxt + Wnd \in Nat
    BY <1>1, SizeFacts
  <2> DEFINE b == nxt + Wnd
  <2> HIDE DEF b, t
  <2>2. b \in Nat
    BY <2>1 DEF b
  <2>3. k = At(p, t, b) /\ t \in Nat
    BY <1>8, <1>9 DEF b
  <2>4. /\ k \in Block /\ k.rcv_nxt = t /\ k.rcv_wnd = b - t /\ k.rcv_ann_wnd = Ann(p.edge, t, b)
        /\ SameRest(p, k)
    BY ONLY <1>1, <2>2, <2>3, AtBlock
  <2>5. b - t = nxt + Wnd - t
    BY ONLY <1>1, <1>8, SizeFacts DEF b
  <2> QED
    BY <2>4, <2>5 DEF b
<1> HIDE DEF t
<1>12. state \in States
  BY <1>1, <1>11 DEF Block, States
<1>13. q \in Block
  BY <1>6, <1>11, <1>12 DEF Block
<1>14. /\ q.rcv_nxt = t /\ q.rcv_wnd = nxt + Wnd - t /\ q.rcv_ann_wnd = Ann(p.edge, t, nxt + Wnd)
       /\ q.ooseq = rem /\ q.state = state
       /\ q.snd_lbb = k.snd_lbb /\ q.snd_buf = k.snd_buf /\ q.unsent = k.unsent /\ q.unacked = k.unacked
       /\ q.snd_nxt = k.snd_nxt /\ q.lastack = k.lastack /\ q.snd_wnd = k.snd_wnd /\ q.cwnd = k.cwnd
       /\ q.rtime = k.rtime /\ q.rxclosed = k.rxclosed
       /\ q.snd_wl1 = k.snd_wl1 /\ q.snd_wl2 = k.snd_wl2 /\ q.edge = k.edge
  BY <1>11 DEF Block
<1> HIDE DEF q, state
<1>15. SameSend(p, q)
  BY <1>11, <1>14 DEF SameSend, SameRest
<1>16. n \in Nat /\ Got(q, d, n, z.fin)
  <2>1. q.edge = p.edge
    BY <1>15 DEF SameSend
  <2> QED
    BY <1>1, <1>6, <1>13, <1>14, <2>1, ChainGot DEF t, z
<1> HIDE DEF n
<1>17. Counts(data, n, d.got)
  BY <1>10, <1>16, CountsIs, FlowFacts
<1>18. Len(data) = n /\ data \in Seq(Nat)
  BY <1>17 DEF Counts
<1>19. state = p.state \/ (fin /\ state = "CLOSE_WAIT" /\ p.state = "ESTABLISHED")
  <2>1. k.state = p.state
    BY <1>11 DEF SameRest
  <2> QED
    BY <2>1 DEF state, fin
<1>20. v \in WorkSet /\ v.p = q /\ v.data = data /\ v.fin = fin /\ v.out = w.out
  BY <1>4, <1>7, <1>13, <1>18 DEF WorkSet
<1>21. fin = z.fin
  BY <1>6, <1>7
<1> QED
  BY <1>14, <1>15, <1>16, <1>17, <1>18, <1>19, <1>20, <1>21 DEF Accepted, v, p

-----------------------------------------------------------------------------
(* tcp_receive, and the segment as a whole *)

\* The sending side is the same when its fields are.
LEMMA SndSame ==
  ASSUME NEW r, NEW p, NEW q, Snd(p, r), SameSend(p, q), q.state = "TIME_WAIT" <=> p.state = "TIME_WAIT"
  PROVE  Snd(q, r)
<1>1. QueuesOK(p, r) => QueuesOK(q, r)
  BY DEF SameSend, QueuesOK
<1> QED
  BY <1>1 DEF Snd, SameSend

\* A block that has taken nothing.
LEMMA RcvGot ==
  ASSUME NEW d, FlowOK(d), NEW p \in Block
  PROVE  Rcv(p, d) => Got(p, d, 0, FALSE)
<1> SUFFICES ASSUME Rcv(p, d) PROVE Got(p, d, 0, FALSE)
  OBVIOUS
<1> DEFINE x == d.first
           g == d.got
           nxt == p.rcv_nxt
           a == p.rcv_ann_wnd
           e == p.edge
           c == p.rcv_wnd
           s == d.sent
<1>1. /\ nxt = x + g /\ c = Wnd /\ Wnd - Mss <= a /\ a <= Wnd /\ e <= nxt + a /\ OoseqOK(p, d)
  BY DEF Rcv
<1>2. x \in Nat /\ g \in Nat /\ nxt \in Nat /\ a \in Int /\ e \in Nat /\ Wnd \in Nat /\ x + g <= s
  BY FlowFacts, SizeFacts DEF Block
<1>3. Bit(FALSE) = 0
  BY DEF Bit
<1> HIDE DEF x, g, nxt, a, e, c, s
<1>4. nxt = x + g + 0 + 0 /\ c = Wnd - 0 - 0 /\ e <= x + g + Wnd /\ nxt <= s /\ 0 <= Wnd
  BY ONLY <1>1, <1>2
<1>5. /\ p.rcv_nxt = d.first + d.got + 0 + Bit(FALSE) /\ p.rcv_wnd = Wnd - 0 - Bit(FALSE)
      /\ p.edge <= d.first + d.got + Wnd /\ p.rcv_nxt <= d.sent /\ 0 <= Wnd
      /\ Wnd - Mss <= p.rcv_ann_wnd /\ p.rcv_ann_wnd <= Wnd /\ p.edge <= p.rcv_nxt + p.rcv_ann_wnd
  <2>1. /\ nxt = x + g + 0 + Bit(FALSE) /\ c = Wnd - 0 - Bit(FALSE)
    BY <1>3, <1>4
  <2> QED
    BY <1>1, <1>4, <2>1 DEF x, g, nxt, a, e, c, s
<1>6. OoseqOK(p, d)
  BY <1>1
<1>7. ~(0 > 0 \/ FALSE)
  OBVIOUS
<1> QED
  BY ONLY <1>5, <1>6, <1>7 DEF Got

\* tcp_receive, second part: a segment with data or a FIN.
LEMMA DataKeeps ==
  ASSUME NEW d, FlowOK(d), NEW r, FlowOK(r), NEW w \in WorkSet, Rcv(w.p, d), Snd(w.p, r),
         FramesOK(w, r, d), w.data = <<>>, w.fin = FALSE, w.p.state # "TIME_WAIT",
         NEW m \in Frame, ~m.rst, FrameOK(m, d, r), TcpLen(m) > 0, NEW memory
  PROVE  LET v == DataIn(w, m, memory)
         IN  /\ v \in WorkSet /\ Accepted(w, v, d) /\ Snd(v.p, r) /\ FramesOK(v, r, d)
             /\ v.p.rxclosed = w.p.rxclosed /\ v.p.lastack = w.p.lastack
             /\ v.p.snd_wl1 = w.p.snd_wl1 /\ v.p.snd_wl2 = w.p.snd_wl2 /\ w.p.edge <= v.p.edge
<1> DEFINE p == w.p
           nxt == p.rcv_nxt
           b == nxt + Wnd
           s == FirstEdgeTrimmed(p, Piece(m))
           v == DataIn(w, m, memory)
           a == SendEmptyAck(w)
           q == Queued(p, s)
           c == [a EXCEPT !.p.ooseq = q]
<1>1. p \in Block /\ Rcv(p, d) /\ Snd(p, r) /\ p.ooseq \in Seq(Fragment) /\ nxt \in Nat /\ p.edge \in Nat
  BY DEF WorkSet, Block
<1>2. nxt = d.first + d.got /\ p.rcv_wnd = Wnd /\ OoseqOK(p, d) /\ Fragments(p.ooseq, nxt, d)
  BY <1>1 DEF Rcv, OoseqOK
<1>3. nxt \in Low /\ b \in Low
  <2> DEFINE z == EndOf(d)
  <2>1. nxt <= z /\ z + 2 * Wnd + 1 <= Half /\ z \in Nat /\ nxt \in Nat
    BY <1>1, <1>2, FlowFacts
  <2> HIDE DEF z, nxt
  <2> QED
    BY ONLY <2>1, SizeFacts DEF Low
<1>4. Own(m, d) /\ Stop(m) <= d.sent /\ (m.len > 0 => m.seq + m.len <= d.limit)
  BY DEF FrameOK
<1> HIDE DEF p
<1>5. /\ s \in Fragment /\ Own(s, d) /\ s.held = s.len /\ s.fin = m.fin
      /\ s.seq + s.len = m.seq + m.len /\ Stop(s) = Stop(m)
      /\ s.seq = nxt \/ s.seq = m.seq
  BY <1>1, <1>3, <1>4, FirstEdgeKeeps
<1> HIDE DEF s
<1>6. /\ s.seq \in Nat /\ s.seq \in Low /\ s.len \in Nat
      /\ s.seq < Stop(s) /\ Stop(s) = s.seq + s.len + (IF s.fin THEN 1 ELSE 0)
  BY <1>5, FragmentFacts
<1>7. InWindow(p, s.seq) <=> nxt <= s.seq /\ s.seq < b
  BY <1>1, <1>2, <1>3, <1>6, InWindowIs
<1>8. s.seq < b => s.seq + s.len <= b
  <2> SUFFICES ASSUME s.seq < b PROVE s.seq + s.len <= b
    OBVIOUS
  <2>1. m.len \in Nat /\ m.seq \in Nat
    BY DEF Frame
  <2>2. CASE m.len > 0
    <3> DEFINE x == s.seq + s.len
               l == d.limit
    <3>1. x <= l /\ l <= d.first + d.got + Wnd
      BY <1>4, <1>5, <2>2, FlowFacts
    <3>2. x \in Nat /\ l \in Nat /\ l <= b /\ b \in Nat
      <4>1. x \in Nat /\ l \in Nat /\ b \in Nat
        <5>1. x \in Nat
          BY <1>6
        <5>2. l \in Nat
          BY FlowFacts
        <5>3. b \in Nat
          BY <1>1, SizeFacts
        <5> QED
          BY <5>1, <5>2, <5>3
      <4>2. l <= b
        <5>1. d.first + d.got + Wnd = b
          BY <1>2
        <5> QED
          BY <3>1, <5>1
      <4> QED
        BY <4>1, <4>2
    <3> HIDE DEF x, l, b
    <3>3. x <= l
      BY <3>1
    <3>4. x <= b
      BY ONLY <3>2, <3>3
    <3> QED
      BY <3>4 DEF x
  <2>3. CASE m.len = 0
    <3> DEFINE x == s.seq
               y == s.len
               z == m.seq
    <3>1. x + y = z /\ (x = nxt \/ x = z) /\ x \in Nat /\ y \in Nat /\ z \in Nat /\ nxt \in Nat /\ b \in Nat /\ x < b
      BY <1>1, <1>3, <1>5, <1>6, <2>1, <2>3, SizeFacts DEF Low
    <3>2. Own(m, d) /\ m.fin
      BY <1>4, <2>3 DEF TcpLen
    <3>3. z = d.first + d.written
      BY <2>1, <2>3, <3>2 DEF Own
    <3>4. s.len <= Mss
      BY <1>5 DEF Own
    <3>5. y <= Mss /\ b = nxt + Wnd
      BY <3>4
    <3> HIDE DEF x, y, z, b, nxt
    <3>6. CASE x = z
      <4>1. x + y <= b
        BY ONLY <3>1, <3>6
      <4> QED
        BY <4>1 DEF x, y
    <3>7. CASE x = nxt
      <4>1. x + y <= b
        BY ONLY <3>1, <3>5, <3>7, SizeFacts
      <4> QED
        BY <4>1 DEF x, y
    <3> QED
      BY <3>1, <3>6, <3>7
  <2> QED
    BY <2>1, <2>2, <2>3
<1>9. Got(p, d, 0, FALSE)
  BY <1>1, RcvGot
<1>10. /\ a \in WorkSet /\ FramesOK(a, r, d) /\ Rcv(a.p, d) /\ Kept(w, a)
       /\ a.p = [p EXCEPT !.edge = a.p.edge] /\ Snd(a.p, r)
  <2>1. p.snd_nxt = r.sent
    BY <1>1 DEF Snd
  <2>2. LET x == SendEmptyAck(w)
        IN  /\ x \in WorkSet /\ FramesOK(x, r, d) /\ Rcv(x.p, d) /\ Kept(w, x)
            /\ x.p = [w.p EXCEPT !.edge = x.p.edge]
            /\ Snd(w.p, r) => Snd(x.p, r)
    BY <1>1, <2>1, EmptyAckKeeps DEF p
  <2> QED
    BY <1>1, <2>2 DEF p
<1> HIDE DEF a
<1>11. a.data = <<>> /\ a.fin = FALSE /\ a.p.state = p.state /\ a.p \in Block
  BY <1>10 DEF Kept, p, WorkSet
<1>12. Counts(<<>>, 0, d.got) /\ Len(<<>>) = 0
  BY DEF Counts
<1>13. CASE ~InWindow(p, s.seq)
  <2>1. v = a
    BY <1>13 DEF DataIn, p, s, a
  <2>2. Got(a.p, d, 0, FALSE)
    BY <1>10, <1>11, RcvGot
  <2> HIDE DEF v
  <2>3. Accepted(w, a, d)
    BY <1>11, <1>12, <2>2 DEF Accepted, p
  <2> QED
    BY <1>10, <2>1, <2>3 DEF Kept, p, v
<1>14. CASE InWindow(p, s.seq) /\ s.seq = nxt
  <2>1. v = InOrder(w, s)
    BY <1>14 DEF DataIn, p, s
  <2>2. InTurn(s, p.ooseq, nxt, d)
    BY <1>1, <1>2, <1>4, <1>5, <1>7, <1>8, <1>14 DEF InTurn
  <2>3. v \in WorkSet /\ Accepted(w, v, d) /\ SameSend(p, v.p) /\ v.out = w.out
    BY <1>1, <2>1, <2>2, InOrderKeeps DEF p
  <2> HIDE DEF v
  <2>4. v.p.state # "TIME_WAIT"
    BY <2>3 DEF Accepted, p
  <2>5. Snd(v.p, r)
    BY <1>1, <2>3, <2>4, SndSame DEF p
  <2>6. v.p.edge = p.edge
    BY <2>3 DEF SameSend
  <2>7. FramesOK(v, r, d)
    BY <2>3, <2>6 DEF FramesOK, p
  <2> QED
    BY <1>1, <2>3, <2>5, <2>6, <2>7 DEF SameSend, p, v
<1>15. CASE InWindow(p, s.seq) /\ s.seq # nxt
  <2>1. v = IF memory THEN c ELSE a
    BY <1>15 DEF DataIn, p, s, a
  <2>2. nxt < s.seq /\ s.seq < b
    BY <1>1, <1>6, <1>7, <1>15
  <2>3. Fits(s, nxt, d)
    BY <1>4, <1>5, <1>8, <2>2 DEF Fits
  <2>4. q \in Seq(Fragment) /\ Fragments(q, nxt, d)
    BY <1>1, <1>2, <1>3, <1>5, <2>2, <2>3, QueuedKeeps
  <2> HIDE DEF q
  <2> DEFINE cp == [a.p EXCEPT !.ooseq = q]
  <2>5. c = [a EXCEPT !.p = cp] /\ cp \in Block
    BY <1>10, <1>11, <2>4 DEF WorkSet, Block
  <2>6. /\ cp.ooseq = q /\ cp.rcv_nxt = a.p.rcv_nxt /\ cp.rcv_wnd = a.p.rcv_wnd /\ cp.rcv_ann_wnd = a.p.rcv_ann_wnd
        /\ cp.state = a.p.state /\ SameSend(a.p, cp)
    BY <1>11 DEF Block, SameSend
  <2> HIDE DEF cp, c, v
  <2>7. c \in WorkSet /\ c.p = cp /\ c.data = a.data /\ c.fin = a.fin /\ c.out = a.out
    BY <1>10, <2>5 DEF WorkSet
  <2>8. Rcv(cp, d)
    <3>1. a.p.rcv_nxt = nxt
      BY <1>10 DEF Kept, p
    <3>2. cp.edge = a.p.edge
      BY <2>6 DEF SameSend
    <3>3. Fragments(cp.ooseq, cp.rcv_nxt, d)
      BY <2>4, <2>6, <3>1
    <3> HIDE DEF nxt
    <3> QED
      BY <1>10, <2>6, <3>2, <3>3 DEF Rcv, OoseqOK
  <2>9. Snd(cp, r)
    BY <1>10, <2>6, SndSame
  <2>10. FramesOK(c, r, d)
    BY <1>10, <2>6, <2>7 DEF FramesOK, SameSend
  <2>11. Accepted(w, c, d)
    <3>1. Got(cp, d, 0, FALSE)
      BY <2>5, <2>8, RcvGot
    <3> QED
      BY <1>11, <1>12, <2>6, <2>7, <3>1 DEF Accepted, p
  <2>12. Accepted(w, a, d)
    <3>1. Got(a.p, d, 0, FALSE)
      BY <1>10, <1>11, RcvGot
    <3> QED
      BY <1>11, <1>12, <3>1 DEF Accepted, p
  <2> QED
    BY <1>10, <2>1, <2>6, <2>7, <2>9, <2>10, <2>11, <2>12 DEF Kept, SameSend, p, v
<1> QED
  BY <1>13, <1>14, <1>15

\* The block at some point of a call that answers a frame: h says whether the program had
\* been told of the end of the peer's stream.
Handling(p, v, d, r, c, h) ==
  /\ v \in WorkSet /\ FramesOK(v, r, d)
  /\ Got(v.p, d, Len(v.data), v.fin) /\ Counts(v.data, Len(v.data), d.got)
  /\ v.p.rxclosed = p.rxclosed /\ p.edge <= v.p.edge
  /\ Quiet(p, r, d) /\ d.sent = d.first => Quiet(v.p, r, d)
  /\ v.data # <<>> \/ v.fin => ~h
  /\ Snd(v.p, r)

\* Nothing is done yet when a call begins.
LEMMA WorkIs ==
  ASSUME NEW p \in Block, NEW d, NEW r
  PROVE  /\ Work(p) \in WorkSet /\ Work(p).p = p /\ Work(p).data = <<>> /\ Work(p).fin = FALSE
         /\ Work(p).out = {} /\ FramesOK(Work(p), r, d)
BY FramesIs DEF Work, WorkSet, FramesOK

\* tcp_receive as a whole: acknowledgement, data and FIN of a right frame.
LEMMA ReceiveKeeps ==
  ASSUME NEW d, FlowOK(d), NEW r, FlowOK(r), NEW p \in Block, Rcv(p, d), Snd(p, r),
         NEW c \in BOOLEAN, NEW h \in BOOLEAN, StateOK(p, c, h), p.state # "TIME_WAIT",
         NEW m \in Frame, ~m.rst, FrameOK(m, d, r), EdgeKnown(p, r, d, m), NEW memory
  PROVE  LET v == Receive(Work(p), m, memory)
         IN  /\ Handling(p, v, d, r, c, h)
             /\ v.p.state = p.state \/ (v.fin /\ v.p.state = "CLOSE_WAIT" /\ p.state = "ESTABLISHED")
<1> DEFINE w == Work(p)
           u == AckIn(w, m)
           a == [u EXCEPT !.now = @ \/ ~InWindow(u.p, m.seq)]
           b == DataIn(u, m, memory)
           v == Receive(w, m, memory)
           data == TcpLen(m) > 0 /\ u.p.state \in Receiving
<1>1. /\ w \in WorkSet /\ w.p = p /\ w.data = <<>> /\ w.fin = FALSE
      /\ w.out = {} /\ FramesOK(w, r, d)
  BY WorkIs
<1>2. v = IF data THEN b ELSE a
  BY DEF Receive
<1> HIDE DEF w, v
<1>3. /\ u \in WorkSet /\ Snd(u.p, r) /\ Rcv(u.p, d) /\ FramesOK(u, r, d)
      /\ u.data = <<>> /\ u.fin = FALSE /\ u.p.state = p.state /\ u.p.rxclosed = p.rxclosed
      /\ p.edge <= u.p.edge
      /\ Quiet(p, r, d) /\ d.sent = d.first => Quiet(u.p, r, d)
  BY <1>1, AckKeeps
<1>4. p.edge \in Nat /\ u.p \in Block /\ u.p.edge \in Nat
  BY <1>3 DEF WorkSet, Block
<1> HIDE DEF u
<1>5. Counts(<<>>, 0, d.got) /\ Len(<<>>) = 0
  BY DEF Counts
<1>6. CASE ~data
  <2>1. v = a
    BY <1>2, <1>6
  <2> DEFINE now == u.now \/ ~InWindow(u.p, m.seq)
  <2>2. now \in BOOLEAN
    BY <1>3 DEF WorkSet
  <2>3. a \in WorkSet /\ a.p = u.p /\ a.data = u.data /\ a.fin = u.fin /\ a.out = u.out
    <3>1. a = [u EXCEPT !.now = now]
      OBVIOUS
    <3> HIDE DEF now, a
    <3> QED
      BY <1>3, <2>2, <3>1 DEF WorkSet
  <2> HIDE DEF a
  <2>4. Got(u.p, d, 0, FALSE)
    BY <1>3, <1>4, RcvGot
  <2>5. FramesOK(a, r, d)
    BY <1>3, <2>3 DEF FramesOK
  <2> QED
    BY <1>3, <1>5, <2>1, <2>3, <2>4, <2>5 DEF Handling, v, w
<1>7. CASE data
  <2>1. v = b
    BY <1>2, <1>7
  <2>2. p.state \in Receiving /\ TcpLen(m) > 0
    BY <1>3, <1>7
  <2>3. ~h
    BY <2>2 DEF StateOK, Phase, Receiving
  <2>4. u.p.state # "TIME_WAIT"
    BY <1>3
  <2>5. /\ b \in WorkSet /\ Accepted(u, b, d) /\ Snd(b.p, r) /\ FramesOK(b, r, d)
        /\ b.p.rxclosed = u.p.rxclosed /\ b.p.lastack = u.p.lastack
        /\ b.p.snd_wl1 = u.p.snd_wl1 /\ b.p.snd_wl2 = u.p.snd_wl2 /\ u.p.edge <= b.p.edge
    BY <1>3, <2>2, <2>4, DataKeeps
  <2>6. Quiet(u.p, r, d) => Quiet(b.p, r, d)
    BY <2>5 DEF Quiet
  <2>7. p.edge <= b.p.edge
    <3> DEFINE x == p.edge
               y == u.p.edge
               z == b.p.edge
    <3>1. x \in Nat /\ y \in Nat /\ z \in Nat /\ x <= y /\ y <= z
      BY <1>3, <1>4, <2>5 DEF WorkSet, Block
    <3> HIDE DEF x, y, z
    <3>2. x <= z
      BY ONLY <3>1
    <3> QED
      BY <3>2 DEF x, z
  <2> HIDE DEF b
  <2> QED
    BY <1>3, <2>1, <2>3, <2>5, <2>6, <2>7 DEF Handling, Accepted, v, w
<1> QED
  BY <1>6, <1>7

\* tcp_process: the state changes, and in TIME_WAIT the queues are emptied.
LEMMA ProcessKeeps ==
  ASSUME NEW d, FlowOK(d), NEW r, FlowOK(r), NEW p \in Block, Rcv(p, d), Snd(p, r),
         NEW c \in BOOLEAN, NEW h \in BOOLEAN, StateOK(p, c, h), p.state # "TIME_WAIT",
         NEW m \in Frame, ~m.rst, FrameOK(m, d, r), EdgeKnown(p, r, d, m), NEW memory
  PROVE  LET v == Process(Work(p), m, memory)
         IN  /\ Handling(p, v, d, r, c, h)
             /\ v.p.state = "CLOSED" => v.data = <<>> /\ v.fin = FALSE
             /\ v.p.state # "CLOSED" => Phase(v.p, c, h \/ v.fin)
<1> DEFINE u == Receive(Work(p), m, memory)
           s == NextState(u.p.state, u.fin, m.ack = u.p.snd_nxt)
           k == Purged(u.p)
           q == [IF s = "TIME_WAIT" THEN k ELSE u.p EXCEPT !.state = s]
           now == u.now \/ u.fin
           v == Process(Work(p), m, memory)
<1>1. v = [u EXCEPT !.p = q, !.now = now]
  BY DEF Process, Moved, Entered
<1>2. /\ Handling(p, u, d, r, c, h)
      /\ u.p.state = p.state \/ (u.fin /\ u.p.state = "CLOSE_WAIT" /\ p.state = "ESTABLISHED")
  BY ReceiveKeeps
<1> HIDE DEF u, v
<1>3. /\ u \in WorkSet /\ FramesOK(u, r, d)
      /\ Got(u.p, d, Len(u.data), u.fin) /\ Counts(u.data, Len(u.data), d.got)
      /\ u.p.rxclosed = p.rxclosed /\ p.edge <= u.p.edge
      /\ Quiet(p, r, d) /\ d.sent = d.first => Quiet(u.p, r, d)
      /\ u.data # <<>> \/ u.fin => ~h
      /\ Snd(u.p, r)
  BY <1>2 DEF Handling
<1>4. u.p \in Block /\ u.fin \in BOOLEAN /\ now \in BOOLEAN /\ u.p.state \in States
  BY <1>3 DEF WorkSet, Block
<1>5. s \in States /\ u.p.state # "TIME_WAIT"
  BY <1>2, <1>4 DEF NextState, States
<1>6. s = "CLOSED" => u.data = <<>> /\ u.fin = FALSE
  <2> SUFFICES ASSUME s = "CLOSED" PROVE u.data = <<>> /\ u.fin = FALSE
    OBVIOUS
  <2>1. u.p.state = "LAST_ACK"
    BY <1>2 DEF NextState, StateOK, Phase
  <2>2. h
    BY <1>2, <2>1 DEF StateOK, Phase
  <2> QED
    BY <1>3, <1>4, <2>2
<1>7. s # "CLOSED" => /\ s \in {"ESTABLISHED", "CLOSE_WAIT"} <=> ~c
                      /\ s \in {"ESTABLISHED", "FIN_WAIT_1", "FIN_WAIT_2"} <=> ~(h \/ u.fin)
  <2>1. u.fin => ~h
    BY <1>3
  <2> DEFINE a == m.ack = u.p.snd_nxt
  <2> HIDE DEF a
  <2>2. s = NextState(u.p.state, u.fin, a)
    BY DEF a
  <2> QED
    BY <1>2, <1>4, <2>1, <2>2 DEF StateOK, Phase, NextState, States
<1>8. c => p.rxclosed
  BY DEF StateOK, Phase
<1> HIDE DEF s, now
<1>9. /\ k \in Block /\ k.state = u.p.state /\ k.unsent = <<>> /\ k.unacked = <<>> /\ k.ooseq = <<>> /\ k.rtime = FALSE
      /\ k.snd_lbb = u.p.snd_lbb /\ k.snd_buf = u.p.snd_buf /\ k.snd_nxt = u.p.snd_nxt
      /\ k.lastack = u.p.lastack /\ k.snd_wnd = u.p.snd_wnd /\ k.cwnd = u.p.cwnd /\ k.rxclosed = u.p.rxclosed
      /\ k.snd_wl1 = u.p.snd_wl1 /\ k.snd_wl2 = u.p.snd_wl2 /\ k.edge = u.p.edge
      /\ k.rcv_nxt = u.p.rcv_nxt /\ k.rcv_wnd = u.p.rcv_wnd /\ k.rcv_ann_wnd = u.p.rcv_ann_wnd
  <2>1. <<>> \in Seq(Segment) /\ <<>> \in Seq(Fragment)
    OBVIOUS
  <2> QED
    BY <1>4, <2>1 DEF Purged, Block
<1> HIDE DEF k
<1>10. Fragments(<<>>, u.p.rcv_nxt, d)
  BY DEF Fragments, Sorted
<1>11. CASE s = "TIME_WAIT"
  <2>1. q = [k EXCEPT !.state = s]
    BY <1>11
  <2> HIDE DEF q
  <2>2. /\ q \in Block /\ q.state = s /\ q.unsent = <<>> /\ q.unacked = <<>> /\ q.ooseq = <<>> /\ q.rtime = FALSE
        /\ q.snd_lbb = k.snd_lbb /\ q.snd_buf = k.snd_buf /\ q.snd_nxt = k.snd_nxt
        /\ q.lastack = k.lastack /\ q.snd_wnd = k.snd_wnd /\ q.cwnd = k.cwnd /\ q.rxclosed = k.rxclosed
        /\ q.snd_wl1 = k.snd_wl1 /\ q.snd_wl2 = k.snd_wl2 /\ q.edge = k.edge
        /\ q.rcv_nxt = k.rcv_nxt /\ q.rcv_wnd = k.rcv_wnd /\ q.rcv_ann_wnd = k.rcv_ann_wnd
    BY <1>5, <1>9, <2>1 DEF Block
  <2>3. v \in WorkSet /\ v.p = q /\ v.data = u.data /\ v.fin = u.fin /\ v.out = u.out
    BY <1>1, <1>3, <1>4, <2>2 DEF WorkSet
  <2>4. Got(q, d, Len(u.data), u.fin)
    BY <1>3, <1>9, <1>10, <2>2 DEF Got, OoseqOK
  <2>5. Snd(q, r)
    BY <1>3, <1>9, <1>11, <2>2 DEF Snd
  <2>6. FramesOK(v, r, d)
    BY <1>3, <1>9, <2>2, <2>3 DEF FramesOK
  <2>7. Quiet(u.p, r, d) => Quiet(q, r, d)
    BY <1>9, <2>2 DEF Quiet
  <2>8. Phase(q, c, h \/ u.fin)
    BY <1>3, <1>7, <1>8, <1>9, <1>11, <2>2 DEF StateOK, Phase
  <2> QED
    BY <1>3, <1>9, <1>11, <2>2, <2>3, <2>4, <2>5, <2>6, <2>7, <2>8 DEF Handling, v
<1>12. CASE s # "TIME_WAIT"
  <2>1. q = [u.p EXCEPT !.state = s]
    BY <1>12
  <2> HIDE DEF q
  <2>2. /\ q \in Block /\ q.state = s /\ q.ooseq = u.p.ooseq /\ SameSend(u.p, q)
        /\ q.rcv_nxt = u.p.rcv_nxt /\ q.rcv_wnd = u.p.rcv_wnd /\ q.rcv_ann_wnd = u.p.rcv_ann_wnd
    BY <1>4, <1>5, <2>1 DEF Block, SameSend
  <2>3. v \in WorkSet /\ v.p = q /\ v.data = u.data /\ v.fin = u.fin /\ v.out = u.out
    BY <1>1, <1>3, <1>4, <2>2 DEF WorkSet
  <2>4. Got(q, d, Len(u.data), u.fin)
    BY <1>3, <2>2 DEF Got, OoseqOK, SameSend
  <2>5. Snd(q, r)
    BY <1>3, <1>5, <1>12, <2>2, SndSame
  <2>6. FramesOK(v, r, d)
    BY <1>3, <2>2, <2>3 DEF FramesOK, SameSend
  <2>7. Quiet(u.p, r, d) => Quiet(q, r, d)
    BY <2>2 DEF Quiet, SameSend
  <2>8. s # "CLOSED" => Phase(q, c, h \/ u.fin)
    BY <1>3, <1>7, <1>8, <2>2 DEF StateOK, Phase, SameSend
  <2>9. q.edge = u.p.edge /\ q.rxclosed = u.p.rxclosed
    BY <2>2 DEF SameSend
  <2> QED
    BY <1>3, <1>6, <2>2, <2>3, <2>4, <2>5, <2>6, <2>7, <2>8, <2>9 DEF Handling, v
<1> QED
  BY <1>11, <1>12

-----------------------------------------------------------------------------
(* Passing data up: tcp_recved and the received FIN *)

\* The direction d when n more bytes, and its end if fin, have been passed up.
Passed(d, n, fin) == [d EXCEPT !.got = @ + n + Bit(fin)]

\* The stream of which the reader took more.
LEMMA PassedIs ==
  ASSUME NEW d, FlowOK(d), NEW q \in Block, NEW n \in Nat, NEW fin \in BOOLEAN, Got(q, d, n, fin)
  PROVE  LET b == Passed(d, n, fin)
         IN  /\ FlowOK(b) /\ Grown(d, b)
             /\ b.first = d.first /\ b.written = d.written /\ b.closed = d.closed /\ b.sent = d.sent
             /\ b.limit = d.limit /\ b.got = d.got + n + Bit(fin)
             /\ q.rcv_nxt = b.first + b.got /\ OoseqOK(q, b)
<1> DEFINE b == Passed(d, n, fin)
           f == Bit(fin)
<1>1. d \in Direction /\ d.got \in Nat
  BY FlowFacts DEF FlowOK
<1>2. f \in {0, 1}
  BY DEF Bit
<1> HIDE DEF f
<1>3. d.got + n + f \in Nat /\ d.got <= d.got + n + f
  BY <1>1, <1>2
<1>4. /\ b \in Direction
      /\ b.first = d.first /\ b.written = d.written /\ b.closed = d.closed /\ b.sent = d.sent
      /\ b.limit = d.limit /\ b.got = d.got + n + f
  BY <1>1, <1>3 DEF Passed, Direction, f
<1> HIDE DEF b
<1>5. q.rcv_nxt = d.first + d.got + n + f /\ q.rcv_nxt <= d.sent /\ OoseqOK(q, d)
  BY DEF Got, f
<1>6. q.rcv_nxt = b.first + b.got
  <2> DEFINE x == d.first
             g == d.got
  <2>1. x \in Nat /\ g \in Nat
    BY FlowFacts
  <2> HIDE DEF x, g
  <2>2. x + g + n + f = x + (g + n + f)
    BY ONLY <1>2, <2>1, n \in Nat
  <2> QED
    BY <1>4, <1>5, <2>2 DEF x, g
<1>7. EndOf(b) = EndOf(d)
  BY <1>4 DEF EndOf
<1>8. b.limit <= b.first + b.got + Wnd
  <2> DEFINE x == d.first
             g == d.got
             l == d.limit
  <2>1. x \in Nat /\ g \in Nat /\ l \in Nat /\ l <= x + g + Wnd /\ Wnd \in Nat
    BY FlowFacts, SizeFacts
  <2> HIDE DEF x, g, l
  <2>2. l <= x + (g + n + f) + Wnd
    BY ONLY <1>2, <2>1, n \in Nat
  <2> QED
    BY <1>4, <2>2 DEF x, g, l
<1>9. FlowOK(b)
  <2>1. b.first + b.got <= b.sent
    BY <1>4, <1>5, <1>6
  <2> QED
    BY <1>4, <1>7, <1>8, <2>1 DEF FlowOK
<1>10. Grown(d, b)
  <2>1. d.written \in Nat /\ d.sent \in Nat /\ d.limit \in Nat
    BY FlowFacts
  <2> QED
    BY <1>3, <1>4, <2>1 DEF Grown
<1>11. \A s : Own(s, b) <=> Own(s, d)
  BY <1>4 DEF Own
<1>12. OoseqOK(q, b)
  BY <1>4, <1>5, <1>11 DEF OoseqOK, Fragments, Fits
<1> QED
  BY <1>4, <1>6, <1>9, <1>10, <1>12 DEF b, f

\* The receiving side while the FIN still counts against the window.
RcvFin(q, b, fin) ==
  /\ q.rcv_nxt = b.first + b.got
  /\ q.rcv_wnd = Wnd - Bit(fin)
  /\ Wnd - Mss <= q.rcv_ann_wnd /\ q.rcv_ann_wnd <= Wnd
  /\ q.edge <= q.rcv_nxt + q.rcv_ann_wnd
  /\ OoseqOK(q, b)

\* tcp_recved: the window is open again.
LEMMA RecvedKeeps ==
  ASSUME NEW d, FlowOK(d), NEW w \in WorkSet, Got(w.p, d, Len(w.data), w.fin)
  PROVE  LET v == Recved(w)
             b == Passed(d, Len(w.data), w.fin)
         IN  /\ v \in WorkSet /\ v.data = w.data /\ v.fin = w.fin /\ v.out = w.out
             /\ SameSend(w.p, v.p) /\ v.p.state = w.p.state
             /\ RcvFin(v.p, b, w.fin)
<1> DEFINE p == w.p
           n == Len(w.data)
           fin == w.fin
           f == Bit(fin)
           b == Passed(d, n, fin)
           v == Recved(w)
           t == p.rcv_nxt
           e == p.edge
<1>1. p \in Block /\ n \in Nat /\ fin \in BOOLEAN /\ (w.data = <<>> <=> n = 0)
  BY DEF WorkSet
<1>2. f \in {0, 1}
  BY DEF Bit
<1>3. /\ FlowOK(b) /\ p.rcv_nxt = b.first + b.got /\ OoseqOK(p, b)
      /\ b.first = d.first /\ b.got = d.got + n + f /\ b.sent = d.sent /\ EndOf(b) = EndOf(d)
  BY <1>1, PassedIs DEF EndOf
<1>4. /\ p.rcv_wnd = Wnd - n - f
      /\ n = 0 => /\ Wnd - Mss <= p.rcv_ann_wnd /\ p.rcv_ann_wnd <= Wnd
                  /\ e <= t + p.rcv_ann_wnd
      /\ e <= d.first + d.got + Wnd /\ n <= Wnd
  BY DEF Got
<1> HIDE DEF f, b
<1>5. CASE n = 0
  <2>1. v = w
    BY <1>1, <1>5 DEF Recved
  <2>2. p.rcv_wnd = Wnd - f
    BY <1>2, <1>4, <1>5, SizeFacts
  <2>3. RcvFin(p, b, fin)
    BY <1>3, <1>4, <1>5, <2>2 DEF RcvFin, f
  <2> HIDE DEF v
  <2> QED
    BY <1>1, <2>1, <2>3 DEF v, b, SameSend
<1>6. CASE n # 0
  <2> DEFINE q == [p EXCEPT !.rcv_wnd = CapWnd(@ + n)]
             r == UpdateAnnWnd(q)
             now == w.now \/ (EdgeMoves(q) /\ Diff(NewEdge(q), q.edge) >= Wnd \div 4)
             wnd == Wnd - f
             a == Ann(e, t, t + wnd)
  <2>1. v = [w EXCEPT !.p = r, !.now = now]
    BY <1>1, <1>6 DEF Recved
  <2>2. CapWnd(p.rcv_wnd + n) = wnd /\ wnd \in Nat /\ wnd <= Wnd
    <3>1. p.rcv_wnd + n = wnd
      BY <1>1, <1>2, <1>4, SizeFacts
    <3>2. wnd \in Nat /\ wnd <= Wnd /\ (wnd < Wnd \/ wnd = Wnd)
      BY <1>2, SizeFacts
    <3> HIDE DEF wnd
    <3> QED
      BY <3>1, <3>2 DEF CapWnd, LeastOf
  <2>3. q = [p EXCEPT !.rcv_wnd = wnd]
    BY <2>2
  <2> HIDE DEF wnd, q
  <2>4. /\ q \in Block /\ q.rcv_wnd = wnd /\ q.rcv_nxt = t /\ q.edge = e /\ q.ooseq = p.ooseq /\ q.state = p.state
        /\ SameSend(p, q)
    <3> HIDE DEF p, n, t, e
    <3>1. wnd \in Int
      BY <2>2
    <3>2. q \in Block
      BY <1>1, <2>3, <3>1 DEF Block
    <3>3. q.rcv_wnd = wnd
      BY <1>1, <2>3 DEF Block
    <3>4. q.rcv_nxt = t /\ q.edge = e
      BY <1>1, <2>3 DEF Block, t, e
    <3>5. q.ooseq = p.ooseq /\ q.state = p.state /\ SameSend(p, q)
      BY <1>1, <2>3 DEF Block, SameSend
    <3> QED
      BY <3>2, <3>3, <3>4, <3>5
  <2>5. t \in Nat /\ e \in Nat /\ t \in Low /\ e \in Low /\ e + Mss \in Low /\ t + wnd \in Low /\ t + wnd \in Nat
        /\ e < t + Wnd
    <3> DEFINE z == EndOf(d)
               x == d.first
               g == d.got
    <3>1. /\ t = x + (g + n + f) /\ t <= z /\ z + 2 * Wnd + 1 <= Half /\ z \in Nat /\ x \in Nat /\ g \in Nat
          /\ t \in Nat /\ e \in Nat /\ e <= x + g + Wnd
      <4>1. t \in Nat /\ e \in Nat
        BY <1>1 DEF Block
      <4>2. x \in Nat /\ g \in Nat /\ z \in Nat /\ z + 2 * Wnd + 1 <= Half
        BY FlowFacts
      <4>3. t = x + (g + n + f)
        BY <1>3
      <4>4. t <= z
        <5> DEFINE s == b.sent
        <5>1. t <= s /\ s <= z /\ s \in Nat
          <6>1. b.first + b.got <= b.sent /\ b.sent <= EndOf(b) /\ b.sent \in Nat
            BY <1>3 DEF FlowOK, Direction
          <6> QED
            BY <1>3, <6>1
        <5> HIDE DEF s, t, z
        <5> QED
          BY ONLY <4>1, <4>2, <5>1
      <4> QED
        BY <1>4, <4>1, <4>2, <4>3, <4>4
    <3> HIDE DEF z, x, g, t, e, n
    <3>2. t < Half /\ e < t + Wnd /\ t + wnd < Half /\ e + Mss < Half /\ e < Half /\ t + wnd \in Nat /\ e + Mss \in Nat
      <4>1. n \in Nat /\ wnd \in Nat /\ wnd <= Wnd /\ n > 0 /\ f \in {0, 1}
        BY <1>1, <1>2, <1>6, <2>2 DEF n
      <4>2. Mss \in Nat /\ Mss >= 1 /\ Wnd \in Nat /\ 2 * Mss <= Wnd /\ Half \in Nat
        BY SizeFacts
      <4> QED
        BY ONLY <4>1, <4>2, <3>1
    <3> QED
      BY <3>1, <3>2, SizeFacts DEF Low
  <2>6. r = [q EXCEPT !.rcv_ann_wnd = a]
    BY <2>4, <2>5, UpdateAnnIs
  <2>7. a \in Int /\ Wnd - Mss <= a /\ a <= Wnd /\ e <= t + a
    <3>0. /\ t \in Nat /\ e \in Nat /\ wnd \in Nat /\ Wnd \in Nat /\ Mss \in Nat /\ e < t + Wnd
          /\ wnd = Wnd - f /\ f \in {0, 1} /\ 2 * Mss <= Wnd /\ Mss >= 1
      BY <1>2, <2>2, <2>5, SizeFacts DEF wnd
    <3> HIDE DEF t, e
    <3>1. CASE e + Mss <= t + wnd
      <4>1. a = wnd
        <5>1. (t + wnd) - t = wnd
          BY ONLY <3>0
        <5> QED
          BY <3>1, <5>1 DEF Ann
      <4> HIDE DEF a
      <4> QED
        BY ONLY <3>0, <3>1, <4>1
    <3>2. CASE ~(e + Mss <= t + wnd)
      <4>1. ~(e < t)
        BY ONLY <3>0, <3>2
      <4>2. a = e - t
        BY <3>2, <4>1 DEF Ann
      <4> HIDE DEF a
      <4> QED
        BY ONLY <3>0, <3>2, <4>1, <4>2
    <3> QED
      BY <3>1, <3>2
  <2>8. now \in BOOLEAN
    BY DEF WorkSet
  <2> HIDE DEF a, r, now
  <2>9. /\ r \in Block /\ r.rcv_ann_wnd = a /\ r.rcv_wnd = wnd /\ r.rcv_nxt = t /\ r.ooseq = p.ooseq /\ r.state = p.state
        /\ SameSend(p, r) /\ r.edge = e
    BY <2>4, <2>6, <2>7 DEF Block, SameSend
  <2> HIDE DEF v
  <2>10. v \in WorkSet /\ v.p = r /\ v.data = w.data /\ v.fin = w.fin /\ v.out = w.out
    BY <2>1, <2>8, <2>9 DEF WorkSet
  <2>11. RcvFin(r, b, fin)
    BY <1>3, <2>7, <2>9 DEF RcvFin, OoseqOK, wnd, f
  <2> QED
    BY <2>9, <2>10, <2>11 DEF v, b
<1> QED
  BY <1>5, <1>6

-----------------------------------------------------------------------------
(* tcp_close *)

\* The direction d when its writer has closed it.
Shut(d) == [d EXCEPT !.closed = TRUE]

\* The stream that its writer closed.
LEMMA ShutIs ==
  ASSUME NEW d, FlowOK(d), ~d.closed
  PROVE  LET b == Shut(d)
         IN  /\ FlowOK(b) /\ Grown(d, b)
             /\ b.first = d.first /\ b.written = d.written /\ b.closed = TRUE /\ b.sent = d.sent
             /\ b.limit = d.limit /\ b.got = d.got
             /\ EndOf(b) = EndOf(d) + 1 /\ EndOf(d) = d.first + d.written /\ EndOf(b) - 1 = EndOf(d)
             /\ \A s : Own(s, d) => Own(s, b) /\ ~s.fin
<1> DEFINE b == Shut(d)
           x == d.first
           n == d.written
           s == d.sent
<1>1. /\ b \in Direction
      /\ b.first = d.first /\ b.written = d.written /\ b.closed = TRUE /\ b.sent = d.sent
      /\ b.limit = d.limit /\ b.got = d.got
  BY DEF FlowOK, Direction, Shut
<1> HIDE DEF b
<1>2. EndOf(b) = x + n + 1 /\ EndOf(d) = x + n + 0
  BY <1>1 DEF EndOf, Bit
<1>3. /\ x \in Nat /\ n \in Nat /\ s \in Nat /\ s <= EndOf(d)
      /\ d.got \in Nat /\ d.limit \in Nat /\ d.closed \in BOOLEAN
  BY FlowFacts
<1>4. FlowOK(b)
  <2>1. /\ d.first + d.got <= d.sent
        /\ d.limit <= d.first + d.got + Wnd
        /\ d.first + d.written + 2 * Wnd + 2 <= Half
    BY DEF FlowOK
  <2>2. s <= EndOf(b)
    <3> HIDE DEF x, n, s
    <3> QED
      BY ONLY <1>2, <1>3
  <2> QED
    BY <1>1, <2>1, <2>2 DEF FlowOK
<1>5. Grown(d, b)
  BY <1>1, <1>3 DEF Grown
<1>6. \A o : Own(o, d) => Own(o, b) /\ ~o.fin
  BY <1>1 DEF Own
<1>7. EndOf(b) = EndOf(d) + 1 /\ EndOf(d) = d.first + d.written /\ EndOf(b) - 1 = EndOf(d)
  <2>1. x \in Nat /\ n \in Nat
    BY <1>3
  <2>2. EndOf(b) = EndOf(d) + 1 /\ EndOf(d) = x + n /\ EndOf(b) - 1 = EndOf(d)
    <3> HIDE DEF x, n
    <3> QED
      BY ONLY <1>2, <2>1
  <2> QED
    BY <2>2
<1> QED
  BY <1>1, <1>4, <1>5, <1>6, <1>7 DEF b

\* The FIN on the last unsent segment.
LEMMA FinOnLastKeeps ==
  ASSUME NEW d, FlowOK(d), ~d.closed, NEW u \in Seq(Segment), NEW v \in Seq(Segment), NEW la \in Nat,
         Queue(u, v, la, d), v # <<>>
  PROVE  LET x == [v EXCEPT ![Len(v)].fin = TRUE]
         IN  x \in Seq(Segment) /\ Len(x) = Len(v) /\ Queue(u, x, la, Shut(d))
<1> DEFINE b == Shut(d)
           n == Len(v)
           o == [v[n] EXCEPT !.fin = TRUE]
           x == [v EXCEPT ![n] = o]
           z == EndOf(d)
<1>1. /\ FlowOK(b) /\ b.first = d.first /\ b.written = d.written /\ b.closed = TRUE
      /\ EndOf(b) = z + 1 /\ z = d.first + d.written
      /\ \A s : Own(s, d) => Own(s, b) /\ ~s.fin
  BY ShutIs
<1>2. /\ n \in Nat /\ n > 0 /\ n \in 1 .. n
      /\ \A i \in 1 .. n : v[i] \in Segment /\ Shaped(v[i])
  BY SegmentQueue
<1>3. /\ Run(v, z, d) /\ Run(u, v[1].seq, d) /\ z \in Nat
      /\ u # <<>> => u[1].seq <= la /\ la < Stop(u[1])
      /\ u = <<>> => v[1].seq <= la /\ la < Stop(v[1])
  BY QueueFacts DEF Queue, StartOf
<1> HIDE DEF b, n, z
<1>4. v[n] \in Segment /\ Own(v[n], d) /\ Stop(v[n]) = z /\ ~v[n].fin
  BY <1>1, <1>2, <1>3 DEF Run, n
<1>5. /\ o \in Segment /\ o.seq = v[n].seq /\ o.pos = v[n].pos /\ o.len = v[n].len /\ o.fin = TRUE
  BY <1>4 DEF Segment
<1> HIDE DEF o
<1>6. /\ v[n].seq \in Nat /\ v[n].len \in Nat /\ v[n].fin = FALSE
  BY <1>4 DEF Segment
<1>7. v[n].seq + v[n].len = z /\ Stop(o) = z + 1
  <2> DEFINE f == v[n].seq
             l == v[n].len
  <2>1. Stop(v[n]) = f + l /\ Stop(o) = f + (l + 1)
    BY <1>5, <1>6 DEF Stop, TcpLen
  <2>2. f \in Nat /\ l \in Nat
    BY <1>6
  <2> HIDE DEF f, l
  <2>3. f + l = z /\ Stop(o) = z + 1
    BY ONLY <1>4, <2>1, <2>2
  <2> QED
    BY <2>3 DEF f, l
<1>8. Own(o, b)
  <2>1. Own(v[n], b)
    BY <1>1, <1>4
  <2>2. TcpLen(o) > 0
    BY <1>5, <1>6 DEF TcpLen
  <2> QED
    BY <1>1, <1>5, <1>7, <2>1, <2>2 DEF Own
<1>9. /\ x \in Seq(Segment) /\ Len(x) = n
      /\ \A i \in 1 .. n : x[i] = IF i = n THEN o ELSE v[i]
  BY <1>2, <1>5 DEF n
<1> HIDE DEF x
<1>10. \A i \in 1 .. n : Own(v[i], b) /\ Own(x[i], b)
  BY <1>1, <1>3, <1>8, <1>9 DEF Run, n
<1>11. \A i \in 1 .. n : x[i].seq = v[i].seq
  BY <1>5, <1>9
<1>12. Run(x, z + 1, b)
  <2> SUFFICES ASSUME NEW i \in 1 .. n
               PROVE  Own(x[i], b) /\ Stop(x[i]) = IF i = n THEN z + 1 ELSE x[i + 1].seq
    BY <1>9 DEF Run
  <2>1. CASE i = n
    BY <1>7, <1>9, <1>10, <2>1
  <2>2. CASE i # n
    <3>1. i + 1 \in 1 .. n
      BY <1>2, <2>2
    <3>2. Stop(v[i]) = v[i + 1].seq
      BY <1>3, <2>2 DEF Run, n
    <3> QED
      BY <1>9, <1>10, <1>11, <2>2, <3>1, <3>2
  <2> QED
    BY <2>1, <2>2
<1>13. x # <<>> /\ StartOf(x, EndOf(b)) = v[1].seq /\ x[1].seq = v[1].seq
  <2>1. 1 \in 1 .. n
    BY <1>2
  <2>2. x # <<>>
    BY <1>2, <1>9, SegmentQueue
  <2> QED
    BY <1>11, <2>1, <2>2 DEF StartOf
<1>14. Run(u, v[1].seq, b)
  BY <1>1, <1>3 DEF Run
<1>15. u = <<>> => la < Stop(x[1])
  <2> SUFFICES ASSUME u = <<>> PROVE la < Stop(x[1])
    OBVIOUS
  <2>1. la < Stop(v[1])
    BY <1>3
  <2>2. CASE n = 1
    <3>1. la < z
      BY <1>4, <2>1, <2>2
    <3>2. la < z + 1
      BY ONLY <1>3, <3>1, la \in Nat
    <3> QED
      BY <1>7, <1>9, <2>2, <3>2
  <2>3. CASE n # 1
    BY <1>2, <1>9, <2>1, <2>3
  <2> QED
    BY <2>2, <2>3
<1>16. Queue(u, x, la, b)
  BY <1>1, <1>3, <1>12, <1>13, <1>14, <1>15 DEF Queue
<1> QED
  BY <1>9, <1>16 DEF x, b, n, o

\* The FIN in a segment of its own.
LEMMA FinAloneKeeps ==
  ASSUME NEW d, FlowOK(d), ~d.closed, NEW u \in Seq(Segment), NEW la \in Nat,
         Queue(u, <<>>, la, d)
  PROVE  LET s == [seq |-> EndOf(d), pos |-> 0, len |-> 0, fin |-> TRUE]
         IN  <<s>> \in Seq(Segment) /\ Queue(u, <<s>>, la, Shut(d))
<1> DEFINE b == Shut(d)
           z == EndOf(d)
           s == [seq |-> z, pos |-> 0, len |-> 0, fin |-> TRUE]
           x == <<s>>
<1>1. /\ FlowOK(b) /\ b.first = d.first /\ b.written = d.written /\ b.closed = TRUE
      /\ EndOf(b) = z + 1 /\ z = d.first + d.written
      /\ \A o : Own(o, d) => Own(o, b) /\ ~o.fin
  BY ShutIs
<1>2. <<>> \in Seq(Segment)
  OBVIOUS
<1>3. z \in Nat /\ d.first \in Nat /\ d.written \in Nat
  BY FlowFacts
<1>4. /\ Run(u, z, d)
      /\ u # <<>> => u[1].seq <= la /\ la < Stop(u[1])
      /\ u = <<>> => la = z
  BY DEF Queue, StartOf
<1> HIDE DEF b, z
<1>5. s \in Segment /\ s.seq = z /\ s.len = 0 /\ s.fin = TRUE /\ TcpLen(s) = 1 /\ Stop(s) = z + 1
  BY <1>3 DEF Segment, TcpLen, Stop
<1> HIDE DEF s
<1>6. Own(s, b)
  <2>1. b.first <= z /\ z + 0 <= b.first + b.written /\ z + 0 = b.first + b.written
    BY <1>1, <1>3
  <2> QED
    BY <1>1, <1>5, <2>1, SizeFacts DEF Own
<1>7. x \in Seq(Segment) /\ Len(x) = 1 /\ x[1] = s /\ x # <<>>
  BY <1>5
<1> HIDE DEF x
<1>8. Run(x, EndOf(b), b)
  <2>1. \A i \in 1 .. 1 : i = 1
    OBVIOUS
  <2> QED
    BY <1>1, <1>5, <1>6, <1>7, <2>1 DEF Run
<1>9. Run(u, z, b) /\ StartOf(x, EndOf(b)) = z
  BY <1>1, <1>4, <1>5, <1>7 DEF Run, StartOf
<1>10. u = <<>> => x[1].seq <= la /\ la < Stop(x[1])
  BY <1>3, <1>4, <1>5, <1>7
<1>11. Queue(u, x, la, b)
  BY <1>4, <1>7, <1>8, <1>9, <1>10 DEF Queue
<1> QED
  BY <1>7, <1>11 DEF x, s, b, z

\* Everything but what is sent, and the state.
SameRcv(p, q) ==
  /\ q.rcv_nxt = p.rcv_nxt /\ q.rcv_wnd = p.rcv_wnd /\ q.rcv_ann_wnd = p.rcv_ann_wnd
  /\ q.edge = p.edge /\ q.ooseq = p.ooseq /\ q.lastack = p.lastack
  /\ q.snd_wl1 = p.snd_wl1 /\ q.snd_wl2 = p.snd_wl2 /\ q.rxclosed = p.rxclosed

\* Without a FIN the send buffer ends where the queue does.
LEMMA UnshutQueue ==
  ASSUME NEW d, FlowOK(d), ~d.closed, NEW p \in Block, Snd(p, d), p.state # "TIME_WAIT"
  PROVE  /\ p.snd_lbb = EndOf(d) /\ p.snd_lbb + 1 = EndOf(Shut(d))
         /\ FinOnLast(p) <=> p.unsent # <<>>
         /\ Add(p.snd_lbb, 1) = p.snd_lbb + 1
<1>1. QueuesOK(p, d) /\ p.unsent \in Seq(Segment) /\ p.snd_lbb \in Nat
  BY DEF Snd, Block
<1>2. EndOf(Shut(d)) = EndOf(d) + 1 /\ EndOf(d) \in Nat /\ EndOf(d) + 2 * Wnd + 1 <= Half
      /\ \A s : Own(s, d) => ~s.fin
  BY ShutIs, FlowFacts
<1>3. p.snd_lbb = EndOf(d)
  <2>1. Bit(d.closed) = 0
    BY DEF Bit
  <2>2. EndOf(d) - 0 = EndOf(d)
    BY <1>2
  <2> QED
    BY <1>1, <2>1, <2>2 DEF QueuesOK
<1>4. FinOnLast(p) <=> p.unsent # <<>>
  <2> SUFFICES ASSUME p.unsent # <<>> PROVE ~Last(p.unsent).fin
    BY DEF FinOnLast
  <2> DEFINE v == p.unsent
             n == Len(v)
  <2>1. n \in 1 .. n
    BY <1>1, SegmentQueue
  <2>2. Run(v, EndOf(d), d)
    BY <1>1 DEF QueuesOK, Queue
  <2>3. Own(v[n], d)
    BY <2>1, <2>2 DEF Run
  <2> QED
    BY <1>2, <2>3 DEF Last
<1>5. Add(p.snd_lbb, 1) = p.snd_lbb + 1
  <2> DEFINE z == EndOf(d)
  <2>1. z \in Nat /\ z + 2 * Wnd + 1 <= Half
    BY <1>2
  <2> HIDE DEF z
  <2>2. z + 1 \in Low
    BY <2>1, SizeFacts DEF Low
  <2>3. Add(z, 1) = z + 1
    BY <2>1, <2>2, LowAdd
  <2> QED
    BY <1>3, <2>3 DEF z
<1> QED
  BY <1>2, <1>3, <1>4, <1>5

\* tcp_send_fin: the FIN is the end of the stream, and of the queues.
LEMMA SendFinKeeps ==
  ASSUME NEW d, FlowOK(d), ~d.closed, NEW p \in Block, Snd(p, d), p.state # "TIME_WAIT",
         NEW memory, CanClose(p, memory), NEW st \in States, st # "TIME_WAIT"
  PROVE  LET q == [SendFin(p) EXCEPT !.state = st]
         IN  q \in Block /\ Snd(q, Shut(d)) /\ SameRcv(p, q) /\ q.state = st /\ q.snd_nxt = p.snd_nxt
<1> DEFINE b == Shut(d)
           z == EndOf(d)
           u == p.unacked
           v == p.unsent
           la == p.lastack
           q == [SendFin(p) EXCEPT !.state = st]
<1>1. /\ FlowOK(b) /\ b.first = d.first /\ b.written = d.written /\ b.closed = TRUE /\ b.sent = d.sent
      /\ b.limit = d.limit /\ b.got = d.got /\ EndOf(b) = z + 1 /\ EndOf(b) - 1 = z
  BY ShutIs
<1>2. /\ p.snd_lbb = z /\ p.snd_lbb + 1 = EndOf(b) /\ (FinOnLast(p) <=> v # <<>>)
      /\ Add(p.snd_lbb, 1) = p.snd_lbb + 1
  BY UnshutQueue
<1>3. /\ u \in Seq(Segment) /\ v \in Seq(Segment) /\ la \in Nat /\ p.snd_lbb \in Nat /\ p.snd_buf \in Int
      /\ z \in Nat
  BY FlowFacts DEF Block
<1>4. QueuesOK(p, d)
  BY DEF Snd
<1>5. Queue(u, v, la, d) /\ SentOK(u, d) /\ (p.rtime <=> u # <<>>) /\ p.snd_buf = SndBuf - (p.snd_lbb - la)
  BY <1>4 DEF QueuesOK
<1>6. SentOK(u, b)
  BY <1>1, <1>5 DEF SentOK
<1>7. Bit(b.closed) = 1
  BY <1>1 DEF Bit
<1>8. ASSUME q \in Block, SameRcv(p, q), q.state = st, q.unacked = u, q.rtime = p.rtime, q.snd_nxt = p.snd_nxt,
             q.snd_wnd = p.snd_wnd, q.cwnd = p.cwnd, Queue(u, q.unsent, la, b),
             q.snd_lbb \in {z, z + 1}, q.snd_buf = SndBuf - (q.snd_lbb - la), q.snd_buf >= 0
      PROVE  Snd(q, b)
  <2> HIDE DEF q, b, z, u, v, la
  <2>1. q.lastack = p.lastack
    BY <1>8 DEF SameRcv
  <2>2. q.snd_lbb \in {EndOf(b), EndOf(b) - Bit(b.closed)}
    BY <1>1, <1>7, <1>8
  <2>3. QueuesOK(q, b)
    BY <1>5, <1>6, <1>8, <2>1, <2>2 DEF QueuesOK, la
  <2>4. q.snd_lbb <= EndOf(b)
    BY <1>1, <1>3, <1>8
  <2> QED
    BY <1>1, <1>8, <2>1, <2>3, <2>4 DEF Snd
<1>9. CASE v # <<>>
  <2> DEFINE x == [v EXCEPT ![Len(v)].fin = TRUE]
             k == [p EXCEPT !.unsent[Len(p.unsent)].fin = TRUE]
  <2>1. x \in Seq(Segment) /\ Queue(u, x, la, b)
    BY <1>3, <1>5, <1>9, FinOnLastKeeps
  <2>2. SendFin(p) = k
    BY <1>2, <1>9 DEF SendFin
  <2>3. k = [p EXCEPT !.unsent = x]
    BY DEF Block
  <2> HIDE DEF k, x, b, z
  <2>4. q = [k EXCEPT !.state = st]
    BY <2>2
  <2> HIDE DEF q
  <2>5. k \in Block /\ k.unsent = x
    BY <2>1, <2>3 DEF Block
  <2>6. /\ q \in Block /\ q.state = st /\ q.unsent = x /\ q.unacked = u /\ q.rtime = p.rtime /\ q.snd_nxt = p.snd_nxt
        /\ q.snd_wnd = p.snd_wnd /\ q.cwnd = p.cwnd /\ q.snd_lbb = p.snd_lbb /\ q.snd_buf = p.snd_buf
    BY <2>3, <2>4, <2>5 DEF Block
  <2>7. SameRcv(p, q)
    BY <2>3, <2>4 DEF Block, SameRcv
  <2>8. p.snd_buf >= 0
    BY DEF Snd
  <2>9. Snd(q, b)
    BY <1>2, <1>5, <1>8, <2>1, <2>6, <2>7, <2>8
  <2> QED
    BY <2>6, <2>7, <2>9 DEF q, b
<1>10. CASE v = <<>>
  <2> DEFINE s == [seq |-> z, pos |-> 0, len |-> 0, fin |-> TRUE]
             x == <<s>>
             k == [p EXCEPT !.unsent = Append(@, [seq |-> p.snd_lbb, pos |-> 0, len |-> 0, fin |-> TRUE]),
                            !.snd_lbb = Add(@, 1), !.snd_buf = @ - 1]
             l == p.snd_lbb + 1
             c == p.snd_buf - 1
  <2>1. x \in Seq(Segment) /\ Queue(u, x, la, b)
    BY <1>3, <1>5, <1>10, FinAloneKeeps
  <2>2. SendFin(p) = k
    BY <1>2, <1>10 DEF SendFin
  <2>3. Append(v, s) = x
    BY <1>10
  <2>4. k = [p EXCEPT !.unsent = x, !.snd_lbb = l, !.snd_buf = c]
    BY <1>2, <2>3 DEF Block
  <2>5. l \in Nat /\ c \in Int
    BY <1>3
  <2>6. p.snd_buf > 0
    BY <1>2, <1>10 DEF CanClose
  <2>7. l = z + 1 /\ c = SndBuf - (l - la) /\ c >= 0
    <3>1. SndBuf \in Nat
      BY SizeFacts
    <3> DEFINE a == p.snd_lbb
               e == p.snd_buf
    <3>2. a = z /\ e = SndBuf - (a - la) /\ e > 0 /\ l = a + 1 /\ c = e - 1 /\ a \in Nat /\ e \in Int
      BY <1>2, <1>3, <1>5, <2>6
    <3> HIDE DEF a, e, l, c, z, la
    <3>3. c = SndBuf - (l - la) /\ c >= 0
      BY ONLY <1>3, <3>1, <3>2
    <3> QED
      BY <3>2, <3>3
  <2> HIDE DEF k, x, b, z, l, c
  <2>8. q = [k EXCEPT !.state = st]
    BY <2>2
  <2> HIDE DEF q
  <2>9. k \in Block
    BY <2>1, <2>4, <2>5 DEF Block
  <2>10. /\ k.unsent = x /\ k.unacked = u /\ k.rtime = p.rtime /\ k.snd_nxt = p.snd_nxt
         /\ k.snd_wnd = p.snd_wnd /\ k.cwnd = p.cwnd /\ k.snd_lbb = l /\ k.snd_buf = c
         /\ SameRcv(p, k)
    BY <2>4 DEF Block, SameRcv
  <2>11. /\ q \in Block /\ q.state = st /\ q.unsent = x /\ q.unacked = u /\ q.rtime = p.rtime /\ q.snd_nxt = p.snd_nxt
         /\ q.snd_wnd = p.snd_wnd /\ q.cwnd = p.cwnd /\ q.snd_lbb = l /\ q.snd_buf = c
    BY <2>8, <2>9, <2>10 DEF Block
  <2>12. SameRcv(p, q)
    BY <2>8, <2>9, <2>10 DEF Block, SameRcv
  <2>13. Snd(q, b)
    BY <1>8, <2>1, <2>7, <2>11, <2>12
  <2> QED
    BY <2>11, <2>12, <2>13 DEF q, b
<1> QED
  BY <1>9, <1>10

\* The direction d once its writer has or has not closed it.
Shutting(d, now) == IF now THEN Shut(d) ELSE d

\* What tcp_close leaves alone.
SameGet(p, q) ==
  /\ q.rcv_nxt = p.rcv_nxt /\ q.rcv_wnd = p.rcv_wnd /\ q.rcv_ann_wnd = p.rcv_ann_wnd
  /\ q.edge = p.edge /\ q.ooseq = p.ooseq /\ q.lastack = p.lastack
  /\ q.snd_wl1 = p.snd_wl1 /\ q.snd_wl2 = p.snd_wl2 /\ q.snd_nxt = p.snd_nxt

\* tcp_close: its FIN is queued behind everything written, in the states that can send it.
LEMMA ClosedKeeps ==
  ASSUME NEW d, FlowOK(d), NEW w \in WorkSet, Snd(w.p, d), NEW h \in BOOLEAN, Phase(w.p, d.closed, h),
         NEW memory
  PROVE  LET v == Closed(w, memory)
             now == v.p.state # w.p.state
             b == Shutting(d, now)
         IN  /\ v \in WorkSet /\ v.data = w.data /\ v.fin = w.fin /\ v.out = w.out
             /\ FlowOK(b) /\ Grown(d, b) /\ Snd(v.p, b) /\ SameGet(w.p, v.p)
             /\ StateOK(v.p, b.closed, h)
             /\ now => /\ ~d.closed
                       /\ v.p.state = IF w.p.state = "ESTABLISHED" THEN "FIN_WAIT_1" ELSE "LAST_ACK"
<1> DEFINE p == [w.p EXCEPT !.rxclosed = TRUE]
           c == Closed(w, memory)
           st == IF p.state = "ESTABLISHED" THEN "FIN_WAIT_1" ELSE "LAST_ACK"
           k == [SendFin(p) EXCEPT !.state = st]
           go == p.state \in {"ESTABLISHED", "CLOSE_WAIT"} /\ CanClose(p, memory)
<1>1. w.p \in Block
  BY DEF WorkSet
<1>2. /\ p \in Block /\ p.state = w.p.state /\ p.rxclosed = TRUE
      /\ SameGet(w.p, p)
      /\ p.unsent = w.p.unsent /\ p.unacked = w.p.unacked /\ p.rtime = w.p.rtime /\ p.snd_lbb = w.p.snd_lbb
      /\ p.snd_buf = w.p.snd_buf /\ p.snd_wnd = w.p.snd_wnd /\ p.cwnd = w.p.cwnd
  BY <1>1 DEF Block, SameGet
<1>3. c = IF go THEN [w EXCEPT !.p = k] ELSE [w EXCEPT !.p = p]
  <2>1. CASE p.state = "ESTABLISHED"
    BY <1>2, <2>1 DEF Closed
  <2>2. CASE p.state = "CLOSE_WAIT"
    BY <1>2, <2>2 DEF Closed
  <2>3. CASE p.state \notin {"ESTABLISHED", "CLOSE_WAIT"}
    BY <1>2, <2>3 DEF Closed
  <2> QED
    BY <2>1, <2>2, <2>3
<1> HIDE DEF p
<1>4. Snd(p, d)
  <2>1. QueuesOK(w.p, d) => QueuesOK(p, d)
    BY <1>2 DEF QueuesOK, SameGet
  <2> QED
    BY <1>2, <2>1 DEF Snd, SameGet
<1>5. StateOK(p, d.closed, h)
  BY <1>2 DEF StateOK, Phase
<1>6. CASE go
  <2>1. c = [w EXCEPT !.p = k]
    BY <1>3, <1>6
  <2>2. ~d.closed /\ st \in States /\ st # "TIME_WAIT" /\ st # p.state /\ p.state # "TIME_WAIT"
    BY <1>5, <1>6 DEF StateOK, Phase, States
  <2>3. k \in Block /\ Snd(k, Shut(d)) /\ SameRcv(p, k) /\ k.state = st /\ k.snd_nxt = p.snd_nxt
    <3> HIDE DEF st
    <3>1. CanClose(p, memory)
      BY <1>6
    <3> QED
      BY <1>2, <1>4, <2>2, <3>1, SendFinKeeps
  <2>4. Shut(d).closed = TRUE /\ FlowOK(Shut(d)) /\ Grown(d, Shut(d))
    BY <2>2, ShutIs
  <2> HIDE DEF k
  <2>5. StateOK(k, TRUE, h)
    BY <1>2, <1>5, <1>6, <2>2, <2>3 DEF StateOK, Phase, SameRcv
  <2> HIDE DEF c, st
  <2>6. c \in WorkSet /\ c.p = k /\ c.data = w.data /\ c.fin = w.fin /\ c.out = w.out
    BY <2>1, <2>3 DEF WorkSet
  <2>7. SameGet(w.p, k)
    BY <1>2, <2>3 DEF SameGet, SameRcv
  <2>8. Shutting(d, c.p.state # w.p.state) = Shut(d)
    BY <1>2, <2>2, <2>3, <2>6 DEF Shutting
  <2>9. c.p.state = IF w.p.state = "ESTABLISHED" THEN "FIN_WAIT_1" ELSE "LAST_ACK"
    BY <1>2, <2>3, <2>6 DEF st
  <2> QED
    BY <2>2, <2>3, <2>4, <2>5, <2>6, <2>7, <2>8, <2>9 DEF c
<1>7. CASE ~go
  <2>1. c = [w EXCEPT !.p = p]
    BY <1>3, <1>7
  <2> HIDE DEF c, k, st, go
  <2>2. c \in WorkSet /\ c.p = p /\ c.data = w.data /\ c.fin = w.fin /\ c.out = w.out
    BY <1>2, <2>1 DEF WorkSet
  <2>3. ~(c.p.state # w.p.state)
    BY <1>2, <2>2
  <2>4. Shutting(d, c.p.state # w.p.state) = d
    BY <2>3 DEF Shutting
  <2>5. Grown(d, d)
    BY SameFlow
  <2> QED
    BY <1>2, <1>4, <1>5, <2>2, <2>3, <2>4, <2>5 DEF c
<1> QED
  BY <1>6, <1>7

\* The closed event: the FIN no longer counts against the window, and the program closes.
LEMMA FinSeenKeeps ==
  ASSUME NEW d, FlowOK(d), NEW r, FlowOK(r), NEW w \in WorkSet, Snd(w.p, d), RcvFin(w.p, r, w.fin),
         NEW h \in BOOLEAN, Phase(w.p, d.closed, h), w.fin => h, h => w.fin \/ w.p.rxclosed, NEW memory
  PROVE  LET v == FinSeen(w, memory)
             now == v.p.state # w.p.state
             b == Shutting(d, now)
         IN  /\ v \in WorkSet /\ v.data = w.data /\ v.fin = w.fin /\ v.out = w.out
             /\ FlowOK(b) /\ Grown(d, b) /\ Snd(v.p, b) /\ Rcv(v.p, r)
             /\ StateOK(v.p, b.closed, h) /\ (b.closed <=> d.closed \/ v.p.state = "LAST_ACK")
             /\ v.p.edge = w.p.edge /\ v.p.lastack = w.p.lastack
             /\ v.p.snd_wl1 = w.p.snd_wl1 /\ v.p.snd_wl2 = w.p.snd_wl2 /\ v.p.snd_nxt = w.p.snd_nxt
             /\ now => ~d.closed
<1> DEFINE v == FinSeen(w, memory)
           q == [w.p EXCEPT !.rcv_wnd = CapWnd(@ + 1)]
           x == [w EXCEPT !.p = q]
<1>1. w.p \in Block /\ w.fin \in BOOLEAN
  BY DEF WorkSet
<1>2. CASE w.fin = FALSE
  <2>1. v = w
    BY <1>2 DEF FinSeen
  <2>2. Bit(w.fin) = 0 /\ Wnd - 0 = Wnd
    BY <1>2, SizeFacts DEF Bit
  <2>3. Rcv(w.p, r)
    BY <2>2 DEF Rcv, RcvFin
  <2>4. Shutting(d, FALSE) = d /\ Grown(d, d)
    BY SameFlow DEF Shutting
  <2>5. w.p.state = "LAST_ACK" => d.closed
    BY DEF StateOK, Phase
  <2> HIDE DEF v
  <2>6. ~(v.p.state # w.p.state)
    BY <2>1
  <2>7. Shutting(d, v.p.state # w.p.state) = d
    BY <2>4, <2>6 DEF Shutting
  <2>8. d.closed \in BOOLEAN /\ StateOK(w.p, d.closed, h)
    BY <1>2, FlowFacts DEF StateOK
  <2> QED
    BY <2>1, <2>3, <2>4, <2>5, <2>6, <2>7, <2>8 DEF v
<1>3. CASE w.fin = TRUE
  <2>1. Bit(w.fin) = 1
    BY <1>3 DEF Bit
  <2>2. CapWnd(w.p.rcv_wnd + 1) = Wnd
    <3>1. w.p.rcv_wnd = Wnd - 1
      BY <2>1 DEF RcvFin
    <3>2. w.p.rcv_wnd + 1 = Wnd
      BY <3>1, SizeFacts
    <3> QED
      BY <3>2, SizeFacts DEF CapWnd, LeastOf
  <2>3. q = [w.p EXCEPT !.rcv_wnd = Wnd]
    BY <2>2
  <2>4. v = Closed(x, memory)
    BY <1>3 DEF FinSeen
  <2> HIDE DEF q
  <2>5. /\ q \in Block /\ q.rcv_wnd = Wnd /\ q.state = w.p.state /\ SameSend(w.p, q)
        /\ q.rcv_nxt = w.p.rcv_nxt /\ q.rcv_ann_wnd = w.p.rcv_ann_wnd /\ q.ooseq = w.p.ooseq
    <3>1. Wnd \in Int
      BY SizeFacts
    <3>2. q \in Block /\ q.rcv_wnd = Wnd
      BY <1>1, <2>3, <3>1 DEF Block
    <3>3. /\ q.state = w.p.state
          /\ q.rcv_nxt = w.p.rcv_nxt /\ q.rcv_ann_wnd = w.p.rcv_ann_wnd /\ q.ooseq = w.p.ooseq
      BY <1>1, <2>3 DEF Block
    <3>4. SameSend(w.p, q)
      BY <1>1, <2>3 DEF Block, SameSend
    <3> QED
      BY <3>2, <3>3, <3>4
  <2>6. Snd(q, d)
    BY <2>5, SndSame
  <2>7. Rcv(q, r)
    BY <2>5 DEF Rcv, RcvFin, OoseqOK, SameSend
  <2>8. Phase(q, d.closed, h)
    BY <2>5 DEF StateOK, Phase, SameSend
  <2> HIDE DEF x, v
  <2>9. x \in WorkSet /\ x.p = q /\ x.data = w.data /\ x.fin = w.fin /\ x.out = w.out
    BY <2>5 DEF WorkSet, x
  <2> DEFINE now == v.p.state # w.p.state
             b == Shutting(d, now)
  <2>10. /\ v \in WorkSet /\ v.data = x.data /\ v.fin = x.fin /\ v.out = x.out
         /\ FlowOK(b) /\ Grown(d, b) /\ Snd(v.p, b) /\ SameGet(q, v.p)
         /\ StateOK(v.p, b.closed, h)
         /\ now => ~d.closed /\ v.p.state = IF w.p.state = "ESTABLISHED" THEN "FIN_WAIT_1" ELSE "LAST_ACK"
    <3>1. Snd(x.p, d) /\ Phase(x.p, d.closed, h)
      BY <2>6, <2>8, <2>9
    <3>2. x.p.state = w.p.state
      BY <2>5, <2>9
    <3> HIDE DEF b, now
    <3>3. LET y == Closed(x, memory)
              n == y.p.state # x.p.state
              z == Shutting(d, n)
          IN  /\ y \in WorkSet /\ y.data = x.data /\ y.fin = x.fin /\ y.out = x.out
              /\ FlowOK(z) /\ Grown(d, z) /\ Snd(y.p, z) /\ SameGet(x.p, y.p)
              /\ StateOK(y.p, z.closed, h)
              /\ n => ~d.closed /\ y.p.state = IF x.p.state = "ESTABLISHED" THEN "FIN_WAIT_1" ELSE "LAST_ACK"
      BY <2>9, <3>1, ClosedKeeps
    <3> QED
      BY <2>4, <2>9, <3>2, <3>3 DEF b, now
  <2>11. Rcv(v.p, r)
    BY <2>7, <2>10 DEF Rcv, OoseqOK, SameGet
  <2>12. b.closed <=> d.closed \/ v.p.state = "LAST_ACK"
    <3>1. d.closed \in BOOLEAN /\ h
      BY <1>3, FlowFacts
    <3>2. CASE now
      <4>1. Shut(d).closed = TRUE /\ b = Shut(d)
        BY <2>10, <3>2, ShutIs DEF Shutting
      <4>2. v.p.state = "LAST_ACK"
        <5>1. w.p.state = "CLOSE_WAIT"
          BY <2>10, <3>1, <3>2 DEF StateOK, Phase
        <5> QED
          BY <2>10, <3>2, <5>1
      <4> QED
        BY <4>1, <4>2
    <3>3. CASE ~now
      <4>1. b = d
        BY <3>3 DEF Shutting
      <4>2. v.p.state = "LAST_ACK" => d.closed
        BY <2>10, <4>1 DEF StateOK, Phase
      <4> QED
        BY <3>1, <4>1, <4>2
    <3> QED
      BY <3>2, <3>3
  <2>13. /\ v.p.edge = w.p.edge /\ v.p.lastack = w.p.lastack
         /\ v.p.snd_wl1 = w.p.snd_wl1 /\ v.p.snd_wl2 = w.p.snd_wl2 /\ v.p.snd_nxt = w.p.snd_nxt
    BY <2>5, <2>10 DEF SameGet, SameSend
  <2> QED
    BY <2>9, <2>10, <2>11, <2>12, <2>13 DEF v
<1> QED
  BY <1>1, <1>2, <1>3

-----------------------------------------------------------------------------
(* The outcome of a call *)

\* What the program has been told: the next bytes of the stream, and its end after the last.
Heard(v, d, h) ==
  /\ Counts(v.data, Len(v.data), d.got)
  /\ v.data # <<>> \/ v.fin => ~h /\ d.got + Len(v.data) <= d.written
  /\ v.fin => d.closed /\ d.got + Len(v.data) = d.written

\* The block after a call is as the invariant has it; p is the block before.
Alive(p, v, d, r, b, t, h) ==
  /\ Snd(v.p, t) /\ Busy(v.p) /\ Rcv(v.p, b) /\ StateOK(v.p, t.closed, h \/ v.fin)
  /\ p.edge <= v.p.edge
  /\ \A s \in v.out : ~s.rst => s.ack + s.wnd <= v.p.edge
  /\ Quiet(p, r, d) /\ d.sent = d.first => Quiet(v.p, r, d)

\* What a call of one end leaves: d is the direction it receives and r the one it sends, b and
\* t are the same after the call.
Outcome(p, v, d, r, b, t, h) ==
  /\ v \in WorkSet /\ FlowOK(b) /\ FlowOK(t) /\ Grown(d, b) /\ Grown(r, t)
  /\ b.written = d.written /\ b.closed = d.closed /\ b.sent = d.sent /\ b.limit = d.limit
  /\ b.got = d.got + Len(v.data) + Bit(v.fin)
  /\ t.got = r.got /\ t.limit = r.limit
  /\ Heard(v, d, h)
  /\ \A s \in v.out : FrameOK(s, t, b)
  /\ (v.p = Gone /\ t.sent = EndOf(t)) \/ Alive(p, v, d, r, b, t, h)

\* The direction d when its writer has gone: nothing more is sent.
Ended(d) == [d EXCEPT !.sent = EndOf(d)]

\* The stream of a writer that has gone.
LEMMA EndedIs ==
  ASSUME NEW d, FlowOK(d)
  PROVE  LET b == Ended(d)
         IN  /\ FlowOK(b) /\ Grown(d, b) /\ b.sent = EndOf(b)
             /\ b.first = d.first /\ b.written = d.written /\ b.closed = d.closed
             /\ b.got = d.got /\ b.limit = d.limit
<1> DEFINE b == Ended(d)
           z == EndOf(d)
<1>1. /\ z \in Nat /\ d.sent <= z /\ d.first + d.got <= d.sent
      /\ d.first \in Nat /\ d.got \in Nat /\ d.sent \in Nat /\ d.written \in Nat /\ d.limit \in Nat
  BY FlowFacts
<1> HIDE DEF z
<1>2. b = [d EXCEPT !.sent = z]
  BY DEF Ended, z
<1> HIDE DEF b
<1>3. /\ b \in Direction /\ b.sent = z
      /\ b.first = d.first /\ b.written = d.written /\ b.closed = d.closed
      /\ b.got = d.got /\ b.limit = d.limit
  BY <1>1, <1>2 DEF FlowOK, Direction
<1>4. EndOf(b) = z
  BY <1>3 DEF EndOf, z
<1>5. d.first + d.got <= z
  <2> DEFINE x == d.first + d.got
             s == d.sent
  <2>1. x \in Nat /\ s \in Nat /\ x <= s /\ s <= z
    BY <1>1
  <2> HIDE DEF x, s
  <2>2. x <= z
    BY ONLY <1>1, <2>1
  <2> QED
    BY <2>2 DEF x
<1>6. FlowOK(b)
  <2>1. b.first + b.got <= b.sent /\ b.sent <= EndOf(b)
    BY <1>1, <1>3, <1>4, <1>5
  <2>2. /\ d.limit <= d.first + d.got + Wnd /\ d.first + d.written + 2 * Wnd + 2 <= Half
    BY DEF FlowOK
  <2> QED
    BY <1>3, <2>1, <2>2 DEF FlowOK
<1>7. Grown(d, b)
  BY <1>1, <1>3 DEF Grown
<1> QED
  BY <1>3, <1>4, <1>6, <1>7 DEF b

\* A call that passes nothing up tells the program nothing.
LEMMA NothingHeard ==
  ASSUME NEW v, NEW d, FlowOK(d), NEW h, v.data = <<>>, v.fin = FALSE
  PROVE  Heard(v, d, h) /\ d.got + Len(v.data) + Bit(v.fin) = d.got
<1>1. Counts(<<>>, 0, d.got) /\ Len(<<>>) = 0 /\ Bit(FALSE) = 0
  BY DEF Counts, Bit
<1>2. d.got \in Nat
  BY FlowFacts
<1>3. Len(v.data) = 0 /\ Bit(v.fin) = 0 /\ Counts(v.data, Len(v.data), d.got)
  BY <1>1
<1>4. d.got + 0 + 0 = d.got
  BY <1>2
<1>5. Heard(v, d, h)
  BY <1>3 DEF Heard
<1> QED
  BY <1>3, <1>4, <1>5

\* A block that goes, with the frames it still sends.
LEMMA GoneKeeps ==
  ASSUME NEW d, FlowOK(d), NEW r, FlowOK(r), NEW p, NEW h, NEW v \in WorkSet,
         v.p = Gone, v.data = <<>>, v.fin = FALSE,
         \A s \in v.out : FrameOK(s, r, d)
  PROVE  Outcome(p, v, d, r, d, Ended(r), h)
<1> DEFINE t == Ended(r)
<1>1. /\ FlowOK(t) /\ Grown(r, t) /\ t.sent = EndOf(t) /\ t.closed = r.closed
      /\ t.got = r.got /\ t.limit = r.limit
  BY EndedIs
<1>2. Grown(d, d)
  BY SameFlow
<1>3. Heard(v, d, h) /\ d.got = d.got + Len(v.data) + Bit(v.fin)
  BY NothingHeard
<1> HIDE DEF t
<1>4. \A s \in v.out : FrameOK(s, t, d)
  <2> SUFFICES ASSUME NEW s \in v.out PROVE FrameOK(s, t, d)
    OBVIOUS
  <2>1. s \in Frame
    BY FramesIs DEF WorkSet
  <2> QED
    BY <1>1, <1>2, <2>1, GrownFrame
<1>5. Outcome(p, v, d, r, d, t, h)
  BY <1>1, <1>2, <1>3, <1>4 DEF Outcome
<1> QED
  BY <1>5 DEF t

\* The freed block is a value of a block.
LEMMA GoneBlock == Gone \in Block /\ Gone.state = "CLOSED" /\ Work(Gone) \in WorkSet
<1>1. Gone \in Block
  BY DEF Gone, Block, States
<1>2. Gone.state = "CLOSED"
  BY DEF Gone
<1>3. Work(Gone) \in WorkSet
  BY <1>1, WorkIs
<1> QED
  BY <1>1, <1>2, <1>3

\* A reset that this end sends.
LEMMA ResetFrame ==
  ASSUME NEW a \in Nat, NEW n \in Nat, NEW d, NEW r
  PROVE  Reset(a, n) \in Frame /\ FrameOK(Reset(a, n), d, r) /\ Reset(a, n).rst
<1>1. Wnd \in Nat
  BY SizeFacts
<1> QED
  BY <1>1 DEF Reset, Frame, FrameOK

\* tcp_abandon.
LEMMA AbortKeeps ==
  ASSUME NEW d, FlowOK(d), NEW r, FlowOK(r), NEW p, NEW h, NEW w \in WorkSet,
         \A s \in w.out : FrameOK(s, r, d)
  PROVE  Outcome(p, Abort(w), d, r, d, Ended(r), h) /\ Abort(w).p = Gone
<1> DEFINE v == Abort(w)
           a == w.p.snd_nxt
           n == w.p.rcv_nxt
           o == IF w.p.state = "TIME_WAIT" THEN w.out ELSE w.out \cup {Reset(a, n)}
<1>1. a \in Nat /\ n \in Nat
  BY DEF WorkSet, Block
<1>2. v = [w EXCEPT !.p = Gone, !.data = <<>>, !.fin = FALSE, !.now = FALSE, !.out = o]
  BY DEF Abort
<1>3. Reset(a, n) \in Frame /\ FrameOK(Reset(a, n), r, d)
  BY <1>1, ResetFrame
<1>4. o \in Frames /\ \A s \in o : FrameOK(s, r, d)
  BY <1>3, FramesIs DEF WorkSet
<1> HIDE DEF v, o
<1>5. Gone \in Block /\ <<>> \in Seq(Nat)
  BY GoneBlock
<1>6. v \in WorkSet /\ v.p = Gone /\ v.data = <<>> /\ v.fin = FALSE /\ v.out = o
  BY <1>2, <1>4, <1>5 DEF WorkSet
<1>7. Outcome(p, v, d, r, d, Ended(r), h)
  BY <1>4, <1>6, GoneKeeps
<1> QED
  BY <1>6, <1>7 DEF v

\* What the program does with the data and the end of the stream, and what is sent then.
LEMMA TakenUpKeeps ==
  ASSUME NEW d, FlowOK(d), NEW r, FlowOK(r), NEW p \in Block, NEW h \in BOOLEAN, NEW w \in WorkSet,
         Handling(p, w, d, r, r.closed, h), Phase(w.p, r.closed, h \/ w.fin),
         h => w.p.rxclosed, NEW memory
  PROVE  LET v == Output(FinSeen(Recved(w), memory))
         IN  \E b, t : /\ Outcome(p, v, d, r, b, t, h) /\ t.written = r.written
                       /\ t.closed <=> r.closed \/ v.p.state = "LAST_ACK"
<1> DEFINE u == Recved(w)
           x == FinSeen(u, memory)
           v == Output(x)
           b == Passed(d, Len(w.data), w.fin)
           now == x.p.state # u.p.state
           a == Shutting(r, now)
           t == [a EXCEPT !.sent = v.p.snd_nxt]
           hh == h \/ w.fin
<1>1. /\ FramesOK(w, r, d)
      /\ Got(w.p, d, Len(w.data), w.fin) /\ Counts(w.data, Len(w.data), d.got)
      /\ p.edge <= w.p.edge
      /\ Quiet(p, r, d) /\ d.sent = d.first => Quiet(w.p, r, d)
      /\ w.data # <<>> \/ w.fin => ~h
      /\ Snd(w.p, r)
  BY DEF Handling
<1>2. w.p \in Block /\ Len(w.data) \in Nat /\ w.fin \in BOOLEAN /\ (w.data = <<>> <=> Len(w.data) = 0)
  BY DEF WorkSet
<1>3. /\ FlowOK(b) /\ Grown(d, b)
      /\ b.written = d.written /\ b.closed = d.closed /\ b.sent = d.sent
      /\ b.limit = d.limit /\ b.got = d.got + Len(w.data) + Bit(w.fin)
  BY <1>1, <1>2, PassedIs
<1>4. /\ u \in WorkSet /\ u.data = w.data /\ u.fin = w.fin /\ u.out = w.out
      /\ SameSend(w.p, u.p) /\ u.p.state = w.p.state
      /\ RcvFin(u.p, b, w.fin)
  BY <1>1, RecvedKeeps
<1> HIDE DEF u, b
<1>5. Snd(u.p, r)
  BY <1>1, <1>4, SndSame
<1>6. Phase(u.p, r.closed, hh) /\ hh \in BOOLEAN /\ (u.fin => hh) /\ (hh => u.fin \/ u.p.rxclosed)
  BY <1>2, <1>4 DEF StateOK, Phase, SameSend
<1> HIDE DEF hh
<1>7. /\ x \in WorkSet /\ x.data = u.data /\ x.fin = u.fin /\ x.out = u.out
      /\ FlowOK(a) /\ Grown(r, a) /\ Snd(x.p, a) /\ Rcv(x.p, b)
      /\ StateOK(x.p, a.closed, hh) /\ (a.closed <=> r.closed \/ x.p.state = "LAST_ACK")
      /\ x.p.edge = u.p.edge /\ x.p.lastack = u.p.lastack
      /\ x.p.snd_wl1 = u.p.snd_wl1 /\ x.p.snd_wl2 = u.p.snd_wl2 /\ x.p.snd_nxt = u.p.snd_nxt
      /\ now => ~r.closed
  <2>1. RcvFin(u.p, b, u.fin)
    BY <1>4
  <2> QED
    BY <1>3, <1>4, <1>5, <1>6, <2>1, FinSeenKeeps
<1>8. a.written = r.written /\ a.got = r.got /\ a.limit = r.limit /\ a.first = r.first
  <2>1. ~r.closed => a.written = r.written /\ a.got = r.got /\ a.limit = r.limit /\ a.first = r.first
    BY ShutIs DEF Shutting
  <2>2. r.closed => ~now
    BY <1>7
  <2>3. r.closed \in BOOLEAN
    BY FlowFacts
  <2> QED
    BY <2>1, <2>2, <2>3 DEF Shutting
<1>9. FramesOK(x, a, b)
  <2>1. w.p.edge <= x.p.edge
    <3>1. x.p.edge = w.p.edge /\ w.p.edge \in Nat
      BY <1>2, <1>4, <1>7 DEF SameSend, Block
    <3> QED
      BY <3>1
  <2>2. \A s \in x.out : s \in w.out
    BY <1>4, <1>7
  <2> HIDE DEF x, a
  <2> QED
    BY <1>1, <1>3, <1>7, <2>1, <2>2, FramesMore
<1> HIDE DEF x, a, now
<1>10. /\ v \in WorkSet /\ FlowOK(t) /\ Grown(a, t)
       /\ Snd(v.p, t) /\ Busy(v.p) /\ Rcv(v.p, b) /\ FramesOK(v, t, b) /\ Kept(x, v)
  BY <1>3, <1>7, <1>9, OutputKeeps
<1>11. t.written = a.written /\ t.closed = a.closed /\ t.got = a.got /\ t.limit = a.limit
  BY <1>7 DEF FlowOK, Direction
<1> HIDE DEF v, t
<1>12. /\ v.data = w.data /\ v.fin = w.fin
       /\ v.p.state = x.p.state /\ v.p.rxclosed = x.p.rxclosed
       /\ v.p.lastack = w.p.lastack /\ v.p.snd_wl1 = w.p.snd_wl1 /\ v.p.snd_wl2 = w.p.snd_wl2
       /\ x.p.edge = w.p.edge /\ x.p.edge <= v.p.edge
  BY <1>4, <1>7, <1>10 DEF Kept, SameSend
<1>13. Grown(r, t)
  <2>1. Grown(r, a) /\ Grown(a, t)
    BY <1>7, <1>10
  <2>2. FlowOK(r) /\ FlowOK(a) /\ FlowOK(t)
    BY <1>7, <1>10
  <2>3. r.sent <= t.sent
    <3> DEFINE i == r.sent
               j == a.sent
               k == t.sent
    <3>1. i \in Nat /\ j \in Nat /\ k \in Nat /\ i <= j /\ j <= k
      BY <2>1, <2>2, FlowFacts DEF Grown
    <3> HIDE DEF i, j, k
    <3>2. i <= k
      BY ONLY <3>1
    <3> QED
      BY <3>2 DEF i, k
  <2>4. r.got \in Nat /\ r.limit \in Nat /\ r.written \in Nat
    BY <2>2, FlowFacts
  <2> QED
    BY <1>8, <1>11, <2>1, <2>3, <2>4 DEF Grown
<1>14. StateOK(v.p, t.closed, h \/ v.fin)
  BY <1>7, <1>11, <1>12 DEF StateOK, Phase, hh
<1>15. p.edge <= v.p.edge
  <2> DEFINE i == p.edge
             j == x.p.edge
             k == v.p.edge
  <2>1. i \in Nat /\ j \in Nat /\ k \in Nat /\ i <= j /\ j <= k
    BY <1>1, <1>7, <1>10, <1>12 DEF WorkSet, Block
  <2> HIDE DEF i, j, k
  <2>2. i <= k
    BY ONLY <2>1
  <2> QED
    BY <2>2 DEF i, k
<1>16. Quiet(p, r, d) /\ d.sent = d.first => Quiet(v.p, r, d)
  BY <1>1, <1>12 DEF Quiet
<1>17. \A s \in v.out : FrameOK(s, t, b) /\ (~s.rst => s.ack + s.wnd <= v.p.edge)
  BY <1>10 DEF FramesOK
<1>18. Alive(p, v, d, r, b, t, h)
  BY <1>10, <1>14, <1>15, <1>16, <1>17 DEF Alive
<1>19. Heard(v, d, h)
  <2>1. Len(w.data) > 0 <=> w.data # <<>>
    BY <1>2
  <2> QED
    BY <1>1, <1>2, <1>12, <2>1 DEF Heard, Got
<1>20. Outcome(p, v, d, r, b, t, h)
  BY <1>3, <1>8, <1>10, <1>11, <1>12, <1>13, <1>17, <1>18, <1>19 DEF Outcome
<1>21. t.written = r.written /\ (t.closed <=> r.closed \/ v.p.state = "LAST_ACK")
  BY <1>7, <1>8, <1>11, <1>12
<1> QED
  BY <1>20, <1>21 DEF v, x, u

\* Growing is transitive.
LEMMA GrownTwice ==
  ASSUME NEW a, FlowOK(a), NEW b, FlowOK(b), NEW c, FlowOK(c), Grown(a, b), Grown(b, c)
  PROVE  Grown(a, c)
<1> DEFINE w1 == a.written
           w2 == b.written
           w3 == c.written
           s1 == a.sent
           s2 == b.sent
           s3 == c.sent
           g1 == a.got
           g2 == b.got
           g3 == c.got
           l1 == a.limit
           l2 == b.limit
           l3 == c.limit
<1>1. /\ w1 \in Nat /\ s1 \in Nat /\ g1 \in Nat /\ l1 \in Nat
      /\ w2 \in Nat /\ s2 \in Nat /\ g2 \in Nat /\ l2 \in Nat
      /\ w3 \in Nat /\ s3 \in Nat /\ g3 \in Nat /\ l3 \in Nat
  BY FlowFacts
<1>2. /\ w1 <= w2 /\ w2 <= w3 /\ s1 <= s2 /\ s2 <= s3 /\ g1 <= g2 /\ g2 <= g3 /\ l1 <= l2 /\ l2 <= l3
      /\ a.closed => b.closed /\ b.written = a.written
      /\ b.closed => c.closed /\ c.written = b.written
      /\ b.first = a.first /\ c.first = b.first
  BY DEF Grown
<1>3. w1 <= w3 /\ s1 <= s3 /\ g1 <= g3 /\ l1 <= l3
  <2> HIDE DEF w1, w2, w3, s1, s2, s3, g1, g2, g3, l1, l2, l3
  <2> QED
    BY ONLY <1>1, <1>2
<1> QED
  BY <1>2, <1>3 DEF Grown

\* A call after which the block is w.p and that passes nothing up.
LEMMA StillKeeps ==
  ASSUME NEW d, FlowOK(d), NEW r, FlowOK(r), NEW t, FlowOK(t), Grown(r, t), t.got = r.got, t.limit = r.limit,
         NEW p, NEW h \in BOOLEAN, NEW w \in WorkSet, w.data = <<>>, w.fin = FALSE,
         Snd(w.p, t), Busy(w.p), Rcv(w.p, d), FramesOK(w, t, d), StateOK(w.p, t.closed, h),
         p.edge <= w.p.edge, Quiet(p, r, d) /\ d.sent = d.first => Quiet(w.p, r, d)
  PROVE  Outcome(p, w, d, r, d, t, h)
<1>1. Grown(d, d)
  BY SameFlow
<1>2. Heard(w, d, h) /\ d.got = d.got + Len(w.data) + Bit(w.fin)
  BY NothingHeard
<1>3. StateOK(w.p, t.closed, h \/ w.fin)
  <2>1. (h \/ w.fin) = h
    OBVIOUS
  <2> QED
    BY <2>1
<1>4. \A s \in w.out : FrameOK(s, t, d) /\ (~s.rst => s.ack + s.wnd <= w.p.edge)
  BY DEF FramesOK
<1>5. Alive(p, w, d, r, d, t, h)
  BY <1>3, <1>4 DEF Alive
<1> QED
  BY <1>1, <1>2, <1>4, <1>5 DEF Outcome

\* A call that passes nothing up, after which as much is written and closed as in a.
Leaves(p, v, d, r, a, h) ==
  \E t : Outcome(p, v, d, r, d, t, h) /\ t.written = a.written /\ t.closed = a.closed

\* A call that ends with tcp_output and passes nothing up.
LEMMA SentKeeps ==
  ASSUME NEW d, FlowOK(d), NEW r, FlowOK(r), NEW a, FlowOK(a), Grown(r, a), a.got = r.got, a.limit = r.limit,
         NEW p \in Block, NEW h \in BOOLEAN, NEW w \in WorkSet, w.data = <<>>, w.fin = FALSE,
         Snd(w.p, a), Rcv(w.p, d), FramesOK(w, a, d), StateOK(w.p, a.closed, h),
         p.edge <= w.p.edge, Quiet(p, r, d) /\ d.sent = d.first => Quiet(w.p, r, d)
  PROVE  LET v == Output(w)
         IN  Leaves(p, v, d, r, a, h) /\ v.p.state = w.p.state
<1> DEFINE v == Output(w)
           t == [a EXCEPT !.sent = v.p.snd_nxt]
<1>1. /\ v \in WorkSet /\ FlowOK(t) /\ Grown(a, t)
      /\ Snd(v.p, t) /\ Busy(v.p) /\ Rcv(v.p, d) /\ FramesOK(v, t, d) /\ Kept(w, v)
  BY OutputKeeps
<1>2. t.written = a.written /\ t.closed = a.closed /\ t.got = a.got /\ t.limit = a.limit
  BY DEF FlowOK, Direction
<1> HIDE DEF v, t
<1>3. Grown(r, t)
  BY <1>1, GrownTwice
<1>4. v.data = <<>> /\ v.fin = FALSE /\ v.p.state = w.p.state /\ v.p.rxclosed = w.p.rxclosed
      /\ v.p.lastack = w.p.lastack /\ v.p.snd_wl1 = w.p.snd_wl1 /\ v.p.snd_wl2 = w.p.snd_wl2 /\ w.p.edge <= v.p.edge
  BY <1>1 DEF Kept
<1>5. StateOK(v.p, t.closed, h)
  BY <1>2, <1>4 DEF StateOK, Phase
<1>6. p.edge <= v.p.edge
  <2> DEFINE i == p.edge
             j == w.p.edge
             k == v.p.edge
  <2>1. i \in Nat /\ j \in Nat /\ k \in Nat /\ i <= j /\ j <= k
    BY <1>1, <1>4 DEF WorkSet, Block
  <2> HIDE DEF i, j, k
  <2>2. i <= k
    BY ONLY <2>1
  <2> QED
    BY <2>2 DEF i, k
<1>7. Quiet(p, r, d) /\ d.sent = d.first => Quiet(v.p, r, d)
  BY <1>4 DEF Quiet
<1>8. Outcome(p, v, d, r, d, t, h)
  BY <1>1, <1>2, <1>3, <1>4, <1>5, <1>6, <1>7, StillKeeps
<1> QED
  BY <1>2, <1>4, <1>8 DEF v, Leaves

\* tcp_input for a frame that is no reset.
LEMMA InputKeeps ==
  ASSUME NEW d, FlowOK(d), NEW r, FlowOK(r), NEW p \in Block, NEW h \in BOOLEAN,
         Snd(p, r), Rcv(p, d), StateOK(p, r.closed, h), p.state # "TIME_WAIT",
         NEW m \in Frame, ~m.rst, FrameOK(m, d, r), EdgeKnown(p, r, d, m), NEW memory
  PROVE  LET v == Input(p, m, memory)
         IN  \E b, t : /\ Outcome(p, v, d, r, b, t, h) /\ t.written = r.written
                       /\ t.closed <=> r.closed \/ v.p.state = "LAST_ACK"
<1> DEFINE w == Process(Work(p), m, memory)
           v == Input(p, m, memory)
<1>1. r.closed \in BOOLEAN
  BY FlowFacts
<1>2. /\ Handling(p, w, d, r, r.closed, h)
      /\ w.p.state = "CLOSED" => w.data = <<>> /\ w.fin = FALSE
      /\ w.p.state # "CLOSED" => Phase(w.p, r.closed, h \/ w.fin)
  BY <1>1, ProcessKeeps
<1>3. v = PassedUp(w, memory)
  BY DEF Input
<1> HIDE DEF w, v
<1>4. w \in WorkSet /\ \A s \in w.out : FrameOK(s, r, d)
  BY <1>2 DEF Handling, FramesOK
<1>5. Ended(r).written = r.written /\ Ended(r).closed = r.closed
  BY EndedIs
<1>6. Gone.state = "CLOSED"
  BY GoneBlock
<1>7. CASE w.p.state = "CLOSED"
  <2>1. v = [Work(Gone) EXCEPT !.out = w.out]
    BY <1>3, <1>7 DEF PassedUp
  <2>2. Work(Gone) \in WorkSet /\ Work(Gone).p = Gone /\ Work(Gone).data = <<>> /\ Work(Gone).fin = FALSE
    BY GoneBlock, WorkIs
  <2>3. v \in WorkSet /\ v.p = Gone /\ v.data = <<>> /\ v.fin = FALSE /\ v.out = w.out
    BY <1>4, <2>1, <2>2 DEF WorkSet
  <2>4. Outcome(p, v, d, r, d, Ended(r), h)
    BY <1>4, <2>3, GoneKeeps
  <2> QED
    BY <1>5, <1>6, <2>3, <2>4 DEF v
<1>8. CASE w.p.state # "CLOSED" /\ w.data # <<>> /\ w.p.rxclosed
  <2>1. v = Abort(w)
    BY <1>3, <1>8 DEF PassedUp
  <2>2. Outcome(p, v, d, r, d, Ended(r), h) /\ v.p = Gone
    BY <1>4, <2>1, AbortKeeps
  <2> QED
    BY <1>5, <1>6, <2>2 DEF v
<1>9. CASE w.p.state # "CLOSED" /\ ~(w.data # <<>> /\ w.p.rxclosed)
  <2>1. v = Output(FinSeen(Recved(w), memory))
    BY <1>3, <1>9 DEF PassedUp
  <2>2. Phase(w.p, r.closed, h \/ w.fin) /\ (h => w.p.rxclosed)
    BY <1>2, <1>9 DEF Handling, StateOK
  <2>3. LET o == Output(FinSeen(Recved(w), memory))
         IN  \E b, t : /\ Outcome(p, o, d, r, b, t, h) /\ t.written = r.written
                       /\ t.closed <=> r.closed \/ o.p.state = "LAST_ACK"
    BY <1>2, <1>4, <2>2, TakenUpKeeps
  <2> QED
    BY <2>1, <2>3 DEF v
<1> QED
  BY <1>7, <1>8, <1>9

\* An end between two calls.
Rest(p, d, r, h) ==
  p = Gone \/ (Snd(p, r) /\ Busy(p) /\ Rcv(p, d) /\ StateOK(p, r.closed, h))

\* A call that changes nothing and sends nothing.
LEMMA NothingKeeps ==
  ASSUME NEW d, FlowOK(d), NEW r, FlowOK(r), NEW p \in Block, NEW h \in BOOLEAN, p # Gone, Rest(p, d, r, h)
  PROVE  Outcome(p, Work(p), d, r, d, r, h)
<1> DEFINE w == Work(p)
<1>1. w \in WorkSet /\ w.p = p /\ w.data = <<>> /\ w.fin = FALSE /\ FramesOK(w, r, d)
  BY WorkIs
<1> HIDE DEF w
<1>2. Snd(p, r) /\ Busy(p) /\ Rcv(p, d) /\ StateOK(p, r.closed, h)
  BY DEF Rest
<1>3. p.edge <= p.edge
  BY DEF Block
<1>4. Grown(r, r)
  BY SameFlow
<1>5. Outcome(p, w, d, r, d, r, h)
  BY <1>1, <1>2, <1>3, <1>4, StillKeeps
<1> QED
  BY <1>5 DEF w

\* A call after which the block has gone, without a frame.
LEMMA RemovedKeeps ==
  ASSUME NEW d, FlowOK(d), NEW r, FlowOK(r), NEW p, NEW h
  PROVE  Outcome(p, Work(Gone), d, r, d, Ended(r), h)
<1>1. Gone \in Block
  BY GoneBlock
<1> DEFINE w == Work(Gone)
<1>2. w \in WorkSet /\ w.p = Gone /\ w.data = <<>> /\ w.fin = FALSE /\ w.out = {}
  BY <1>1, WorkIs
<1> HIDE DEF w
<1>3. Outcome(p, w, d, r, d, Ended(r), h)
  BY <1>2, GoneKeeps
<1> QED
  BY <1>3 DEF w

\* tcp_input for an end that is closed.
LEMMA ClosedAnswers ==
  ASSUME NEW d, FlowOK(d), NEW r, FlowOK(r), NEW h, NEW m \in Frame, NEW memory
  PROVE  LET v == Answer(Gone, m, memory)
         IN  Outcome(Gone, v, d, r, d, Ended(r), h) /\ v.p = Gone
<1> DEFINE v == Answer(Gone, m, memory)
           a == m.ack
           n == End(m)
<1>1. Gone \in Block /\ Gone.state = "CLOSED"
  BY GoneBlock
<1>2. CASE m.rst
  <2>1. v = Work(Gone)
    BY <1>1, <1>2 DEF Answer
  <2>2. Work(Gone).p = Gone
    BY <1>1, WorkIs
  <2> QED
    BY <2>1, <2>2, RemovedKeeps
<1>3. CASE ~m.rst
  <2>1. v = [Work(Gone) EXCEPT !.out = {Reset(a, n)}]
    BY <1>1, <1>3 DEF Answer
  <2>2. a \in Nat /\ n \in Nat
    <3>1. m.seq \in Nat /\ m.len \in Nat /\ m.ack \in Nat /\ TcpLen(m) \in Nat
      BY DEF Frame, TcpLen
    <3>2. (m.seq + TcpLen(m)) % SeqSpace \in Nat
      <4>1. m.seq + TcpLen(m) \in Nat /\ SeqSpace \in Nat /\ SeqSpace > 0
        BY <3>1, SizeFacts
      <4> DEFINE x == m.seq + TcpLen(m)
      <4> HIDE DEF x
      <4> QED
        BY <4>1
    <3> QED
      BY <3>1, <3>2 DEF End, Add
  <2> HIDE DEF v, a, n
  <2>3. Reset(a, n) \in Frame /\ FrameOK(Reset(a, n), r, d)
    BY <2>2, ResetFrame
  <2>4. Work(Gone) \in WorkSet /\ Work(Gone).p = Gone /\ Work(Gone).data = <<>> /\ Work(Gone).fin = FALSE
    BY <1>1, WorkIs
  <2>7. {Reset(a, n)} \in Frames
    <3>1. {} \cup {Reset(a, n)} = {Reset(a, n)}
      OBVIOUS
    <3> QED
      BY <2>3, <3>1, FramesIs
  <2>5. v \in WorkSet /\ v.p = Gone /\ v.data = <<>> /\ v.fin = FALSE /\ v.out = {Reset(a, n)}
    BY <2>1, <2>4, <2>7 DEF WorkSet
  <2>6. Outcome(Gone, v, d, r, d, Ended(r), h)
    BY <2>3, <2>5, GoneKeeps
  <2> QED
    BY <2>5, <2>6 DEF v
<1> QED
  BY <1>2, <1>3

\* tcp_output outside of any event.
LEMMA PlainOutput ==
  ASSUME NEW d, FlowOK(d), NEW r, FlowOK(r), NEW p \in Block, NEW h \in BOOLEAN, p # Gone, Rest(p, d, r, h),
         NEW now \in BOOLEAN
  PROVE  LET v == Output([Work(p) EXCEPT !.now = now])
         IN  Leaves(p, v, d, r, r, h) /\ v.p.state = p.state
<1> DEFINE w == [Work(p) EXCEPT !.now = now]
<1>1. Work(p) \in WorkSet /\ Work(p).p = p /\ Work(p).data = <<>> /\ Work(p).fin = FALSE /\ Work(p).out = {}
  BY WorkIs
<1>2. w \in WorkSet /\ w.p = p /\ w.data = <<>> /\ w.fin = FALSE /\ w.out = {}
  BY <1>1 DEF WorkSet
<1> HIDE DEF w
<1>3. Snd(p, r) /\ Busy(p) /\ Rcv(p, d) /\ StateOK(p, r.closed, h) /\ p.edge <= p.edge
  BY DEF Rest, Block
<1>4. FramesOK(w, r, d)
  BY <1>2 DEF FramesOK
<1>5. Grown(r, r)
  BY SameFlow
<1> DEFINE v == Output(w)
<1>6. v = Output(w)
  OBVIOUS
<1> HIDE DEF v
<1>7. /\ Snd(w.p, r) /\ Rcv(w.p, d) /\ StateOK(w.p, r.closed, h) /\ p.edge <= w.p.edge
      /\ Quiet(p, r, d) /\ d.sent = d.first => Quiet(w.p, r, d)
  BY <1>2, <1>3
<1>8. Leaves(p, v, d, r, r, h) /\ v.p.state = w.p.state
  <2>1. w \in WorkSet /\ w.data = <<>> /\ w.fin = FALSE
    BY <1>2
  <2>2. Leaves(p, v, d, r, r, h)
    BY <1>4, <1>5, <1>6, <1>7, <2>1, SentKeeps
  <2>3. v.p.state = w.p.state
    BY <1>4, <1>5, <1>6, <1>7, <2>1, SentKeeps
  <2> QED
    BY <2>2, <2>3
<1>9. v.p.state = p.state
  BY <1>2, <1>8
<1> QED
  BY <1>8, <1>9 DEF v, w

\* tcp_input.
LEMMA AnswerKeeps ==
  ASSUME NEW d, FlowOK(d), NEW r, FlowOK(r), NEW p \in Block, NEW h \in BOOLEAN, Rest(p, d, r, h),
         NEW m \in Frame, FrameOK(m, d, r), p # Gone /\ ~m.rst => EdgeKnown(p, r, d, m), NEW memory
  PROVE  LET v == Answer(p, m, memory)
         IN  /\ p = Gone => v.p = Gone
             /\ \E b, t : /\ Outcome(p, v, d, r, b, t, h) /\ t.written = r.written
                          /\ t.closed <=> r.closed \/ v.p.state = "LAST_ACK"
<1> DEFINE v == Answer(p, m, memory)
<1>1. Gone.state = "CLOSED" /\ r.closed \in BOOLEAN
  BY GoneBlock, FlowFacts
<1>2. Ended(r).written = r.written /\ Ended(r).closed = r.closed
  BY EndedIs
<1>3. CASE p = Gone
  <2>1. Outcome(p, v, d, r, d, Ended(r), h) /\ v.p = Gone
    BY <1>3, ClosedAnswers
  <2> HIDE DEF v
  <2> QED
    BY <1>1, <1>2, <2>1 DEF v
<1>4. CASE p # Gone
  <2>1. Snd(p, r) /\ Busy(p) /\ Rcv(p, d) /\ StateOK(p, r.closed, h)
    BY <1>4 DEF Rest
  <2>2. p.state # "CLOSED"
    BY <2>1 DEF StateOK, Phase
  <2>3. p.state = "LAST_ACK" => r.closed
    BY <2>1 DEF StateOK, Phase
  <2> SUFFICES \E b, t : /\ Outcome(p, v, d, r, b, t, h) /\ t.written = r.written
                         /\ t.closed <=> r.closed \/ v.p.state = "LAST_ACK"
    BY <1>4
  <2>4. CASE v = Work(p)
    <3>1. Outcome(p, v, d, r, d, r, h)
      BY <1>4, <2>4, NothingKeeps
    <3>2. v.p = p
      BY <2>4, WorkIs
    <3> HIDE DEF v
    <3> QED
      BY <1>1, <2>3, <3>1, <3>2
  <2>5. CASE \E now \in BOOLEAN : v = Output([Work(p) EXCEPT !.now = now])
    <3>1. PICK now \in BOOLEAN : v = Output([Work(p) EXCEPT !.now = now])
      BY <2>5
    <3> HIDE DEF v
    <3>2. Leaves(p, v, d, r, r, h) /\ v.p.state = p.state
      BY <1>4, <3>1, PlainOutput
    <3> QED
      BY <1>1, <2>3, <3>2 DEF Leaves
  <2>6. CASE v = Work(Gone)
    <3>1. Outcome(p, v, d, r, d, Ended(r), h)
      BY <2>6, RemovedKeeps
    <3>2. v.p = Gone
      BY <2>6, GoneBlock, WorkIs
    <3> HIDE DEF v
    <3> QED
      BY <1>1, <1>2, <3>1, <3>2
  <2>7. CASE p.state = "TIME_WAIT"
    <3>1. v = TimewaitInput(p, m)
      BY <2>7 DEF Answer
    <3>2. v = Work(p) \/ v = Output([Work(p) EXCEPT !.now = TRUE])
      BY <3>1 DEF TimewaitInput
    <3> HIDE DEF v
    <3> QED
      BY <2>4, <2>5, <3>2
  <2>8. CASE p.state # "TIME_WAIT" /\ m.rst
    <3>1. v = Work(Gone) \/ v = Output(Work(p))
      BY <2>2, <2>8 DEF Answer
    <3>2. Work(p) = [Work(p) EXCEPT !.now = FALSE]
      <4> DEFINE w == Work(p)
      <4>1. w \in WorkSet /\ w.now = FALSE
        BY WorkIs DEF Work
      <4> HIDE DEF w
      <4>2. w = [w EXCEPT !.now = FALSE]
        BY <4>1 DEF WorkSet
      <4> QED
        BY <4>2 DEF w
    <3> HIDE DEF v
    <3>3. CASE v = Work(Gone)
      BY <2>6, <3>3
    <3>4. CASE v = Output(Work(p))
      <4>1. v = Output([Work(p) EXCEPT !.now = FALSE])
        BY <3>2, <3>4
      <4> QED
        BY <2>5, <4>1
    <3> QED
      BY <3>1, <3>3, <3>4
  <2>9. CASE p.state # "TIME_WAIT" /\ ~m.rst
    <3>1. v = Input(p, m, memory)
      BY <2>2, <2>9 DEF Answer
    <3>2. EdgeKnown(p, r, d, m)
      BY <1>4, <2>9
    <3>3. LET o == Input(p, m, memory)
          IN  \E b, t : /\ Outcome(p, o, d, r, b, t, h) /\ t.written = r.written
                        /\ t.closed <=> r.closed \/ o.p.state = "LAST_ACK"
      BY <2>1, <2>9, <3>2, InputKeeps
    <3> QED
      BY <3>1, <3>3
  <2> QED
    BY <2>7, <2>8, <2>9
<1> QED
  BY <1>3, <1>4

-----------------------------------------------------------------------------
(* The retransmission timer *)

\* Multiplication by a natural number keeps the order.
LEMMA TimesGrows ==
  ASSUME NEW a \in Int, NEW b \in Int, NEW c \in Nat, a <= b
  PROVE  a * c <= b * c
OBVIOUS

\* The quotient and its remainder.
LEMMA Quotient ==
  ASSUME NEW y \in Nat, NEW c \in Nat, c >= 1
  PROVE  y \div c \in Nat /\ (y \div c) * c <= y /\ y < (y \div c + 1) * c
OBVIOUS

\* How many segments of at most c bytes hold x bytes.
LEMMA Ceiling ==
  ASSUME NEW x \in Nat, NEW c \in Nat, c >= 1
  PROVE  LET k == (x + c - 1) \div c
         IN  /\ k \in Nat /\ (k = 0 <=> x = 0)
             /\ \A i \in 1 .. k : (i - 1) * c < x /\ (i < k => i * c < x)
             /\ k > 0 => x <= (k - 1) * c + c
<1> DEFINE y == x + c - 1
           k == y \div c
<1>1. y \in Nat /\ y = x + c - 1
  OBVIOUS
<1> HIDE DEF y
<1>2. k \in Nat /\ k * c <= y /\ y < (k + 1) * c
  BY <1>1, Quotient
<1> HIDE DEF k
<1>3. (k + 1) * c = k * c + c /\ (k - 1) * c = k * c - c
  BY <1>2
<1>4. k * c \in Nat
  BY <1>2
<1> DEFINE z == k * c
<1>5. z \in Nat /\ z <= y /\ y < z + c /\ (k - 1) * c = z - c
  BY <1>2, <1>3, <1>4
<1>6. k = 0 => z = 0
  BY <1>2
<1>7. k > 0 => z >= c
  BY <1>2, TimesGrows
<1> HIDE DEF z
<1>8. k = 0 <=> x = 0
  BY ONLY <1>1, <1>2, <1>5, <1>6, <1>7, x \in Nat, c \in Nat, c >= 1
<1>9. (k - 1) * c < x /\ x <= (k - 1) * c + c
  <2>1. z - c < x /\ x <= (z - c) + c
    BY ONLY <1>1, <1>5, x \in Nat, c \in Nat, c >= 1
  <2> QED
    BY <1>5, <2>1
<1>10. ASSUME NEW i \in Int, i <= k - 1 PROVE i * c < x
  <2>1. i * c <= (k - 1) * c
    BY <1>2, <1>10, TimesGrows
  <2>2. i * c \in Int /\ (k - 1) * c \in Int
    BY <1>2
  <2> DEFINE a == i * c
             b == (k - 1) * c
  <2>3. a <= b /\ b < x /\ a \in Int /\ b \in Int
    BY <1>9, <2>1, <2>2
  <2> HIDE DEF a, b
  <2>4. a < x
    BY ONLY <2>3, x \in Nat
  <2> QED
    BY <2>4 DEF a
<1>11. ASSUME NEW i \in 1 .. k PROVE (i - 1) * c < x /\ (i < k => i * c < x)
  <2>1. i - 1 \in Int /\ i - 1 <= k - 1 /\ i \in Int /\ (i < k => i <= k - 1)
    BY <1>2
  <2> QED
    BY <1>10, <2>1
<1> QED
  BY <1>2, <1>8, <1>9, <1>11 DEF k, y

\* The retransmission timer: everything unacknowledged is sent again, from the first segment.
Fired(q, e, u, v, n) ==
  [[q EXCEPT !.edge = e] EXCEPT !.unsent = u, !.unacked = v, !.rtime = TRUE, !.snd_nxt = n]

\* Whether the timer ran does not matter when it is started.
LEMMA TimerOverridden ==
  ASSUME NEW q \in Block, NEW k, k = [q EXCEPT !.rtime = FALSE], NEW e, NEW u, NEW v, NEW n
  PROVE  Fired(k, e, u, v, n) = Fired(q, e, u, v, n)
BY DEF Block, Fired

\* What tcp_output does when the first n unsent segments can be sent.
Shots(p, s) == {Sent(p, x) : x \in ToSet(s)}
Advanced(x, s) == IF LT(x, End(Last(s))) THEN End(Last(s)) ELSE x
Firing(p, n) ==
  LET s == SubSeq(p.unsent, 1, n)
  IN  [Work(p) EXCEPT !.p = Fired(p, Add(p.rcv_nxt, p.rcv_ann_wnd), SubSeq(p.unsent, n + 1, Len(p.unsent)),
                                  p.unacked \o s, Advanced(p.snd_nxt, s)),
                      !.out = {} \cup Shots(p, s), !.now = FALSE]

\* tcp_output with a segment that can be sent, as Firing says.
LEMMA OutputFires ==
  ASSUME NEW p \in Block, Sendable(p) > 0
  PROVE  Output(Work(p)) = Firing(p, Sendable(p))
<1> DEFINE w == Work(p)
           n == Sendable(p)
           s == SubSeq(p.unsent, 1, n)
           e == Add(p.rcv_nxt, p.rcv_ann_wnd)
           b == [Announced(p) EXCEPT
                         !.unsent = SubSeq(@, n + 1, Len(@)),
                         !.unacked = @ \o s,
                         !.rtime = TRUE,
                         !.snd_nxt = IF LT(@, End(Last(s))) THEN End(Last(s)) ELSE @]
           a == Fired(p, e, SubSeq(p.unsent, n + 1, Len(p.unsent)), p.unacked \o s, Advanced(p.snd_nxt, s))
           o == {Sent(p, x) : x \in ToSet(s)}
<1>1. w.p = p /\ w.out = {}
  BY DEF Work
<1>2. Announced(p) = [p EXCEPT !.edge = e]
  BY DEF Announced
<1> HIDE DEF w
<1>3. Output(w) = [w EXCEPT !.p = b, !.out = @ \cup o, !.now = FALSE]
  BY <1>1 DEF Output
<1> HIDE DEF n, s, e
<1>4. b = a
  BY <1>2 DEF Block, Fired, Advanced
<1>5. o = Shots(p, s)
  BY DEF Shots
<1> HIDE DEF a, b, o
<1>6. Output(w) = [w EXCEPT !.p = a, !.out = {} \cup Shots(p, s), !.now = FALSE]
  BY <1>1, <1>3, <1>4, <1>5
<1>7. Firing(p, n) = [w EXCEPT !.p = a, !.out = {} \cup Shots(p, s), !.now = FALSE]
  BY DEF Firing, a, s, e, w
<1> QED
  BY <1>6, <1>7 DEF w, n

\* Whether the timer runs makes no difference then.
LEMMA FiringSame ==
  ASSUME NEW q \in Block, NEW k \in Block, k = [q EXCEPT !.rtime = FALSE], NEW n
  PROVE  Firing(k, n) = Firing(q, n)
<1> DEFINE s == SubSeq(q.unsent, 1, n)
           e == Add(q.rcv_nxt, q.rcv_ann_wnd)
           y == SubSeq(q.unsent, n + 1, Len(q.unsent))
           z == q.unacked \o s
           t == Advanced(q.snd_nxt, s)
<1>1. /\ k.unsent = q.unsent /\ k.unacked = q.unacked /\ k.snd_nxt = q.snd_nxt
      /\ k.rcv_nxt = q.rcv_nxt /\ k.rcv_ann_wnd = q.rcv_ann_wnd
  BY DEF Block
<1>2. Shots(k, s) = Shots(q, s)
  <2>1. \A x : Sent(q, x) = Sent(k, x)
    BY <1>1 DEF Sent
  <2> HIDE DEF s
  <2> QED
    BY <2>1 DEF Shots
<1>3. Firing(q, n) = [Work(q) EXCEPT !.p = Fired(q, e, y, z, t), !.out = {} \cup Shots(q, s), !.now = FALSE]
  BY DEF Firing
<1>4. Firing(k, n) = [Work(k) EXCEPT !.p = Fired(k, e, y, z, t), !.out = {} \cup Shots(k, s), !.now = FALSE]
  BY <1>1 DEF Firing
<1> HIDE DEF s, e, y, z, t
<1>5. Fired(k, e, y, z, t) = Fired(q, e, y, z, t)
  BY TimerOverridden
<1>6. /\ Work(k) \in WorkSet /\ Work(q) \in WorkSet
      /\ Work(k).data = Work(q).data /\ Work(k).fin = Work(q).fin
  BY WorkIs
<1> DEFINE a == Fired(q, e, y, z, t)
           o == {} \cup Shots(q, s)
           w == Work(q)
           x == Work(k)
<1>7. /\ Firing(q, n) = [w EXCEPT !.p = a, !.out = o, !.now = FALSE]
      /\ Firing(k, n) = [x EXCEPT !.p = a, !.out = o, !.now = FALSE]
  BY <1>2, <1>3, <1>4, <1>5
<1>8. w \in WorkSet /\ x \in WorkSet /\ x.data = w.data /\ x.fin = w.fin
  BY <1>6
<1> HIDE DEF a, o, w, x
<1>9. [w EXCEPT !.p = a, !.out = o, !.now = FALSE] = [x EXCEPT !.p = a, !.out = o, !.now = FALSE]
  BY <1>8 DEF WorkSet
<1> QED
  BY <1>7, <1>9

\* tcp_rexmit_rto: unacked goes back in front of unsent and the first segment is sent again.
LEMMA RtoKeeps ==
  ASSUME NEW d, FlowOK(d), NEW r, FlowOK(r), NEW p \in Block, NEW h \in BOOLEAN, p # Gone, Rest(p, d, r, h),
         p.unacked # <<>>
  PROVE  Leaves(p, Output(Work(RtoExpired(p))), d, r, r, h)
<1> DEFINE q == RtoExpired(p)
           k == [q EXCEPT !.rtime = FALSE]
           half == LeastOf(p.cwnd, p.snd_wnd) \div 2
           ss == IF half < 2 * Mss THEN 2 * Mss ELSE half
           u == p.unacked \o p.unsent
<1>1. Snd(p, r) /\ Busy(p) /\ Rcv(p, d) /\ StateOK(p, r.closed, h)
  BY DEF Rest
<1>2. p.state # "TIME_WAIT" /\ QueuesOK(p, r)
  BY <1>1 DEF Snd
<1>3. /\ Queue(p.unacked, p.unsent, p.lastack, r) /\ SentOK(p.unacked, r) /\ p.unacked \in Seq(Segment)
      /\ p.unsent \in Seq(Segment) /\ p.lastack \in Nat /\ p.nrtx + 1 \in Nat
  BY <1>2, SMTT(30) DEF QueuesOK, Block
<1>4. u \in Seq(Segment) /\ Queue(<<>>, u, p.lastack, r) /\ u # <<>>
  <2>1. u \in Seq(Segment) /\ Queue(<<>>, u, p.lastack, r)
    BY <1>3, QueueRto
  <2>2. Len(u) = Len(p.unacked) + Len(p.unsent) /\ Len(p.unacked) > 0
    BY <1>3, SegmentQueue, ConcatProperties
  <2> QED
    BY <1>3, <2>1, <2>2, SegmentQueue
<1>5. ss \in Nat
  <2>1. p.cwnd \in Nat /\ p.snd_wnd \in Nat /\ Mss \in Nat
    BY SizesAssumption DEF Block
  <2>2. half \in Nat
    BY <2>1 DEF LeastOf
  <2> QED
    BY <2>1, <2>2
<1>6. q = [p EXCEPT !.ssthresh = ss, !.cwnd = Mss, !.unsent = u, !.unacked = <<>>, !.nrtx = @ + 1]
  BY DEF RtoExpired
<1> HIDE DEF q, u, ss, half
<1>7. /\ q \in Block /\ q.unsent = u /\ q.unacked = <<>> /\ q.cwnd = Mss /\ q.state = p.state /\ q.rxclosed = p.rxclosed
      /\ q.snd_lbb = p.snd_lbb /\ q.snd_buf = p.snd_buf /\ q.snd_nxt = p.snd_nxt /\ q.lastack = p.lastack
      /\ q.snd_wnd = p.snd_wnd /\ q.snd_wl1 = p.snd_wl1 /\ q.snd_wl2 = p.snd_wl2
      /\ q.rcv_nxt = p.rcv_nxt /\ q.rcv_wnd = p.rcv_wnd /\ q.rcv_ann_wnd = p.rcv_ann_wnd
      /\ q.edge = p.edge /\ q.ooseq = p.ooseq
  <2>1. Mss \in Nat /\ <<>> \in Seq(Segment)
    BY SizeFacts
  <2> QED
    BY <1>3, <1>4, <1>5, <1>6, <2>1 DEF Block
<1>8. /\ k \in Block /\ k.unsent = u /\ k.unacked = <<>> /\ k.rtime = FALSE /\ k.cwnd = Mss /\ k.state = p.state /\ k.rxclosed = p.rxclosed
      /\ k.snd_lbb = p.snd_lbb /\ k.snd_buf = p.snd_buf /\ k.snd_nxt = p.snd_nxt /\ k.lastack = p.lastack
      /\ k.snd_wnd = p.snd_wnd /\ k.snd_wl1 = p.snd_wl1 /\ k.snd_wl2 = p.snd_wl2
      /\ k.rcv_nxt = p.rcv_nxt /\ k.rcv_wnd = p.rcv_wnd /\ k.rcv_ann_wnd = p.rcv_ann_wnd
      /\ k.edge = p.edge /\ k.ooseq = p.ooseq
  BY <1>7 DEF Block
<1>9. /\ k.ssthresh = q.ssthresh /\ k.dupacks = q.dupacks /\ k.nrtx = q.nrtx
  BY <1>7 DEF Block
<1> HIDE DEF k
<1>10. Snd(k, r)
  <2>1. SentOK(<<>>, r)
    BY DEF SentOK
  <2>2. QueuesOK(k, r)
    BY <1>2, <1>4, <1>8, <2>1 DEF QueuesOK
  <2>3. Mss <= k.cwnd
    BY <1>8, SizeFacts
  <2> QED
    BY <1>1, <1>2, <1>8, <2>2, <2>3 DEF Snd
<1>11. Rcv(k, d)
  BY <1>1, <1>8 DEF Rcv, OoseqOK
<1>12. Sendable(k) > 0
  <2>1. Sendable(k) \in Nat
    BY <1>8, SendableNat DEF Block
  <2>2. ~Busy(k)
    BY <1>4, <1>8 DEF Busy
  <2>3. Sendable(k) # 0
    BY <1>2, <1>8, <1>10, <2>2, FirstFits
  <2> QED
    BY <2>1, <2>3
<1>13. Sendable(q) = Sendable(k)
  BY <1>7, <1>8 DEF Sendable
<1>14. Output(Work(q)) = Output(Work(k))
  <2>1. k = [q EXCEPT !.rtime = FALSE]
    BY DEF k
  <2>2. Output(Work(k)) = Firing(k, Sendable(k))
    BY <1>8, <1>12, OutputFires
  <2>3. Output(Work(q)) = Firing(q, Sendable(k))
    BY <1>7, <1>12, <1>13, OutputFires
  <2>4. Firing(k, Sendable(k)) = Firing(q, Sendable(k))
    BY <1>7, <1>8, <2>1, FiringSame
  <2> QED
    BY <2>2, <2>3, <2>4
<1> DEFINE w == Work(k)
           v == Output(w)
<1>15. w \in WorkSet /\ w.p = k /\ w.data = <<>> /\ w.fin = FALSE /\ FramesOK(w, r, d)
  BY <1>8, WorkIs
<1> HIDE DEF w
<1>16. v = Output(w)
  OBVIOUS
<1> HIDE DEF v
<1>17. Snd(w.p, r) /\ Rcv(w.p, d) /\ StateOK(w.p, r.closed, h)
  BY <1>1, <1>8, <1>10, <1>11, <1>15 DEF StateOK, Phase
<1>18. p.edge <= w.p.edge /\ (Quiet(p, r, d) /\ d.sent = d.first => Quiet(w.p, r, d))
  <2>1. p.edge <= p.edge
    BY DEF Block
  <2> QED
    BY <1>8, <1>15, <2>1 DEF Quiet
<1>19. Grown(r, r)
  BY SameFlow
<1>20. w \in WorkSet /\ w.data = <<>> /\ w.fin = FALSE /\ FramesOK(w, r, d)
  BY <1>15
<1>21. Leaves(p, v, d, r, r, h)
  BY <1>16, <1>17, <1>18, <1>19, <1>20, SentKeeps
<1> QED
  BY <1>14, <1>21 DEF v, w, q

-----------------------------------------------------------------------------
(* tcp_write *)

\* The direction d when its writer has written n more bytes.
Wrote(d, n) == [d EXCEPT !.written = @ + n]

\* The stream to which its writer added n bytes.
LEMMA WroteIs ==
  ASSUME NEW d, FlowOK(d), ~d.closed, NEW n \in Nat, d.first + (d.written + n) + 2 * Wnd + 2 <= Half
  PROVE  LET b == Wrote(d, n)
         IN  /\ FlowOK(b) /\ Grown(d, b)
             /\ b.first = d.first /\ b.written = d.written + n /\ b.closed = d.closed /\ b.sent = d.sent
             /\ b.limit = d.limit /\ b.got = d.got
             /\ EndOf(b) = EndOf(d) + n /\ EndOf(d) = d.first + d.written
             /\ \A s : Own(s, d) => ~s.fin
             /\ \A s : Shaped(s) /\ Own(s, d) => Own(s, b)
<1> DEFINE b == Wrote(d, n)
           x == d.first
           y == d.written
<1>1. /\ x \in Nat /\ y \in Nat /\ y + n \in Nat /\ d.closed = FALSE
      /\ d.sent \in Nat /\ d.got \in Nat /\ d.limit \in Nat
  BY FlowFacts
<1>2. /\ b \in Direction
      /\ b.first = d.first /\ b.written = d.written + n /\ b.closed = d.closed /\ b.sent = d.sent
      /\ b.limit = d.limit /\ b.got = d.got
  BY <1>1 DEF FlowOK, Direction, Wrote
<1> HIDE DEF b
<1>3. EndOf(b) = x + (y + n) + 0 /\ EndOf(d) = x + y + 0
  BY <1>1, <1>2 DEF EndOf, Bit
<1>4. EndOf(b) = EndOf(d) + n /\ EndOf(d) = x + y
  <2>1. x \in Nat /\ y \in Nat
    BY <1>1
  <2> HIDE DEF x, y
  <2> QED
    BY ONLY <1>3, <2>1, n \in Nat
<1>5. d.sent <= EndOf(b)
  <2> DEFINE s == d.sent
             z == EndOf(d)
             c == EndOf(b)
  <2>1. s \in Nat /\ z \in Nat /\ s <= z /\ c = z + n
    BY <1>4, FlowFacts
  <2> HIDE DEF s, z, c
  <2>2. s <= c
    BY ONLY <2>1, n \in Nat
  <2> QED
    BY <2>2 DEF s, c
<1>6. FlowOK(b)
  <2>1. d.first + d.got <= d.sent /\ d.limit <= d.first + d.got + Wnd
    BY DEF FlowOK
  <2>2. b.first + b.written + 2 * Wnd + 2 <= Half
    BY <1>2
  <2> QED
    BY <1>2, <1>5, <2>1, <2>2 DEF FlowOK
<1>7. y <= y + n
  <2>1. y \in Nat
    BY <1>1
  <2> HIDE DEF y
  <2> QED
    BY <2>1
<1>8. Grown(d, b)
  BY <1>1, <1>2, <1>7 DEF Grown
<1>9. \A s : Own(s, d) => ~s.fin
  BY DEF Own
<1>10. \A s : Shaped(s) /\ Own(s, d) => Own(s, b)
  BY <1>6, <1>8, GrownOwn
<1> QED
  BY <1>2, <1>4, <1>6, <1>8, <1>9, <1>10 DEF b

\* The last unsent segment when it is filled up.
LEMMA FilledUp ==
  ASSUME NEW d, FlowOK(d), ~d.closed, NEW n \in Nat, d.first + (d.written + n) + 2 * Wnd + 2 <= Half,
         NEW v \in Seq(Segment), Run(v, EndOf(d), d), NEW fill \in Nat, fill <= n,
         v = <<>> => fill = 0, v # <<>> => v[Len(v)].len + fill <= Mss
  PROVE  LET x == [i \in 1 .. Len(v) |-> IF i = Len(v) THEN [v[i] EXCEPT !.len = @ + fill] ELSE v[i]]
         IN  /\ x \in Seq(Segment) /\ Len(x) = Len(v) /\ Run(x, EndOf(d) + fill, Wrote(d, n))
             /\ \A i \in 1 .. Len(v) : x[i].seq = v[i].seq /\ Stop(v[i]) <= Stop(x[i])
<1> DEFINE b == Wrote(d, n)
           m == Len(v)
           z == EndOf(d)
           o == [v[m] EXCEPT !.len = @ + fill]
           x == [i \in 1 .. m |-> IF i = m THEN [v[i] EXCEPT !.len = @ + fill] ELSE v[i]]
<1>1. /\ FlowOK(b) /\ b.first = d.first /\ b.written = d.written + n /\ b.closed = d.closed
      /\ EndOf(b) = z + n /\ z = d.first + d.written
      /\ \A s : Own(s, d) => ~s.fin
      /\ \A s : Shaped(s) /\ Own(s, d) => Own(s, b)
  BY WroteIs
<1>2. /\ m \in Nat /\ (v # <<>> <=> m > 0)
      /\ \A i \in 1 .. m : v[i] \in Segment /\ Shaped(v[i])
  BY SegmentQueue
<1>3. z \in Nat /\ d.first \in Nat /\ d.written \in Nat
  BY FlowFacts
<1>4. \A i \in 1 .. m : Own(v[i], d) /\ Stop(v[i]) = IF i = m THEN z ELSE v[i + 1].seq
  BY DEF Run
<1> HIDE DEF b, z
<1>5. ASSUME m > 0
      PROVE  /\ o \in Segment /\ o.seq = v[m].seq /\ Own(o, b) /\ Stop(o) = z + fill /\ Stop(v[m]) = z
  <2> DEFINE f == v[m].seq
             l == v[m].len
             e == l + fill
  <2>1. m \in 1 .. m
    BY <1>2, <1>5
  <2>2. /\ v[m] \in Segment /\ Own(v[m], d) /\ Stop(v[m]) = z /\ v[m].fin = FALSE
    <3>1. v[m].fin \in BOOLEAN
      BY <1>2, <2>1 DEF Segment
    <3> QED
      BY <1>1, <1>2, <1>4, <2>1, <3>1
  <2>3. f \in Nat /\ l \in Nat /\ e \in Nat /\ e = l + fill
    BY <2>2 DEF Segment
  <2>4. o = [v[m] EXCEPT !.len = e]
    OBVIOUS
  <2> HIDE DEF o, e
  <2>5. o \in Segment /\ o.seq = f /\ o.pos = v[m].pos /\ o.len = e /\ o.fin = FALSE
    BY <2>2, <2>3, <2>4 DEF Segment
  <2>6. TcpLen(v[m]) = l /\ TcpLen(o) = e /\ Stop(v[m]) = f + l /\ Stop(o) = f + e
    BY <2>2, <2>5 DEF TcpLen, Stop
  <2>7. /\ d.first <= f /\ (l > 0 => f = d.first + v[m].pos) /\ l > 0 /\ f + l = z
    BY <2>2, <2>6 DEF Own
  <2>8. e <= Mss /\ e > 0
    <3>1. e <= Mss
      BY <1>2, <1>5, <2>3
    <3> HIDE DEF f, l
    <3> QED
      BY <2>3, <2>7, <3>1
  <2>9. f + e = z + fill /\ f + e <= z + n
    <3> HIDE DEF f, l
    <3> QED
      BY ONLY <1>3, <2>3, <2>7, n \in Nat, fill \in Nat, fill <= n
  <2>10. z + n = d.first + (d.written + n)
    <3> DEFINE i == d.first
               j == d.written
    <3>1. i \in Nat /\ j \in Nat /\ z = i + j
      BY <1>1, <1>3
    <3> HIDE DEF i, j
    <3>2. z + n = i + (j + n)
      BY ONLY <3>1, n \in Nat
    <3> QED
      BY <3>2 DEF i, j
  <2>11. Own(o, b)
    BY <1>1, <2>5, <2>6, <2>7, <2>8, <2>9, <2>10 DEF Own
  <2> QED
    BY <2>2, <2>5, <2>6, <2>9, <2>11
<1>6. /\ x \in Seq(Segment) /\ Len(x) = m
      /\ \A i \in 1 .. m : x[i] = IF i = m THEN o ELSE v[i]
  <2>1. \A i \in 1 .. m : m > 0
    BY <1>2
  <2> HIDE DEF o
  <2>2. x = [i \in 1 .. m |-> IF i = m THEN o ELSE v[i]]
    BY DEF o
  <2> DEFINE y == [i \in 1 .. m |-> IF i = m THEN o ELSE v[i]]
  <2>3. \A i \in 1 .. m : y[i] \in Segment
    BY <1>2, <1>5, <2>1
  <2>4. y \in Seq(Segment) /\ Len(y) = m
    BY <1>2, <2>3
  <2> HIDE DEF x, m
  <2> QED
    BY <2>2, <2>4
<1> HIDE DEF x, o
<1>7. \A i \in 1 .. m : x[i].seq = v[i].seq /\ Own(x[i], b) /\ Stop(v[i]) <= Stop(x[i])
  <2> TAKE i \in 1 .. m
  <2>1. CASE i = m
    <3>1. z <= z + fill
      BY <1>3
    <3> QED
      BY <1>2, <1>5, <1>6, <2>1, <3>1
  <2>2. CASE i # m
    <3>1. x[i] = v[i] /\ Own(v[i], b)
      BY <1>1, <1>2, <1>4, <1>6, <2>2
    <3>2. Stop(v[i]) \in Nat
      BY <1>2 DEF Shaped, Stop, TcpLen
    <3> QED
      BY <3>1, <3>2
  <2> QED
    BY <2>1, <2>2
<1>8. Run(x, z + fill, b)
  <2> SUFFICES ASSUME NEW i \in 1 .. m
               PROVE  Own(x[i], b) /\ Stop(x[i]) = IF i = m THEN z + fill ELSE x[i + 1].seq
    BY <1>6 DEF Run
  <2>1. CASE i = m
    BY <1>2, <1>5, <1>6, <1>7, <2>1
  <2>2. CASE i # m
    <3>1. i + 1 \in 1 .. m
      BY <1>2, <2>2
    <3> QED
      BY <1>4, <1>6, <1>7, <2>2, <3>1
  <2> QED
    BY <2>1, <2>2
<1> QED
  BY <1>6, <1>7, <1>8 DEF x, b, z

\* The segments that tcp_write makes when the last unsent one takes fill of the n bytes.
Fresh(lbb, first, fill, n) ==
  LET k == (n - fill + MssLocal - 1) \div MssLocal
  IN  [i \in 1 .. k |->
         LET off == fill + (i - 1) * MssLocal
         IN  [seq |-> Add(lbb, off), pos |-> first + off, len |-> LeastOf(MssLocal, n - off), fin |-> FALSE]]

\* Multiples of a segment size follow each other.
LEMMA Multiples ==
  ASSUME NEW i \in Nat, i >= 1, NEW c \in Nat
  PROVE  (i - 1) * c \in Nat /\ i * c = (i - 1) * c + c /\ (i + 1 - 1) * c = i * c
BY SMT

\* The segments that tcp_write makes are a run behind what is queued.
LEMMA FreshKeeps ==
  ASSUME NEW d, FlowOK(d), ~d.closed, NEW n \in Nat, d.first + (d.written + n) + 2 * Wnd + 2 <= Half,
         NEW fill \in Nat, fill <= n
  PROVE  LET x == Fresh(EndOf(d), d.written, fill, n)
             b == Wrote(d, n)
         IN  /\ x \in Seq(Segment) /\ Run(x, EndOf(b), b)
             /\ StartOf(x, EndOf(b)) = EndOf(d) + fill
             /\ x = <<>> <=> fill = n
<1> DEFINE b == Wrote(d, n)
           z == EndOf(d)
           y == d.written
           f == d.first
           k == ((n - fill) + Mss - 1) \div Mss
           o(i) == fill + (i - 1) * Mss
           x == Fresh(z, y, fill, n)
<1>1. /\ FlowOK(b) /\ b.first = f /\ b.written = y + n /\ b.closed = d.closed
      /\ EndOf(b) = z + n /\ z = f + y
  BY WroteIs
<1>2. f \in Nat /\ y \in Nat /\ z \in Nat
  BY FlowFacts
<1>3. Mss \in Nat /\ Mss >= 1 /\ MssLocal = Mss /\ Half \in Nat /\ SeqSpace = 2 * Half /\ Wnd \in Nat
  BY SizeFacts
<1>4. f + (y + n) + 2 * Wnd + 2 <= Half
  OBVIOUS
<1> HIDE DEF b, z, y, f
<1>5. /\ k \in Nat /\ (k = 0 <=> n - fill = 0)
      /\ \A i \in 1 .. k : (i - 1) * Mss < n - fill /\ (i < k => i * Mss < n - fill)
      /\ k > 0 => n - fill <= (k - 1) * Mss + Mss
  <2>1. n - fill \in Nat
    OBVIOUS
  <2> QED
    BY <1>3, <2>1, Ceiling
<1>6. \A i \in 1 .. k : /\ o(i) \in Nat /\ o(i) < n /\ fill <= o(i)
                        /\ i < k => o(i) + Mss < n /\ o(i + 1) = o(i) + Mss
                        /\ i = k => n - o(i) <= Mss
  <2> TAKE i \in 1 .. k
  <2> DEFINE g == (i - 1) * Mss
             h == i * Mss
  <2>1. i \in Nat /\ i >= 1 /\ k \in Nat
    BY <1>5
  <2>2. g \in Nat /\ h = g + Mss /\ (i + 1 - 1) * Mss = h
    BY <1>3, <2>1, Multiples
  <2>3. g < n - fill /\ (i < k => h < n - fill) /\ (i = k => n - fill <= g + Mss)
    BY <1>5, <2>1
  <2>4. o(i) = fill + g /\ o(i + 1) = fill + h
    BY <2>2
  <2> HIDE DEF g, h, o, k
  <2> QED
    BY ONLY <1>3, <2>1, <2>2, <2>3, <2>4, n \in Nat, fill \in Nat
<1>7. \A i \in 1 .. k : z + o(i) < SeqSpace
  <2> TAKE i \in 1 .. k
  <2>1. o(i) \in Nat /\ o(i) < n
    BY <1>6
  <2> HIDE DEF o, k
  <2> QED
    BY ONLY <1>1, <1>2, <1>3, <1>4, <2>1, n \in Nat
<1>8. x = [i \in 1 .. k |-> [seq |-> Add(z, o(i)), pos |-> y + o(i), len |-> LeastOf(Mss, n - o(i)), fin |-> FALSE]]
  BY <1>3 DEF Fresh
<1> HIDE DEF x, o, k
<1>9. \A i \in 1 .. k : /\ x[i] = [seq |-> z + o(i), pos |-> y + o(i), len |-> LeastOf(Mss, n - o(i)), fin |-> FALSE]
                        /\ LeastOf(Mss, n - o(i)) \in Nat
                        /\ i < k => LeastOf(Mss, n - o(i)) = Mss
                        /\ i = k => LeastOf(Mss, n - o(i)) = n - o(i)
                        /\ LeastOf(Mss, n - o(i)) > 0
                        /\ LeastOf(Mss, n - o(i)) <= Mss
                        /\ LeastOf(Mss, n - o(i)) <= n - o(i)
  <2> TAKE i \in 1 .. k
  <2>1. /\ o(i) \in Nat /\ o(i) < n /\ (i < k => o(i) + Mss < n) /\ (i = k => n - o(i) <= Mss)
    BY <1>6
  <2>2. Add(z, o(i)) = z + o(i)
    BY <1>2, <1>7, <2>1, AddIs
  <2>3. x[i] = [seq |-> z + o(i), pos |-> y + o(i), len |-> LeastOf(Mss, n - o(i)), fin |-> FALSE]
    BY <1>8, <2>2
  <2> DEFINE q == o(i)
  <2>4. q \in Nat /\ q < n /\ (i < k => q + Mss < n) /\ (i = k => n - q <= Mss)
    BY <2>1
  <2> HIDE DEF q
  <2>5. /\ LeastOf(Mss, n - q) \in Nat
        /\ i < k => LeastOf(Mss, n - q) = Mss
        /\ i = k => LeastOf(Mss, n - q) = n - q
        /\ LeastOf(Mss, n - q) > 0
        /\ LeastOf(Mss, n - q) <= Mss
        /\ LeastOf(Mss, n - q) <= n - q
    BY ONLY <1>3, <2>4, n \in Nat DEF LeastOf
  <2> QED
    BY <2>3, <2>5 DEF q
<1>10. \A i \in 1 .. k : /\ x[i] \in Segment /\ Own(x[i], b) /\ Stop(x[i]) = IF i = k THEN z + n ELSE z + o(i + 1)
                         /\ x[i].seq = z + o(i)
  <2> TAKE i \in 1 .. k
  <2> DEFINE q == o(i)
             l == LeastOf(Mss, n - o(i))
  <2>1. /\ q \in Nat /\ q < n
        /\ i < k => o(i + 1) = q + Mss
        /\ l \in Nat /\ (i < k => l = Mss) /\ (i = k => l = n - q) /\ l > 0 /\ l <= Mss /\ l <= n - q
        /\ x[i] = [seq |-> z + q, pos |-> y + q, len |-> l, fin |-> FALSE]
    BY <1>6, <1>9
  <2> HIDE DEF q, l
  <2>2. x[i].seq = z + q /\ x[i].pos = y + q /\ x[i].len = l /\ x[i].fin = FALSE
    BY <2>1
  <2>3. z + q \in Nat /\ y + q \in Nat
    BY ONLY <1>2, <2>1
  <2>4. x[i] \in Segment
    BY <2>1, <2>3 DEF Segment
  <2>5. TcpLen(x[i]) = l /\ Stop(x[i]) = (z + q) + l
    BY <2>2 DEF TcpLen, Stop
  <2>6. f <= z + q /\ (z + q) + l <= f + (y + n) /\ z + q = f + (y + q)
    BY ONLY <1>1, <1>2, <2>1, n \in Nat
  <2>7. Own(x[i], b)
    BY <1>1, <2>1, <2>2, <2>5, <2>6 DEF Own
  <2>8. i = k \/ i < k
    BY <1>5
  <2>9. i = k => (z + q) + l = z + n
    BY ONLY <1>2, <2>1, n \in Nat
  <2>10. i < k => (z + q) + l = z + o(i + 1)
    <3>1. ASSUME i < k PROVE (z + q) + Mss = z + (q + Mss)
      BY ONLY <1>2, <1>3, <2>1
    <3> QED
      BY <2>1, <3>1
  <2> QED
    BY <2>2, <2>4, <2>5, <2>7, <2>8, <2>9, <2>10 DEF q
<1>11. x \in Seq(Segment) /\ Len(x) = k
  <2>1. x = [i \in 1 .. k |-> x[i]]
    BY <1>8
  <2>2. x \in [1 .. k -> Segment]
    BY <1>10, <2>1
  <2> QED
    BY <1>5, <2>2, FunIsSeq
<1>12. Run(x, z + n, b)
  <2> SUFFICES ASSUME NEW i \in 1 .. k
               PROVE  Own(x[i], b) /\ Stop(x[i]) = IF i = k THEN z + n ELSE x[i + 1].seq
    BY <1>11 DEF Run
  <2>1. i # k => i + 1 \in 1 .. k
    BY <1>5
  <2> QED
    BY <1>10, <2>1
<1>13. x = <<>> <=> fill = n
  <2>1. x = <<>> <=> k = 0
    BY <1>11, SegmentQueue
  <2>2. n - fill = 0 <=> fill = n
    OBVIOUS
  <2> QED
    BY <1>5, <2>1, <2>2
<1>14. StartOf(x, z + n) = z + fill
  <2>1. CASE x = <<>>
    BY <1>13, <2>1 DEF StartOf
  <2>2. CASE x # <<>>
    <3>1. 1 \in 1 .. k
      BY <1>5, <1>11, <2>2, SegmentQueue
    <3>2. o(1) = fill
      BY <1>3 DEF o
    <3> QED
      BY <1>10, <2>2, <3>1, <3>2 DEF StartOf
  <2> QED
    BY <2>1, <2>2
<1> QED
  BY <1>1, <1>11, <1>12, <1>13, <1>14 DEF x, b, z, y

\* How many bytes the last segment of the queue v takes.
Filling(v, n) ==
  LET m == Len(v)
      room == IF m > 0 /\ v[m].len > 0 THEN MssLocal - v[m].len ELSE 0
  IN  LeastOf(room, n)

\* The queue v whose last segment takes fill more bytes.
Lengthened(v, fill) ==
  LET m == Len(v) IN [i \in 1 .. m |-> IF i = m THEN [v[i] EXCEPT !.len = @ + fill] ELSE v[i]]

\* The last unsent segment is filled up to the segment size at most.
LEMMA FillingIs ==
  ASSUME NEW d, FlowOK(d), NEW v \in Seq(Segment), Run(v, EndOf(d), d), NEW n \in Nat
  PROVE  LET fill == Filling(v, n)
         IN  /\ fill \in Nat /\ fill <= n
             /\ v = <<>> => fill = 0
             /\ v # <<>> => v[Len(v)].len + fill <= Mss
<1> DEFINE m == Len(v)
           l == v[m].len
           fill == Filling(v, n)
<1>1. m \in Nat /\ (v = <<>> <=> m = 0)
  BY SegmentQueue
<1>2. Mss \in Nat /\ MssLocal = Mss
  BY SizeFacts
<1>3. m > 0 => l \in Nat /\ l <= Mss
  <2>1. ASSUME m > 0 PROVE m \in 1 .. m
    BY <1>1, <2>1
  <2>2. ASSUME m > 0 PROVE v[m] \in Segment /\ Own(v[m], d)
    BY <2>1, <2>2, SegmentQueue DEF Run
  <2> QED
    BY <2>2 DEF Segment, Own
<1>4. fill = LeastOf(IF m > 0 /\ l > 0 THEN Mss - l ELSE 0, n)
  BY <1>2 DEF Filling
<1> HIDE DEF m, l, fill
<1>5. fill \in Nat /\ fill <= n /\ (m = 0 => fill = 0) /\ (m > 0 => l + fill <= Mss)
  BY ONLY <1>1, <1>2, <1>3, <1>4, n \in Nat DEF LeastOf
<1> QED
  BY <1>1, <1>5 DEF m, l, fill

\* The end of a segment is a number.
LEMMA SegmentStop ==
  \A s \in Segment : Stop(s) \in Nat
BY DEF Segment, Stop, TcpLen

\* tcp_write adds n bytes to the end of the queues.
LEMMA QueueWrite ==
  ASSUME NEW d, FlowOK(d), ~d.closed, NEW n \in Nat, n >= 1, d.first + (d.written + n) + 2 * Wnd + 2 <= Half,
         NEW u \in Seq(Segment), NEW v \in Seq(Segment), NEW la \in Nat, Queue(u, v, la, d)
  PROVE  LET fill == Filling(v, n)
             x == Lengthened(v, fill) \o Fresh(EndOf(d), d.written, fill, n)
         IN  x \in Seq(Segment) /\ Queue(u, x, la, Wrote(d, n))
<1> DEFINE fill == Filling(v, n)
           b == Wrote(d, n)
           z == EndOf(d)
           t == EndOf(b)
           a == Lengthened(v, fill)
           c == Fresh(z, d.written, fill, n)
           x == a \o c
<1>1. /\ Run(v, z, d) /\ Run(u, StartOf(v, z), d) /\ z \in Nat
  BY QueueFacts
<1>2. /\ fill \in Nat /\ fill <= n
      /\ v = <<>> => fill = 0
      /\ v # <<>> => v[Len(v)].len + fill <= Mss
  BY <1>1, FillingIs
<1>3. /\ FlowOK(b) /\ t = z + n /\ t \in Nat
      /\ \A s : Shaped(s) /\ Own(s, d) => Own(s, b)
  <2>1. FlowOK(b) /\ t = z + n /\ \A s : Shaped(s) /\ Own(s, d) => Own(s, b)
    BY WroteIs
  <2> QED
    BY <1>1, <2>1
<1> HIDE DEF fill, b, z, t, c, a
<1>4. /\ a \in Seq(Segment) /\ Len(a) = Len(v) /\ Run(a, z + fill, b)
      /\ \A i \in 1 .. Len(v) : a[i].seq = v[i].seq /\ Stop(v[i]) <= Stop(a[i])
  <2>1. Run(v, EndOf(d), d)
    BY <1>1 DEF z
  <2>2. LET y == [i \in 1 .. Len(v) |-> IF i = Len(v) THEN [v[i] EXCEPT !.len = @ + fill] ELSE v[i]]
        IN  /\ y \in Seq(Segment) /\ Len(y) = Len(v) /\ Run(y, EndOf(d) + fill, Wrote(d, n))
            /\ \A i \in 1 .. Len(v) : y[i].seq = v[i].seq /\ Stop(v[i]) <= Stop(y[i])
    BY <1>2, <2>1, FilledUp
  <2> QED
    BY <2>2 DEF a, Lengthened, z, b
<1>5. /\ c \in Seq(Segment) /\ Run(c, t, b) /\ StartOf(c, t) = z + fill
      /\ c = <<>> <=> fill = n
  <2>1. LET y == Fresh(EndOf(d), d.written, fill, n)
            e == Wrote(d, n)
        IN  /\ y \in Seq(Segment) /\ Run(y, EndOf(e), e)
            /\ StartOf(y, EndOf(e)) = EndOf(d) + fill
            /\ y = <<>> <=> fill = n
    BY <1>2, FreshKeeps
  <2> QED
    BY <2>1 DEF c, t, z, b
<1>6. /\ x \in Seq(Segment) /\ Len(x) = Len(a) + Len(c)
      /\ \A i \in 1 .. Len(a) + Len(c) : x[i] = IF i <= Len(a) THEN a[i] ELSE c[i - Len(a)]
      /\ Run(x, t, b) /\ StartOf(x, t) = StartOf(a, StartOf(c, t))
  <2>1. Run(a, StartOf(c, t), b) /\ Run(c, t, b) /\ a \in Seq(Segment) /\ c \in Seq(Segment) /\ t \in Nat
    BY <1>3, <1>4, <1>5
  <2>2. /\ a \o c \in Seq(Segment) /\ Len(a \o c) = Len(a) + Len(c)
        /\ \A i \in 1 .. Len(a) + Len(c) : (a \o c)[i] = IF i <= Len(a) THEN a[i] ELSE c[i - Len(a)]
        /\ Run(a \o c, t, b) /\ StartOf(a \o c, t) = StartOf(a, StartOf(c, t))
    BY <2>1, RunConcat
  <2> QED
    BY <2>2
<1> HIDE DEF x
<1>7. /\ Len(v) \in Nat /\ Len(c) \in Nat /\ (v = <<>> <=> Len(v) = 0) /\ (c = <<>> <=> Len(c) = 0)
      /\ (x = <<>> <=> Len(x) = 0) /\ (a = <<>> <=> Len(a) = 0)
      /\ \A i \in 1 .. Len(v) : v[i] \in Segment /\ Shaped(v[i])
      /\ \A i \in 1 .. Len(u) : u[i] \in Segment /\ Shaped(u[i])
      /\ \A i \in 1 .. Len(x) : x[i] \in Segment /\ Shaped(x[i])
  BY <1>4, <1>5, <1>6, SegmentQueue
<1>8. v # <<>> => /\ 1 \in 1 .. Len(v) /\ x[1] = a[1] /\ a[1].seq = v[1].seq /\ Stop(v[1]) <= Stop(x[1])
                  /\ x[1] \in Segment
  <2>1. ASSUME v # <<>>
        PROVE  1 \in 1 .. Len(v) /\ 1 \in 1 .. Len(a) + Len(c) /\ 1 <= Len(a)
    BY <1>4, <1>7, <2>1
  <2> QED
    BY <1>4, <1>6, <1>7, <2>1
<1>9. StartOf(x, t) = StartOf(v, z)
  <2>1. CASE v = <<>>
    <3>1. a = <<>> /\ fill = 0
      BY <1>2, <1>4, <1>7, <2>1
    <3> QED
      BY <1>1, <1>5, <1>6, <2>1, <3>1 DEF StartOf
  <2>2. CASE v # <<>>
    <3>1. a # <<>>
      BY <1>4, <1>7, <2>2
    <3> QED
      BY <1>6, <1>8, <2>2, <3>1 DEF StartOf
  <2> QED
    BY <2>1, <2>2
<1>10. Run(u, StartOf(x, t), b)
  BY <1>1, <1>3, <1>7, <1>9 DEF Run
<1>11. x # <<>>
  <2>1. v = <<>> => c # <<>>
    BY <1>2, <1>5
  <2> QED
    BY <1>4, <1>6, <1>7, <2>1
<1>12. u # <<>> => u[1].seq <= la /\ la < Stop(u[1])
  BY DEF Queue
<1>13. ASSUME u = <<>>
       PROVE  x[1].seq <= la /\ la < Stop(x[1])
  <2>1. CASE v = <<>>
    <3>1. la = z
      BY <1>13, <2>1 DEF Queue, z
    <3>2. x[1].seq = z
      <4>1. StartOf(x, t) = z
        BY <1>9, <2>1 DEF StartOf
      <4> QED
        BY <1>11, <4>1 DEF StartOf
    <3>3. 1 \in 1 .. Len(x)
      BY <1>6, <1>7, <1>4, <1>11
    <3>4. Shaped(x[1]) /\ Own(x[1], b)
      BY <1>6, <1>7, <3>3 DEF Run
    <3>5. x[1].seq < Stop(x[1])
      BY <1>3, <3>4, OwnFacts
    <3> QED
      BY <1>1, <3>1, <3>2, <3>5
  <2>2. CASE v # <<>>
    <3>1. v[1].seq <= la /\ la < Stop(v[1])
      BY <1>13, <2>2 DEF Queue
    <3>2. x[1].seq = v[1].seq /\ Stop(v[1]) <= Stop(x[1])
      BY <1>8, <2>2
    <3>3. Stop(v[1]) \in Nat /\ Stop(x[1]) \in Nat
      <4>1. v[1] \in Segment /\ x[1] \in Segment
        BY <1>7, <1>8, <2>2
      <4> QED
        BY ONLY <4>1, SegmentStop
    <3> QED
      BY <3>1, <3>2, <3>3
  <2> QED
    BY <2>1, <2>2
<1>14. Queue(u, x, la, b)
  <2>1. Run(x, EndOf(b), b) /\ Run(u, StartOf(x, EndOf(b)), b)
    BY <1>6, <1>10 DEF t
  <2> QED
    BY ONLY <1>11, <1>12, <1>13, <2>1 DEF Queue
<1> QED
  BY <1>6, <1>14 DEF x, b, a, c, z, fill

\* tcp_write: what it queues is the next part of the stream, behind everything queued before.
LEMMA WriteKeeps ==
  ASSUME NEW d, FlowOK(d), ~d.closed, NEW n \in Nat, n >= 1, d.first + (d.written + n) + 2 * Wnd + 2 <= Half,
         NEW p \in Block, Snd(p, d), p.state # "TIME_WAIT", n <= p.snd_buf
  PROVE  LET q == Enqueued(p, n, d.written)
         IN  /\ q \in Block /\ Snd(q, Wrote(d, n)) /\ SameRcv(p, q) /\ q.state = p.state
             /\ q.snd_nxt = p.snd_nxt
<1> DEFINE b == Wrote(d, n)
           z == EndOf(d)
           fill == Filling(p.unsent, n)
           x == Lengthened(p.unsent, fill) \o Fresh(z, d.written, fill, n)
           s == p.snd_buf - n
           q == Enqueued(p, n, d.written)
<1>1. /\ FlowOK(b) /\ Grown(d, b)
      /\ b.first = d.first /\ b.closed = d.closed /\ b.sent = d.sent
      /\ b.limit = d.limit /\ b.got = d.got /\ EndOf(b) = z + n
  BY WroteIs
<1>2. /\ p.unsent \in Seq(Segment) /\ p.unacked \in Seq(Segment) /\ p.lastack \in Nat
      /\ p.snd_buf \in Int /\ p.snd_lbb \in Nat
  BY DEF Block
<1>3. /\ p.snd_lbb = z /\ QueuesOK(p, d)
  BY UnshutQueue DEF Snd
<1>4. Queue(p.unacked, p.unsent, p.lastack, d)
  BY <1>3 DEF QueuesOK
<1>5. x \in Seq(Segment) /\ Queue(p.unacked, x, p.lastack, b)
  BY <1>2, <1>4, QueueWrite
<1>6. Add(z, n) = z + n /\ z \in Nat /\ z + n \in Nat
  <2>1. EndOf(b) \in Nat /\ EndOf(b) + 2 * Wnd + 1 <= Half /\ z \in Nat
    BY <1>1, FlowFacts
  <2>2. Half \in Nat /\ SeqSpace = 2 * Half /\ Wnd \in Nat
    BY SizeFacts
  <2> HIDE DEF z
  <2>3. z + n < SeqSpace /\ z + n \in Nat
    BY <1>1, <2>1, <2>2
  <2>4. Add(z, n) = z + n
    BY <2>1, <2>3, AddIs
  <2> QED
    BY <2>1, <2>3, <2>4
<1>7. q = [p EXCEPT !.unsent = x, !.snd_lbb = z + n, !.snd_buf = s]
  <2>1. q = [p EXCEPT !.unsent = x, !.snd_lbb = Add(@, n), !.snd_buf = @ - n]
    <3> DEFINE l == p.snd_lbb
               y == Lengthened(p.unsent, Filling(p.unsent, n)) \o Fresh(l, d.written, Filling(p.unsent, n), n)
    <3>1. q = [p EXCEPT !.unsent = y, !.snd_lbb = Add(@, n), !.snd_buf = @ - n]
      BY DEF Enqueued, Lengthened, Fresh, Filling
    <3>2. l = z
      BY <1>3
    <3> QED
      BY <3>1, <3>2
  <2> QED
    BY <1>3, <1>6, <2>1 DEF Block
<1> HIDE DEF q, x, b, s, fill
<1>8. s \in Int /\ s >= 0 /\ s = p.snd_buf - n
  BY <1>2 DEF s
<1> HIDE DEF z
<1>9. q \in Block
  BY <1>5, <1>6, <1>7, <1>8 DEF Block
<1>10. q.unsent = x /\ q.snd_lbb = z + n /\ q.snd_buf = s
  BY <1>7 DEF Block
<1>11. /\ q.unacked = p.unacked /\ q.snd_nxt = p.snd_nxt /\ q.lastack = p.lastack /\ q.snd_wnd = p.snd_wnd
       /\ q.cwnd = p.cwnd /\ q.rtime = p.rtime /\ q.state = p.state
  BY <1>7 DEF Block
<1>12. SameRcv(p, q)
  BY <1>7 DEF Block, SameRcv
<1>13. QueuesOK(q, b)
  <2>1. SentOK(p.unacked, b)
    <3>1. SentOK(p.unacked, d)
      BY <1>3 DEF QueuesOK
    <3> QED
      BY <1>1, <3>1 DEF SentOK
  <2>2. p.rtime <=> p.unacked # <<>>
    BY <1>3 DEF QueuesOK
  <2>3. s = SndBuf - ((z + n) - p.lastack)
    <3>1. p.snd_buf = SndBuf - (p.snd_lbb - p.lastack)
      BY <1>3 DEF QueuesOK
    <3> DEFINE e == p.snd_buf
               g == p.lastack
    <3>2. e = SndBuf - (z - g) /\ g \in Nat /\ SndBuf \in Nat /\ e \in Int /\ s = e - n
      BY <1>2, <1>3, <1>8, <3>1, SizeFacts
    <3> HIDE DEF e, g
    <3>3. s = SndBuf - ((z + n) - g)
      BY ONLY <1>6, <3>2, n \in Nat
    <3> QED
      BY <3>3 DEF g
  <2>4. q.snd_lbb = EndOf(b)
    BY <1>1, <1>10
  <2> QED
    BY <1>5, <1>10, <1>11, <2>1, <2>2, <2>3, <2>4 DEF QueuesOK
<1>14. q.snd_lbb <= EndOf(b)
  BY <1>1, <1>6, <1>10
<1>15. /\ d.first <= p.lastack /\ p.lastack <= d.first + d.got /\ p.snd_nxt = d.sent
       /\ Wnd - Mss <= p.snd_wnd /\ p.snd_wnd <= Wnd /\ p.lastack + p.snd_wnd <= d.limit
       /\ Mss <= p.cwnd
  BY DEF Snd
<1>16. Snd(q, b)
  BY <1>1, <1>8, <1>10, <1>11, <1>13, <1>14, <1>15 DEF Snd
<1> QED
  BY <1>9, <1>11, <1>12, <1>16 DEF q, b

-----------------------------------------------------------------------------
(* The handlers of one end *)

\* What decides about acknowledgements and windows is the same.
SameAcks(p, q) ==
  /\ q.lastack = p.lastack /\ q.snd_wl1 = p.snd_wl1 /\ q.snd_wl2 = p.snd_wl2 /\ q.edge = p.edge

\* A handler that changes the block, from p to q, and ends with tcp_output.
LEMMA OutputLeaves ==
  ASSUME NEW d, FlowOK(d), NEW r, FlowOK(r), NEW a, FlowOK(a), Grown(r, a), a.got = r.got, a.limit = r.limit,
         NEW p \in Block, NEW h \in BOOLEAN, NEW w \in WorkSet, w.data = <<>>, w.fin = FALSE, w.out = {},
         Snd(w.p, a), Rcv(w.p, d), StateOK(w.p, a.closed, h), SameAcks(p, w.p)
  PROVE  LET v == Output(w)
         IN  Leaves(p, v, d, r, a, h) /\ v.p.state = w.p.state
<1> DEFINE v == Output(w)
<1>1. v = Output(w)
  OBVIOUS
<1> HIDE DEF v
<1>2. FramesOK(w, a, d)
  BY DEF FramesOK
<1>3. p.edge <= w.p.edge
  <2>1. p.edge \in Nat
    BY DEF Block
  <2> QED
    BY <2>1 DEF SameAcks
<1>4. Quiet(p, r, d) /\ d.sent = d.first => Quiet(w.p, r, d)
  BY DEF SameAcks, Quiet
<1>5. w \in WorkSet /\ w.data = <<>> /\ w.fin = FALSE /\ Snd(w.p, a) /\ Rcv(w.p, d) /\ StateOK(w.p, a.closed, h)
  OBVIOUS
<1>6. FlowOK(d) /\ FlowOK(r) /\ FlowOK(a) /\ Grown(r, a) /\ a.got = r.got /\ a.limit = r.limit
  OBVIOUS
<1>7. Leaves(p, Output(w), d, r, a, h) /\ Output(w).p.state = w.p.state
  BY ONLY p \in Block, h \in BOOLEAN, <1>2, <1>3, <1>4, <1>5, <1>6, SentKeeps
<1> QED
  BY <1>7 DEF v

\* TcpIp_TcpTransmit: tcp_write and tcp_output.
LEMMA TransmitKeeps ==
  ASSUME NEW d, FlowOK(d), NEW r, FlowOK(r), NEW p \in Block, NEW h \in BOOLEAN, Rest(p, d, r, h),
         p.state \in {"ESTABLISHED", "CLOSE_WAIT"}, NEW n \in Nat, n >= 1, n <= p.snd_buf,
         r.first + (r.written + n) + 2 * Wnd + 2 <= Half
  PROVE  /\ ~r.closed
         /\ Leaves(p, Output(Work(Enqueued(p, n, r.written))), d, r, Wrote(r, n), h)
<1>1. p # Gone
  BY DEF Gone
<1>2. Snd(p, r) /\ Rcv(p, d) /\ StateOK(p, r.closed, h)
  BY <1>1 DEF Rest
<1>3. ~r.closed
  BY <1>2 DEF StateOK, Phase
<1> DEFINE a == Wrote(r, n)
           q == Enqueued(p, n, r.written)
<1>4. q \in Block /\ Snd(q, a) /\ SameRcv(p, q) /\ q.state = p.state /\ q.snd_nxt = p.snd_nxt
  <2>1. p.state # "TIME_WAIT"
    OBVIOUS
  <2> QED
    BY <1>2, <1>3, <2>1, WriteKeeps
<1>5. FlowOK(a) /\ Grown(r, a) /\ a.got = r.got /\ a.limit = r.limit /\ a.closed = r.closed
  BY <1>3, WroteIs
<1> HIDE DEF a, q
<1>6. Rcv(q, d)
  BY <1>2, <1>4 DEF Rcv, SameRcv, OoseqOK
<1>7. StateOK(q, a.closed, h)
  BY <1>2, <1>4, <1>5 DEF StateOK, Phase, SameRcv
<1>8. SameAcks(p, q)
  BY <1>4 DEF SameAcks, SameRcv
<1> DEFINE w == Work(q)
<1>9. w \in WorkSet /\ w.p = q /\ w.data = <<>> /\ w.fin = FALSE /\ w.out = {}
  BY <1>4, WorkIs
<1>10. w = Work(q)
  OBVIOUS
<1> HIDE DEF w
<1>11. Snd(w.p, a) /\ Rcv(w.p, d) /\ StateOK(w.p, a.closed, h) /\ SameAcks(p, w.p)
  BY <1>4, <1>6, <1>7, <1>8, <1>9
<1>12. Leaves(p, Output(w), d, r, a, h) /\ Output(w).p.state = w.p.state
  BY ONLY FlowOK(d), FlowOK(r), p \in Block, h \in BOOLEAN, <1>5, <1>9, <1>11, OutputLeaves, ZenonT(60)
<1> QED
  BY <1>3, <1>10, <1>12 DEF a, q

\* The block alone is changed, and nothing is sent.
LEMMA QuietlyLeaves ==
  ASSUME NEW d, FlowOK(d), NEW r, FlowOK(r), NEW p \in Block, NEW h \in BOOLEAN,
         NEW w \in WorkSet, w.data = <<>>, w.fin = FALSE, w.out = {},
         Snd(w.p, r), Busy(w.p), Rcv(w.p, d), StateOK(w.p, r.closed, h), SameAcks(p, w.p)
  PROVE  Outcome(p, w, d, r, d, r, h)
<1>1. FramesOK(w, r, d)
  BY DEF FramesOK
<1>2. p.edge <= w.p.edge
  <2>1. p.edge \in Nat
    BY DEF Block
  <2> QED
    BY <2>1 DEF SameAcks
<1>3. Quiet(p, r, d) /\ d.sent = d.first => Quiet(w.p, r, d)
  BY DEF SameAcks, Quiet
<1>4. Grown(r, r)
  BY SameFlow
<1> QED
  BY <1>1, <1>2, <1>3, <1>4, StillKeeps

\* tcp_slowtmr drops ooseq.
LEMMA DropKeeps ==
  ASSUME NEW d, FlowOK(d), NEW r, FlowOK(r), NEW p \in Block, NEW h \in BOOLEAN, p # Gone, Rest(p, d, r, h)
  PROVE  Outcome(p, Work([p EXCEPT !.ooseq = <<>>]), d, r, d, r, h)
<1>1. Snd(p, r) /\ Busy(p) /\ Rcv(p, d) /\ StateOK(p, r.closed, h)
  BY DEF Rest
<1> DEFINE q == [p EXCEPT !.ooseq = <<>>]
<1>2. <<>> \in Seq(Fragment) /\ Len(<<>>) = 0
  OBVIOUS
<1>3. q \in Block
  BY <1>2 DEF Block
<1>4. q.ooseq = <<>>
  BY DEF Block
<1>5. /\ q.rcv_nxt = p.rcv_nxt /\ q.rcv_wnd = p.rcv_wnd /\ q.rcv_ann_wnd = p.rcv_ann_wnd
      /\ q.edge = p.edge /\ q.lastack = p.lastack /\ q.snd_wl1 = p.snd_wl1 /\ q.snd_wl2 = p.snd_wl2
  BY DEF Block
<1>6. SameSend(p, q) /\ q.state = p.state /\ q.rxclosed = p.rxclosed /\ q.unsent = p.unsent /\ q.unacked = p.unacked
  BY DEF Block, SameSend
<1> HIDE DEF q
<1>7. Snd(q, r)
  BY <1>1, <1>6, SndSame
<1>8. Fragments(<<>>, q.rcv_nxt, d)
  BY <1>2 DEF Fragments, Sorted
<1>9. Rcv(q, d)
  BY <1>1, <1>4, <1>5, <1>8 DEF Rcv, OoseqOK
<1>10. Busy(q) /\ StateOK(q, r.closed, h) /\ SameAcks(p, q)
  BY <1>1, <1>5, <1>6 DEF Busy, StateOK, Phase, SameAcks
<1> DEFINE w == Work(q)
<1>11. w \in WorkSet /\ w.p = q /\ w.data = <<>> /\ w.fin = FALSE /\ w.out = {}
  BY <1>3, WorkIs
<1> HIDE DEF w
<1>12. Snd(w.p, r) /\ Busy(w.p) /\ Rcv(w.p, d) /\ StateOK(w.p, r.closed, h) /\ SameAcks(p, w.p)
  BY <1>7, <1>9, <1>10, <1>11
<1>13. Outcome(p, w, d, r, d, r, h)
  BY <1>11, <1>12, QuietlyLeaves
<1> QED
  BY <1>13 DEF w, q

\* tcp_close when it has not queued a FIN.
LEMMA ClosedStays ==
  ASSUME NEW w \in WorkSet, NEW memory, Closed(w, memory).p.state = w.p.state
  PROVE  Closed(w, memory).p = [w.p EXCEPT !.rxclosed = TRUE]
<1> DEFINE p == [w.p EXCEPT !.rxclosed = TRUE]
           a == [w EXCEPT !.p = [SendFin(p) EXCEPT !.state = "FIN_WAIT_1"]]
           b == [w EXCEPT !.p = [SendFin(p) EXCEPT !.state = "LAST_ACK"]]
           c == [w EXCEPT !.p = p]
           v == Closed(w, memory)
<1>1. p.state = w.p.state /\ c.p = p /\ p \in Block
  BY DEF WorkSet, Block
<1>2. "state" \in DOMAIN SendFin(p)
  BY <1>1 DEF SendFin, Block
<1>3. a.p.state = "FIN_WAIT_1" /\ b.p.state = "LAST_ACK"
  <2>1. \A s : [SendFin(p) EXCEPT !.state = s].state = s
    BY <1>2
  <2>2. \A x : [w EXCEPT !.p = x].p = x
    BY DEF WorkSet
  <2> QED
    BY <2>1, <2>2
<1> HIDE DEF a, b, c, p
<1>4. \/ p.state = "ESTABLISHED" /\ v = a
      \/ p.state = "CLOSE_WAIT" /\ v = b
      \/ v = c
  BY DEF Closed, a, b, c, p
<1> HIDE DEF v
<1>5. v.p.state = w.p.state
  BY DEF v
<1>6. v.p = p
  BY <1>1, <1>3, <1>4, <1>5
<1> QED
  BY <1>6 DEF v, p

\* TcpIp_Close.
LEMMA CloseKeeps ==
  ASSUME NEW d, FlowOK(d), NEW r, FlowOK(r), NEW p \in Block, NEW h \in BOOLEAN, p # Gone, Rest(p, d, r, h),
         NEW memory
  PROVE  LET w == Closed(Work(p), memory)
             done == w.p.state # p.state
         IN  /\ ~done => Outcome(p, w, d, r, d, r, h)
             /\ done => ~r.closed /\ Leaves(p, Output(w), d, r, Shut(r), h)
<1>1. Snd(p, r) /\ Busy(p) /\ Rcv(p, d) /\ StateOK(p, r.closed, h)
  BY DEF Rest
<1> DEFINE o == Work(p)
<1>2. o \in WorkSet /\ o.p = p /\ o.data = <<>> /\ o.fin = FALSE /\ o.out = {}
  BY WorkIs
<1> DEFINE w == Closed(o, memory)
           now == w.p.state # o.p.state
           b == Shutting(r, now)
<1>3. /\ w \in WorkSet /\ w.data = o.data /\ w.fin = o.fin /\ w.out = o.out
      /\ FlowOK(b) /\ Grown(r, b) /\ Snd(w.p, b) /\ SameGet(o.p, w.p)
      /\ StateOK(w.p, b.closed, h)
      /\ now => ~r.closed
  <2> HIDE DEF o
  <2>1. Snd(o.p, r) /\ Phase(o.p, r.closed, h)
    BY <1>1, <1>2 DEF StateOK
  <2> QED
    BY <1>2, <2>1, ClosedKeeps
<1>4. ~now => w.p = [p EXCEPT !.rxclosed = TRUE]
  BY <1>2, ClosedStays
<1>5. w = Closed(Work(p), memory) /\ (now <=> w.p.state # p.state)
  BY <1>2
<1> HIDE DEF o, w, now
<1>6. SameAcks(p, w.p)
  BY <1>2, <1>3 DEF SameAcks, SameGet
<1>7. Rcv(w.p, d)
  BY <1>1, <1>2, <1>3 DEF Rcv, SameGet, OoseqOK
<1>8. ASSUME ~now PROVE Outcome(p, w, d, r, d, r, h)
  <2>1. b = r
    BY <1>8 DEF Shutting
  <2>2. w.p.unsent = p.unsent /\ w.p.unacked = p.unacked
    BY <1>4, <1>8 DEF Block
  <2>3. Busy(w.p)
    BY <1>1, <2>2 DEF Busy
  <2>4. Snd(w.p, r) /\ StateOK(w.p, r.closed, h)
    BY <1>3, <2>1
  <2>5. w \in WorkSet /\ w.data = <<>> /\ w.fin = FALSE /\ w.out = {}
    BY <1>2, <1>3
  <2> QED
    BY <1>6, <1>7, <2>3, <2>4, <2>5, QuietlyLeaves
<1>9. ASSUME now PROVE ~r.closed /\ Leaves(p, Output(w), d, r, Shut(r), h)
  <2> DEFINE a == Shut(r)
  <2>1. b = a
    BY <1>9 DEF Shutting
  <2>2. ~r.closed
    BY <1>3, <1>9
  <2>3. FlowOK(a) /\ Grown(r, a) /\ a.got = r.got /\ a.limit = r.limit
    BY <2>2, ShutIs
  <2>4. Snd(w.p, a) /\ StateOK(w.p, a.closed, h)
    BY <1>3, <2>1
  <2>5. w \in WorkSet /\ w.data = <<>> /\ w.fin = FALSE /\ w.out = {}
    BY <1>2, <1>3
  <2> HIDE DEF a, b
  <2>6. Leaves(p, Output(w), d, r, a, h) /\ Output(w).p.state = w.p.state
    BY ONLY FlowOK(d), FlowOK(r), p \in Block, h \in BOOLEAN, <1>6, <1>7, <2>3, <2>4, <2>5, OutputLeaves, ZenonT(60)
  <2> QED
    BY <2>2, <2>6 DEF a
<1> QED
  BY <1>5, <1>8, <1>9

-----------------------------------------------------------------------------
(* From the outcome of a call to the invariant *)

\* Streams with the same fields are the same.
LEMMA DirectionEqual ==
  ASSUME NEW a \in Direction, NEW b \in Direction,
         a.first = b.first, a.written = b.written, a.closed = b.closed,
         a.sent = b.sent, a.got = b.got, a.limit = b.limit
  PROVE  a = b
BY DEF Direction

\* The direction b, with the right edge further on.
Widened(b, c) ==
  /\ c \in Direction
  /\ c.first = b.first /\ c.written = b.written /\ c.closed = b.closed /\ c.sent = b.sent /\ c.got = b.got
  /\ b.limit <= c.limit /\ c.limit <= c.first + c.got + Wnd

\* A stream whose right edge moves on has grown.
LEMMA WidenedIs ==
  ASSUME NEW b, FlowOK(b), NEW c, Widened(b, c)
  PROVE  FlowOK(c) /\ Grown(b, c)
<1>1. b.written <= b.written /\ b.sent <= b.sent /\ b.got <= b.got
  BY FlowFacts
<1>2. EndOf(c) = EndOf(b)
  BY SameStream DEF Widened
<1>3. Grown(b, c)
  BY <1>1 DEF Widened, Grown
<1>4. FlowOK(c)
  BY <1>2 DEF Widened, FlowOK
<1> QED
  BY <1>3, <1>4

\* The block of the sender when the receiver gets more.
LEMMA SndPeer ==
  ASSUME NEW d, FlowOK(d), NEW c, FlowOK(c), Grown(d, c),
         c.written = d.written, c.closed = d.closed, c.sent = d.sent,
         NEW p \in Block, Snd(p, d)
  PROVE  Snd(p, c)
<1>1. c.first = d.first /\ d.got <= c.got /\ d.limit <= c.limit
  BY DEF Grown
<1>2. /\ EndOf(c) = EndOf(d)
      /\ \A u, v, la : Queue(u, v, la, c) <=> Queue(u, v, la, d)
  BY <1>1, SameStream
<1>3. /\ d.got \in Nat /\ c.got \in Nat /\ d.limit \in Nat /\ c.limit \in Nat /\ d.first \in Nat
      /\ p.lastack \in Nat /\ p.snd_wnd \in Nat /\ p.unacked \in Seq(Segment)
  BY FlowFacts DEF Block
<1>4. p.lastack <= c.first + c.got
  <2>1. p.lastack <= d.first + d.got
    BY DEF Snd
  <2> DEFINE a == d.got
             b == c.got
  <2>2. a \in Nat /\ b \in Nat /\ a <= b /\ p.lastack <= d.first + a /\ c.first = d.first
    BY <1>1, <1>3, <2>1
  <2> HIDE DEF a, b
  <2>3. p.lastack <= d.first + b
    BY <1>3, <2>2
  <2> QED
    BY <2>2, <2>3 DEF b
<1>5. p.lastack + p.snd_wnd <= c.limit
  <2>1. p.lastack + p.snd_wnd <= d.limit
    BY DEF Snd
  <2> QED
    BY <1>1, <1>3, <2>1
<1>6. ASSUME QueuesOK(p, d) PROVE QueuesOK(p, c)
  <2>1. SentOK(p.unacked, c)
    <3> SUFFICES ASSUME NEW i \in 1 .. Len(p.unacked)
                 PROVE  /\ Stop(p.unacked[i]) <= c.sent
                        /\ p.unacked[i].len > 0 => p.unacked[i].seq + p.unacked[i].len <= c.limit
      BY DEF SentOK
    <3>1. /\ Stop(p.unacked[i]) <= d.sent
          /\ p.unacked[i].len > 0 => p.unacked[i].seq + p.unacked[i].len <= d.limit
      BY <1>6 DEF QueuesOK, SentOK
    <3>2. p.unacked[i] \in Segment
      BY <1>3
    <3>3. p.unacked[i].seq + p.unacked[i].len \in Nat
      BY <3>2 DEF Segment
    <3> QED
      BY <1>1, <1>3, <3>1, <3>3
  <2> QED
    BY <1>2, <1>6, <2>1 DEF QueuesOK
<1> QED
  BY <1>1, <1>2, <1>4, <1>5, <1>6 DEF Snd

\* The block of the receiver when the sender writes or sends more.
LEMMA RcvPeer ==
  ASSUME NEW d, FlowOK(d), NEW c, FlowOK(c), Grown(d, c), c.got = d.got,
         NEW p \in Block, Rcv(p, d)
  PROVE  Rcv(p, c)
<1>1. c.first = d.first /\ d.sent <= c.sent /\ d.sent \in Nat /\ c.sent \in Nat
  BY FlowFacts DEF Grown
<1>2. p.ooseq \in Seq(Fragment)
  BY DEF Block
<1>3. OoseqOK(p, c)
  <2>1. Fragments(p.ooseq, p.rcv_nxt, d)
    BY DEF Rcv, OoseqOK
  <2>2. ASSUME NEW i \in 1 .. Len(p.ooseq) PROVE Fits(p.ooseq[i], p.rcv_nxt, c)
    <3>1. Fits(p.ooseq[i], p.rcv_nxt, d)
      BY <2>1 DEF Fragments
    <3>2. p.ooseq[i] \in Fragment /\ Shaped(p.ooseq[i])
      BY <1>2, FragmentQueue
    <3>3. Own(p.ooseq[i], c)
      BY <3>1, <3>2, GrownOwn DEF Fits
    <3>4. Stop(p.ooseq[i]) <= c.sent
      <4>1. Stop(p.ooseq[i]) \in Nat /\ Stop(p.ooseq[i]) <= d.sent
        BY <3>1, <3>2, FragmentFacts DEF Fits
      <4> QED
        BY <1>1, <4>1
    <3> QED
      BY <3>1, <3>3, <3>4 DEF Fits
  <2> QED
    BY <2>1, <2>2 DEF Fragments, OoseqOK
<1> QED
  BY <1>1, <1>3 DEF Rcv

\* What was delivered is numbered without a gap, and stays so.
LEMMA DeliveredMore ==
  ASSUME NEW x \in Seq(Nat), x = [i \in 1 .. Len(x) |-> i], NEW n \in Nat, NEW y, Counts(y, n, Len(x))
  PROVE  /\ x \o y \in Seq(Nat) /\ Len(x \o y) = Len(x) + n
         /\ x \o y = [i \in 1 .. Len(x \o y) |-> i]
<1>1. y \in Seq(Nat) /\ Len(y) = n /\ \A k \in 1 .. n : y[k] = Len(x) + k
  BY DEF Counts
<1>2. x \o y \in Seq(Nat) /\ Len(x \o y) = Len(x) + n
  BY <1>1
<1> DEFINE m == Len(x)
           w == [i \in 1 .. m + n |-> i]
           z == x \o y
<1>3. m \in Nat
  OBVIOUS
<1>4. w \in Seq(Nat) /\ Len(w) = m + n
  BY <1>3
<1>5. \A i \in 1 .. m + n : z[i] = i
  <2> TAKE i \in 1 .. m + n
  <2>1. CASE i <= m
    <3>1. i \in 1 .. m
      BY <1>3, <2>1
    <3>2. x[i] = i
      BY <3>1
    <3>3. z[i] = x[i]
      BY <1>1, <1>3, <3>1
    <3> QED
      BY <3>2, <3>3
  <2>2. CASE i > m
    <3>1. i - m \in 1 .. n
      BY <1>3, <2>2
    <3>2. z[i] = y[i - m]
      BY <1>1, <1>3, <2>2, <3>1
    <3>3. y[i - m] = m + (i - m)
      BY <1>1, <3>1
    <3>4. m + (i - m) = i
      <4> HIDE DEF m
      <4> QED
        BY <1>3
    <3> QED
      BY <3>2, <3>3, <3>4
  <2>3. i <= m \/ i > m
    <3> HIDE DEF m
    <3> QED
      BY <1>3
  <2> QED
    BY <2>1, <2>2, <2>3
<1>6. z = w
  <2>1. z \in Seq(Nat) /\ Len(z) = m + n
    BY <1>2
  <2>2. \A i \in 1 .. m + n : w[i] = i
    OBVIOUS
  <2> HIDE DEF z, w, m
  <2> QED
    BY <1>3, <1>4, <1>5, <2>1, <2>2, SeqEqual
<1> QED
  BY <1>2, <1>6

\* A step of the end e: v is the result of the handler, t what e sends after it.
StepOf(e, v, t) ==
  /\ pcb' = [pcb EXCEPT ![e] = v.p]
  /\ plan' = plan
  /\ faults' \in 0 .. MaxFaults
  /\ \A m \in net' : m \in net \/ \E s \in v.out : m = [to |-> Other(e), seg |-> s]
  /\ written' = [written EXCEPT ![e] = t.written]
  /\ closed' = IF t.closed THEN closed \cup {e} ELSE closed
  /\ delivered' = [delivered EXCEPT ![e] = @ \o v.data]
  /\ eof' = IF v.fin THEN eof \cup {e} ELSE eof

\* The variables after a step of the end e.
LEMMA StepState ==
  ASSUME Types, NEW e \in Ends, NEW v \in WorkSet, NEW t, t.written \in Nat, t.closed \in BOOLEAN, StepOf(e, v, t)
  PROVE  LET f == Other(e)
         IN  /\ Types'
             /\ pcb'[e] = v.p /\ pcb'[f] = pcb[f]
             /\ written'[e] = t.written /\ written'[f] = written[f]
             /\ e \in closed' <=> t.closed \/ e \in closed
             /\ f \in closed' <=> f \in closed
             /\ delivered'[e] = delivered[e] \o v.data /\ delivered'[f] = delivered[f]
             /\ e \in eof' <=> v.fin \/ e \in eof
             /\ f \in eof' <=> f \in eof
<1> DEFINE f == Other(e)
<1>1. f \in Ends /\ f # e
  BY EndsFacts
<1>2. pcb \in [Ends -> Block] /\ written \in [Ends -> Nat] /\ delivered \in [Ends -> Seq(Nat)]
  BY DEF Types
<1>3. v.p \in Block /\ v.out \subseteq Frame /\ v.data \in Seq(Nat) /\ v.fin \in BOOLEAN
  BY FramesIs DEF WorkSet
<1> HIDE DEF f
<1>4. pcb' \in [Ends -> Block] /\ pcb'[e] = v.p /\ pcb'[f] = pcb[f]
  BY <1>1, <1>2, <1>3 DEF StepOf
<1>5. written' \in [Ends -> Nat] /\ written'[e] = t.written /\ written'[f] = written[f]
  BY <1>1, <1>2 DEF StepOf
<1>6. delivered' \in [Ends -> Seq(Nat)] /\ delivered'[e] = delivered[e] \o v.data /\ delivered'[f] = delivered[f]
  <2> DEFINE x == delivered[e] \o v.data
  <2>1. x \in Seq(Nat)
    BY <1>2, <1>3
  <2>2. delivered' = [delivered EXCEPT ![e] = x]
    BY DEF StepOf
  <2> HIDE DEF x
  <2>3. delivered' \in [Ends -> Seq(Nat)] /\ delivered'[e] = x /\ delivered'[f] = delivered[f]
    BY <1>1, <1>2, <2>1, <2>2
  <2> QED
    BY <2>3 DEF x
<1>7. /\ closed' \subseteq Ends /\ eof' \subseteq Ends
      /\ e \in closed' <=> t.closed \/ e \in closed
      /\ f \in closed' <=> f \in closed
      /\ e \in eof' <=> v.fin \/ e \in eof
      /\ f \in eof' <=> f \in eof
  BY <1>1, <1>3 DEF StepOf, Types
<1>8. \A m \in net' : m.to \in Ends /\ m.seg \in Frame
  <2> SUFFICES ASSUME NEW m \in net' PROVE m.to \in Ends /\ m.seg \in Frame
    OBVIOUS
  <2>1. CASE m \in net
    BY <2>1 DEF Types
  <2>2. CASE \E s \in v.out : m = [to |-> Other(e), seg |-> s]
    <3>1. PICK s \in v.out : m = [to |-> f, seg |-> s]
      BY <2>2 DEF f
    <3> QED
      BY <1>1, <1>3, <3>1
  <2> QED
    BY <2>1, <2>2 DEF StepOf
<1>9. plan' \in Plans /\ faults' \in 0 .. MaxFaults
  BY DEF StepOf, Types
<1>10. Types'
  BY <1>4, <1>5, <1>6, <1>7, <1>8, <1>9 DEF Types
<1> QED
  BY <1>4, <1>5, <1>6, <1>7, <1>10 DEF f

\* What an end has got, before and after a step.
LEMMA GotMore ==
  ASSUME NEW x \in Seq(Nat), NEW y \in Seq(Nat), NEW h \in BOOLEAN, NEW fin \in BOOLEAN,
         y # <<>> \/ fin => ~h
  PROVE  Len(x \o y) + Bit(fin \/ h) = Len(x) + Bit(h) + Len(y) + Bit(fin)
<1> DEFINE i == Len(x)
           j == Len(y)
<1>1. Len(x \o y) = i + j /\ i \in Nat /\ j \in Nat /\ (y = <<>> => j = 0)
  OBVIOUS
<1> HIDE DEF i, j
<1>2. (i + j) + Bit(fin \/ h) = i + Bit(h) + j + Bit(fin)
  BY <1>1 DEF Bit
<1> QED
  BY <1>1, <1>2 DEF i, j

\* The two directions after a step.
LEMMA FlowStep ==
  ASSUME NEW first, NEW e \in Ends, Inv(first), NEW v, NEW b, NEW t,
         Outcome(pcb[e], v, Flow(first, Other(e)), Flow(first, e), b, t, e \in eof),
         StepOf(e, v, t), pcb[e] = Gone => v.p = Gone
  PROVE  LET f == Other(e)
         IN  /\ Flow(first, e)' = t
             /\ Widened(b, Flow(first, f)')
             /\ Open(f)' <=> Open(f)
             /\ Open(e)' => Open(e)
<1> DEFINE f == Other(e)
           d == Flow(first, f)
           r == Flow(first, e)
           h == e \in eof
<1>1. f \in Ends /\ Other(f) = e /\ f # e
  BY EndsFacts
<1>2. /\ v \in WorkSet /\ FlowOK(b) /\ FlowOK(t) /\ Grown(d, b) /\ Grown(r, t)
      /\ b.written = d.written /\ b.closed = d.closed /\ b.sent = d.sent /\ b.limit = d.limit
      /\ b.got = d.got + Len(v.data) + Bit(v.fin)
      /\ t.got = r.got /\ t.limit = r.limit
      /\ Heard(v, d, h)
      /\ (v.p = Gone /\ t.sent = EndOf(t)) \/ Alive(pcb[e], v, d, r, b, t, h)
  BY DEF Outcome
<1>3. /\ t \in Direction /\ t.written \in Nat /\ t.closed \in BOOLEAN /\ b \in Direction
  BY <1>2 DEF FlowOK, Direction
<1>4. /\ r.first = first[e] /\ r.written = written[e] /\ r.closed = (e \in closed)
      /\ r.got = Len(delivered[f]) + Bit(f \in eof)
      /\ r.limit = IF Open(f) THEN pcb[f].edge ELSE r.first + r.got + Wnd
  BY DEF Flow
<1>5. /\ d.first = first[f] /\ d.written = written[f] /\ d.closed = (f \in closed)
      /\ d.sent = IF Live(f) THEN pcb[f].snd_nxt ELSE first[f] + written[f] + Bit(f \in closed)
      /\ d.got = Len(delivered[e]) + Bit(e \in eof)
      /\ d.limit = IF Open(e) THEN pcb[e].edge ELSE d.first + d.got + Wnd
  BY <1>1 DEF Flow
<1>6. /\ pcb'[e] = v.p /\ pcb'[f] = pcb[f]
      /\ written'[e] = t.written /\ written'[f] = written[f]
      /\ e \in closed' <=> t.closed
      /\ f \in closed' <=> f \in closed
      /\ delivered'[e] = delivered[e] \o v.data /\ delivered'[f] = delivered[f]
      /\ e \in eof' <=> v.fin \/ e \in eof
      /\ f \in eof' <=> f \in eof
  <2>1. Types
    BY DEF Inv
  <2>2. e \in closed => t.closed
    BY <1>2, <1>4 DEF Grown
  <2> QED
    BY <1>2, <1>3, <2>1, <2>2, StepState
<1>7. Open(f)' <=> Open(f)
  BY <1>6 DEF Open, Live
<1>8. Open(e)' => Open(e) /\ v.p # Gone
  <2> SUFFICES ASSUME Open(e)' PROVE Open(e) /\ v.p # Gone
    OBVIOUS
  <2>1. v.p.state # "CLOSED" /\ t.written = 0 /\ ~t.closed
    BY <1>6 DEF Open, Live
  <2>2. v.p # Gone /\ pcb[e] # Gone
    BY <2>1, GoneBlock
  <2>3. pcb[e].state # "CLOSED"
    <3>1. pcb[e] = Gone \/ StateOK(pcb[e], e \in closed, e \in eof)
      BY DEF Inv, EndInv
    <3> QED
      BY <2>2, <3>1 DEF StateOK, Phase
  <2>4. r.written <= t.written /\ (r.closed => t.closed)
    BY <1>2 DEF Grown
  <2>5. written[e] = 0
    <3>1. written[e] \in Nat
      BY DEF Inv, Types
    <3> QED
      BY <1>4, <2>1, <2>4, <3>1
  <2> QED
    BY <1>4, <2>1, <2>2, <2>3, <2>4, <2>5 DEF Open, Live
<1> DEFINE c == Flow(first, e)'
           g == Flow(first, f)'
<1>9. c = t
  <2>1. /\ c.first = first[e] /\ c.written = written'[e] /\ c.closed = (e \in closed')
        /\ c.sent = IF pcb'[e].state # "CLOSED" THEN pcb'[e].snd_nxt
                    ELSE first[e] + written'[e] + Bit(e \in closed')
        /\ c.got = Len(delivered'[f]) + Bit(f \in eof')
        /\ c.limit = IF Open(f)' THEN pcb'[f].edge ELSE c.first + c.got + Wnd
    BY DEF Flow, Live
  <2>2. c = [first |-> c.first, written |-> c.written, closed |-> c.closed, sent |-> c.sent,
             got |-> c.got, limit |-> c.limit]
    BY DEF Flow
  <2> HIDE DEF c
  <2>3. t.first = first[e]
    BY <1>2, <1>4 DEF Grown
  <2>4. c.first = t.first /\ c.written = t.written
    BY <1>6, <2>1, <2>3
  <2>5. c.closed = t.closed
    BY <1>3, <1>6, <2>1
  <2>6. c.got = t.got
    BY <1>2, <1>4, <1>6, <2>1
  <2>7. c.limit = t.limit
    <3>1. r.first = t.first
      BY <1>2 DEF Grown
    <3> QED
      BY <1>2, <1>4, <1>6, <1>7, <2>1, <2>4, <2>6, <3>1
  <2>8. c.sent = t.sent
    <3>1. CASE v.p = Gone /\ t.sent = EndOf(t)
      <4>1. v.p.state = "CLOSED"
        BY <3>1, GoneBlock
      <4>2. c.sent = t.first + t.written + Bit(t.closed)
        BY <1>3, <1>6, <2>1, <2>3, <4>1
      <4> QED
        BY <3>1, <4>2 DEF EndOf
    <3>2. CASE Alive(pcb[e], v, d, r, b, t, h)
      <4>1. v.p.state # "CLOSED" /\ v.p.snd_nxt = t.sent
        BY <3>2 DEF Alive, StateOK, Phase, Snd
      <4> QED
        BY <1>6, <2>1, <4>1
    <3> QED
      BY <1>2, <3>1, <3>2
  <2>9. t = [first |-> t.first, written |-> t.written, closed |-> t.closed, sent |-> t.sent,
             got |-> t.got, limit |-> t.limit]
    BY <1>3 DEF Direction
  <2> QED
    BY <2>2, <2>4, <2>5, <2>6, <2>7, <2>8, <2>9
<1>10. /\ g.first = first[f] /\ g.written = written'[f] /\ g.closed = (f \in closed')
       /\ g.sent = IF pcb'[f].state # "CLOSED" THEN pcb'[f].snd_nxt
                   ELSE first[f] + written'[f] + Bit(f \in closed')
       /\ g.got = Len(delivered'[e]) + Bit(e \in eof')
       /\ g.limit = IF Open(e)' THEN pcb'[e].edge ELSE g.first + g.got + Wnd
       /\ g = [first |-> g.first, written |-> g.written, closed |-> g.closed, sent |-> g.sent,
               got |-> g.got, limit |-> g.limit]
  BY <1>1 DEF Flow, Live
<1> HIDE DEF g, c
<1>11. g.first = b.first /\ g.written = b.written /\ g.closed = b.closed /\ g.sent = b.sent
  <2>1. b.first = d.first
    BY <1>2 DEF Grown
  <2>2. g.closed = d.closed
    BY <1>5, <1>6, <1>10
  <2>3. g.sent = d.sent
    BY <1>5, <1>6, <1>10 DEF Live, Bit
  <2> QED
    BY <1>2, <1>5, <1>6, <1>10, <2>1, <2>2, <2>3
<1>12. g.got = b.got
  <2>1. v.data # <<>> \/ v.fin => ~h
    BY <1>2 DEF Heard
  <2>2. delivered[e] \in Seq(Nat)
    BY DEF Inv, Types
  <2>3. v.data \in Seq(Nat) /\ v.fin \in BOOLEAN /\ h \in BOOLEAN
    BY <1>2 DEF WorkSet
  <2>4. Len(delivered[e] \o v.data) + Bit(v.fin \/ h) = Len(delivered[e]) + Bit(h) + Len(v.data) + Bit(v.fin)
    BY <2>1, <2>2, <2>3, GotMore
  <2>5. g.got = Len(delivered[e] \o v.data) + Bit(v.fin \/ h)
    BY <1>6, <1>10 DEF Bit
  <2> QED
    BY <1>2, <1>5, <2>4, <2>5
<1>13. b.limit <= g.limit /\ g.limit <= g.first + g.got + Wnd /\ g.limit \in Nat
  <2>1. b.first \in Nat /\ b.got \in Nat /\ b.limit \in Nat /\ b.limit <= b.first + b.got + Wnd
    BY <1>2, FlowFacts
  <2>2. Wnd \in Nat /\ Mss \in Nat
    BY SizeFacts
  <2>3. CASE Open(e)'
    <3>1. Alive(pcb[e], v, d, r, b, t, h)
      BY <1>2, <1>8, <2>3
    <3>2. pcb[e].edge <= v.p.edge /\ Rcv(v.p, b)
      BY <3>1 DEF Alive
    <3>3. b.limit = pcb[e].edge
      BY <1>2, <1>5, <1>8, <2>3
    <3>4. g.limit = v.p.edge /\ v.p.edge \in Nat /\ v.p.rcv_ann_wnd \in Int
      BY <1>2, <1>6, <1>10, <2>3 DEF WorkSet, Block
    <3>5. v.p.edge <= b.first + b.got + v.p.rcv_ann_wnd /\ v.p.rcv_ann_wnd <= Wnd
      BY <3>2 DEF Rcv
    <3>6. v.p.edge <= b.first + b.got + Wnd
      <4> DEFINE i == b.first
                 j == b.got
                 k == v.p.rcv_ann_wnd
                 l == v.p.edge
      <4>1. i \in Nat /\ j \in Nat /\ k \in Int /\ l \in Nat /\ l <= i + j + k /\ k <= Wnd
        BY <2>1, <3>4, <3>5
      <4> HIDE DEF i, j, k, l
      <4>2. l <= i + j + Wnd
        BY ONLY <2>2, <4>1
      <4> QED
        BY <4>2 DEF i, j, l
    <3> QED
      BY <1>11, <1>12, <3>2, <3>3, <3>4, <3>6
  <2>4. CASE ~Open(e)'
    <3>1. g.limit = b.first + b.got + Wnd
      BY <1>10, <1>11, <1>12, <2>4
    <3> QED
      BY <1>11, <1>12, <2>1, <2>2, <3>1
  <2> QED
    BY <2>3, <2>4
<1>14. g \in Direction
  <2>1. g.first \in Nat /\ g.written \in Nat /\ g.closed \in BOOLEAN /\ g.sent \in Nat /\ g.got \in Nat
    BY <1>3, <1>11, <1>12 DEF Direction
  <2> QED
    BY <1>10, <1>13, <2>1 DEF Direction
<1>15. Widened(b, g)
  BY <1>11, <1>12, <1>13, <1>14 DEF Widened
<1> QED
  BY <1>7, <1>8, <1>9, <1>15 DEF c, g

\* The end that has made the step.
LEMMA ActorKeeps ==
  ASSUME NEW first, NEW e \in Ends, Inv(first), NEW v, NEW b, NEW t,
         Outcome(pcb[e], v, Flow(first, Other(e)), Flow(first, e), b, t, e \in eof),
         StepOf(e, v, t), pcb[e] = Gone => v.p = Gone, t.written <= plan.total[e]
  PROVE  EndInv(first, e)'
<1> DEFINE f == Other(e)
           d == Flow(first, f)
           r == Flow(first, e)
           h == e \in eof
           g == Flow(first, f)'
<1>1. f \in Ends /\ Other(f) = e /\ f # e
  BY EndsFacts
<1>2. /\ v \in WorkSet /\ FlowOK(b) /\ FlowOK(t) /\ Grown(d, b) /\ Grown(r, t)
      /\ b.written = d.written /\ b.closed = d.closed /\ b.sent = d.sent /\ b.limit = d.limit
      /\ b.got = d.got + Len(v.data) + Bit(v.fin)
      /\ t.got = r.got /\ t.limit = r.limit
      /\ Heard(v, d, h)
      /\ (v.p = Gone /\ t.sent = EndOf(t)) \/ Alive(pcb[e], v, d, r, b, t, h)
  BY DEF Outcome
<1>3. Flow(first, e)' = t /\ Widened(b, g) /\ (Open(f)' <=> Open(f))
  BY FlowStep
<1>4. /\ t.written \in Nat /\ t.closed \in BOOLEAN /\ v.p \in Block /\ v.data \in Seq(Nat) /\ v.fin \in BOOLEAN
  BY <1>2 DEF FlowOK, Direction, WorkSet
<1>5. Types /\ EndInv(first, e) /\ EndInv(first, f)
  BY <1>1 DEF Inv
<1>6. r.closed = (e \in closed) /\ r.written = written[e] /\ r.first = first[e]
      /\ d.closed = (f \in closed) /\ d.written = written[f]
      /\ d.got = Len(delivered[e]) + Bit(h)
  BY <1>1 DEF Flow
<1>7. /\ pcb'[e] = v.p
      /\ written'[e] = t.written /\ written'[f] = written[f]
      /\ e \in closed' <=> t.closed
      /\ f \in closed' <=> f \in closed
      /\ delivered'[e] = delivered[e] \o v.data
      /\ e \in eof' <=> v.fin \/ e \in eof
  <2>1. e \in closed => t.closed
    BY <1>2, <1>6 DEF Grown
  <2> QED
    BY <1>2, <1>4, <1>5, <2>1, StepState
<1>8. g.first = d.first /\ g.got = b.got
  BY <1>2, <1>3 DEF Widened, Grown
<1> HIDE DEF g
<1>9. first[e] \in Firsts
  BY <1>5 DEF EndInv
<1>10. v.p = Gone \/ (Snd(v.p, t) /\ Busy(v.p) /\ Rcv(v.p, g) /\ StateOK(v.p, e \in closed', e \in eof'))
  <2> SUFFICES ASSUME Alive(pcb[e], v, d, r, b, t, h)
               PROVE  Snd(v.p, t) /\ Busy(v.p) /\ Rcv(v.p, g) /\ StateOK(v.p, e \in closed', e \in eof')
    BY <1>2
  <2>1. Snd(v.p, t) /\ Busy(v.p) /\ Rcv(v.p, b) /\ StateOK(v.p, t.closed, h \/ v.fin)
    BY DEF Alive
  <2>2. FlowOK(g) /\ Grown(b, g) /\ g.got = b.got
    BY <1>2, <1>3, WidenedIs DEF Widened
  <2>3. Rcv(v.p, g)
    BY <1>2, <1>4, <2>1, <2>2, RcvPeer
  <2>4. StateOK(v.p, e \in closed', e \in eof')
    BY <1>4, <1>7, <2>1 DEF StateOK, Phase
  <2> QED
    BY <2>1, <2>3, <2>4
<1>11. v.p.state # "CLOSED" /\ Open(f)' => Quiet(v.p, t, g)
  <2> SUFFICES ASSUME v.p.state # "CLOSED", Open(f) PROVE Quiet(v.p, t, g)
    BY <1>3
  <2>1. v.p # Gone /\ pcb[e] # Gone
    BY GoneBlock
  <2>2. Alive(pcb[e], v, d, r, b, t, h)
    BY <1>2, <2>1
  <2>3. pcb[e].state # "CLOSED"
    BY <1>5, <2>1 DEF EndInv, StateOK, Phase
  <2>4. Quiet(pcb[e], r, d)
    BY <1>5, <2>3 DEF EndInv
  <2>5. d.sent = d.first
    <3>1. d.written = 0 /\ ~d.closed /\ FlowOK(d)
      BY <1>1, <1>5, <1>6 DEF Open, EndInv
    <3>2. EndOf(d) = d.first + 0 + 0
      BY <3>1 DEF EndOf, Bit
    <3>3. d.first \in Nat /\ d.got \in Nat /\ d.sent \in Nat /\ d.first + d.got <= d.sent /\ d.sent <= EndOf(d)
      BY <3>1, FlowFacts
    <3> QED
      BY <3>2, <3>3
  <2>6. Quiet(v.p, r, d)
    BY <2>2, <2>4, <2>5 DEF Alive
  <2>7. t.first = r.first
    BY <1>2 DEF Grown
  <2> QED
    BY <1>8, <2>6, <2>7 DEF Quiet
<1>12. delivered[e] \in Seq(Nat) /\ delivered[e] = [i \in 1 .. Len(delivered[e]) |-> i] /\ Len(delivered[e]) \in Nat
  BY <1>5 DEF EndInv, Types
<1>13. /\ delivered'[e] = [i \in 1 .. Len(delivered'[e]) |-> i]
       /\ Len(delivered'[e]) = Len(delivered[e]) + Len(v.data)
  <2>1. CASE v.data = <<>>
    <3>1. delivered'[e] = delivered[e]
      BY <1>7, <1>12, <2>1
    <3> QED
      BY <1>12, <2>1, <3>1
  <2>2. CASE v.data # <<>>
    <3>1. ~h /\ Counts(v.data, Len(v.data), d.got)
      BY <1>2, <2>2 DEF Heard
    <3>2. d.got = Len(delivered[e])
      BY <1>6, <1>12, <3>1 DEF Bit
    <3>3. Len(v.data) \in Nat
      BY <1>4
    <3> DEFINE x == delivered[e]
               y == v.data
               n == Len(v.data)
    <3>4. x \in Seq(Nat) /\ x = [i \in 1 .. Len(x) |-> i] /\ n \in Nat /\ Counts(y, n, Len(x))
      BY <1>12, <3>1, <3>2, <3>3
    <3>5. delivered'[e] = x \o y /\ n = Len(v.data) /\ x = delivered[e]
      BY <1>7
    <3> HIDE DEF x, y, n
    <3>6. Len(x \o y) = Len(x) + n /\ x \o y = [i \in 1 .. Len(x \o y) |-> i]
      BY <3>4, DeliveredMore
    <3> QED
      BY <3>5, <3>6
  <2> QED
    BY <2>1, <2>2
<1>14. e \in eof' => f \in closed' /\ Len(delivered'[e]) = written'[f]
  <2> SUFFICES ASSUME e \in eof' PROVE f \in closed /\ Len(delivered[e]) + Len(v.data) = written[f]
    BY <1>7, <1>13
  <2>1. CASE h
    <3>1. v.data = <<>>
      BY <1>2, <2>1 DEF Heard
    <3>2. f \in closed /\ Len(delivered[e]) = written[f]
      BY <1>5, <2>1 DEF EndInv
    <3> QED
      BY <1>12, <3>1, <3>2
  <2>2. CASE ~h
    <3>1. v.fin
      BY <1>7, <2>2
    <3>2. d.closed /\ d.got + Len(v.data) = d.written
      BY <1>2, <3>1 DEF Heard
    <3>3. d.got = Len(delivered[e])
      BY <1>6, <1>12, <2>2 DEF Bit
    <3> QED
      BY <1>6, <3>2, <3>3
  <2> QED
    BY <2>1, <2>2
<1>15. e \notin eof' => Len(delivered'[e]) <= written'[f]
  <2> SUFFICES ASSUME e \notin eof' PROVE Len(delivered[e]) + Len(v.data) <= written[f]
    BY <1>7, <1>13
  <2>1. ~h
    BY <1>7
  <2>2. d.got = Len(delivered[e])
    BY <1>6, <1>12, <2>1 DEF Bit
  <2>3. CASE v.data = <<>>
    BY <1>5, <1>12, <2>1, <2>3 DEF EndInv
  <2>4. CASE v.data # <<>>
    BY <1>2, <1>6, <2>2, <2>4 DEF Heard
  <2> QED
    BY <2>3, <2>4
<1>16. written'[e] <= plan'.total[e]
  BY <1>7 DEF StepOf
<1> HIDE DEF d, r, f
<1>17. Flow(first, Other(e))' = g
  BY DEF g, f
<1> QED
  BY <1>2, <1>3, <1>4, <1>7, <1>9, <1>10, <1>11, <1>13, <1>14, <1>15, <1>16, <1>17 DEF EndInv, f

\* Its peer.
LEMMA PeerKeeps ==
  ASSUME NEW first, NEW e \in Ends, Inv(first), NEW v, NEW b, NEW t,
         Outcome(pcb[e], v, Flow(first, Other(e)), Flow(first, e), b, t, e \in eof),
         StepOf(e, v, t), pcb[e] = Gone => v.p = Gone
  PROVE  EndInv(first, Other(e))'
<1> DEFINE f == Other(e)
           d == Flow(first, f)
           r == Flow(first, e)
           g == Flow(first, f)'
           p == pcb[f]
<1>1. f \in Ends /\ Other(f) = e /\ f # e
  BY EndsFacts
<1>2. /\ v \in WorkSet /\ FlowOK(b) /\ FlowOK(t) /\ Grown(d, b) /\ Grown(r, t)
      /\ b.written = d.written /\ b.closed = d.closed /\ b.sent = d.sent /\ b.limit = d.limit
      /\ t.got = r.got /\ t.limit = r.limit
  BY DEF Outcome
<1>3. Flow(first, e)' = t /\ Widened(b, g) /\ (Open(e)' => Open(e))
  BY FlowStep
<1>4. /\ t.written \in Nat /\ t.closed \in BOOLEAN
  BY <1>2 DEF FlowOK, Direction
<1>5. Types /\ EndInv(first, e) /\ EndInv(first, f)
  BY <1>1 DEF Inv
<1>6. r.closed = (e \in closed) /\ r.written = written[e] /\ r.first = first[e]
      /\ d.closed = (f \in closed) /\ d.written = written[f]
  BY <1>1 DEF Flow
<1>7. /\ pcb'[f] = p
      /\ written'[e] = t.written /\ written'[f] = written[f]
      /\ e \in closed' <=> t.closed
      /\ f \in closed' <=> f \in closed
      /\ delivered'[f] = delivered[f]
      /\ f \in eof' <=> f \in eof
  <2>1. e \in closed => t.closed
    BY <1>2, <1>6 DEF Grown
  <2> QED
    BY <1>2, <1>4, <1>5, <2>1, StepState
<1>8. /\ FlowOK(d) /\ FlowOK(r) /\ p \in Block /\ first[f] \in Firsts
      /\ p = Gone \/ (Snd(p, d) /\ Busy(p) /\ Rcv(p, r) /\ StateOK(p, f \in closed, f \in eof))
      /\ p.state # "CLOSED" /\ Open(e) => Quiet(p, d, r)
      /\ written[f] <= plan.total[f]
      /\ delivered[f] = [i \in 1 .. Len(delivered[f]) |-> i]
      /\ f \in eof => e \in closed /\ Len(delivered[f]) = written[e]
      /\ f \notin eof => Len(delivered[f]) <= written[e]
  BY <1>1, <1>5 DEF EndInv
<1>9. /\ FlowOK(g) /\ Grown(b, g) /\ g.written = d.written /\ g.closed = d.closed /\ g.sent = d.sent
      /\ g.first = d.first
  <2>1. b.first = d.first
    BY <1>2 DEF Grown
  <2> QED
    BY <1>2, <1>3, <2>1, WidenedIs DEF Widened
<1> HIDE DEF g, d, r, p
<1>10. Grown(d, g)
  BY <1>2, <1>8, <1>9, GrownTwice
<1>11. p = Gone \/ (Snd(p, g) /\ Busy(p) /\ Rcv(p, t) /\ StateOK(p, f \in closed', f \in eof'))
  <2> SUFFICES ASSUME Snd(p, d) /\ Busy(p) /\ Rcv(p, r) /\ StateOK(p, f \in closed, f \in eof)
               PROVE  Snd(p, g) /\ Rcv(p, t) /\ StateOK(p, f \in closed', f \in eof')
    BY <1>8
  <2>1. Snd(p, g)
    BY <1>8, <1>9, <1>10, SndPeer
  <2>2. Rcv(p, t)
    BY <1>2, <1>8, RcvPeer
  <2>3. StateOK(p, f \in closed', f \in eof')
    BY <1>7 DEF StateOK, Phase
  <2> QED
    BY <2>1, <2>2, <2>3
<1>12. p.state # "CLOSED" /\ Open(e)' => Quiet(p, g, t)
  <2>1. t.first = r.first
    BY <1>2 DEF Grown
  <2> QED
    BY <1>3, <1>8, <1>9, <2>1 DEF Quiet
<1>13. r.written <= t.written /\ (r.closed => t.closed /\ t.written = r.written)
  BY <1>2 DEF Grown
<1>14. f \in eof' => e \in closed' /\ Len(delivered'[f]) = written'[e]
  BY <1>6, <1>7, <1>8, <1>13
<1>15. f \notin eof' => Len(delivered'[f]) <= written'[e]
  <2>1. Len(delivered[f]) \in Nat /\ written[e] \in Nat
    BY <1>1, <1>5 DEF Types
  <2> QED
    BY <1>4, <1>6, <1>7, <1>8, <1>13, <2>1
<1>16. written'[f] <= plan'.total[f]
  BY <1>7, <1>8 DEF StepOf
<1>17. delivered'[f] = [i \in 1 .. Len(delivered'[f]) |-> i]
  BY <1>7, <1>8
<1>18. Flow(first, f)' = g
  BY DEF g
<1> HIDE DEF f
<1>19. EndInv(first, f)'
  BY <1>1, <1>3, <1>7, <1>8, <1>9, <1>11, <1>12, <1>14, <1>15, <1>16, <1>17, <1>18 DEF EndInv
<1> QED
  BY <1>19 DEF f

\* The frames under way.
LEMMA NetKeeps ==
  ASSUME NEW first, NEW e \in Ends, Inv(first), NEW v, NEW b, NEW t,
         Outcome(pcb[e], v, Flow(first, Other(e)), Flow(first, e), b, t, e \in eof),
         StepOf(e, v, t), pcb[e] = Gone => v.p = Gone
  PROVE  NetInv(first)'
<1> DEFINE f == Other(e)
           d == Flow(first, f)
           r == Flow(first, e)
           g == Flow(first, f)'
           h == e \in eof
<1>1. f \in Ends /\ Other(f) = e /\ f # e /\ \A x \in Ends : x = e \/ x = f
  BY EndsFacts
<1>2. /\ v \in WorkSet /\ FlowOK(b) /\ FlowOK(t) /\ Grown(d, b) /\ Grown(r, t)
      /\ \A s \in v.out : FrameOK(s, t, b)
      /\ (v.p = Gone /\ t.sent = EndOf(t)) \/ Alive(pcb[e], v, d, r, b, t, h)
  BY DEF Outcome
<1>3. Flow(first, e)' = t /\ Widened(b, g)
  BY FlowStep
<1>4. /\ t.written \in Nat /\ t.closed \in BOOLEAN /\ v.out \subseteq Frame /\ v.p \in Block
  BY <1>2, FramesIs DEF FlowOK, Direction, WorkSet
<1>5. Types /\ EndInv(first, e) /\ EndInv(first, f) /\ NetInv(first)
  BY <1>1 DEF Inv
<1>6. pcb'[e] = v.p /\ pcb'[f] = pcb[f]
  BY <1>2, <1>4, <1>5, StepState
<1>7. FlowOK(d) /\ FlowOK(r) /\ pcb[e] \in Block
  BY <1>1, <1>5 DEF EndInv
<1>8. FlowOK(g) /\ Grown(b, g)
  BY <1>2, <1>3, WidenedIs
<1>9. Grown(d, g)
  BY <1>2, <1>7, <1>8, GrownTwice
<1>10. Live(e)' => /\ Live(e) /\ Alive(pcb[e], v, d, r, b, t, h)
                   /\ pcb[e].edge <= v.p.edge /\ pcb[e].edge \in Nat /\ v.p.edge \in Nat
  <2> SUFFICES ASSUME v.p.state # "CLOSED"
               PROVE  /\ Live(e) /\ Alive(pcb[e], v, d, r, b, t, h)
                      /\ pcb[e].edge <= v.p.edge /\ pcb[e].edge \in Nat /\ v.p.edge \in Nat
    BY <1>6 DEF Live
  <2>1. v.p # Gone /\ pcb[e] # Gone
    BY GoneBlock
  <2>2. Alive(pcb[e], v, d, r, b, t, h)
    BY <1>2, <2>1
  <2>3. pcb[e].state # "CLOSED"
    BY <1>5, <2>1 DEF EndInv, StateOK, Phase
  <2>4. pcb[e].edge \in Nat /\ v.p.edge \in Nat
    BY <1>4, <1>7 DEF Block
  <2>5. pcb[e].edge <= v.p.edge
    BY <2>2 DEF Alive
  <2> QED
    BY <2>2, <2>3, <2>4, <2>5 DEF Live
<1>11. Flow(first, f)' = g
  OBVIOUS
<1> HIDE DEF g, d, r
<1>12. ASSUME NEW m, m.to = f, m.seg \in Frame, FrameOK(m.seg, t, g),
              Live(e)' /\ ~m.seg.rst => m.seg.ack + m.seg.wnd <= v.p.edge
       PROVE  /\ m.seg \in Frame
              /\ FrameOK(m.seg, Flow(first, Other(m.to))', Flow(first, m.to)')
              /\ Live(Other(m.to))' /\ ~m.seg.rst => m.seg.ack + m.seg.wnd <= pcb'[Other(m.to)].edge
  <2> HIDE DEF f
  <2> QED
    BY <1>1, <1>3, <1>6, <1>11, <1>12
<1>13. ASSUME NEW m \in net, m.to = f
       PROVE  m.seg \in Frame /\ FrameOK(m.seg, t, g) /\ (Live(e)' /\ ~m.seg.rst => m.seg.ack + m.seg.wnd <= v.p.edge)
  <2>1. /\ m.seg \in Frame /\ FrameOK(m.seg, r, d)
        /\ Live(e) /\ ~m.seg.rst => m.seg.ack + m.seg.wnd <= pcb[e].edge
    BY <1>1, <1>5, <1>13 DEF NetInv, r, d
  <2>2. FrameOK(m.seg, t, g)
    BY <1>2, <1>7, <1>8, <1>9, <2>1, GrownFrame
  <2>3. m.seg.ack + m.seg.wnd \in Nat
    BY <2>1 DEF Frame
  <2>4. Live(e)' /\ ~m.seg.rst => m.seg.ack + m.seg.wnd <= v.p.edge
    BY <1>10, <2>1, <2>3
  <2> QED
    BY <2>1, <2>2, <2>4
<1>14. ASSUME NEW s \in v.out
       PROVE  s \in Frame /\ FrameOK(s, t, g) /\ (Live(e)' /\ ~s.rst => s.ack + s.wnd <= v.p.edge)
  <2>1. s \in Frame /\ FrameOK(s, t, b)
    BY <1>2, <1>4
  <2>2. Grown(t, t)
    BY <1>2, SameFlow
  <2>3. FrameOK(s, t, g)
    BY <1>2, <1>8, <2>1, <2>2, GrownFrame
  <2>4. Live(e)' /\ ~s.rst => s.ack + s.wnd <= v.p.edge
    BY <1>10 DEF Alive
  <2> QED
    BY <2>1, <2>3, <2>4
<1>15. ASSUME NEW m \in net, m.to = e
       PROVE  /\ m.seg \in Frame
              /\ FrameOK(m.seg, Flow(first, Other(m.to))', Flow(first, m.to)')
              /\ Live(Other(m.to))' /\ ~m.seg.rst => m.seg.ack + m.seg.wnd <= pcb'[Other(m.to)].edge
  <2>1. /\ m.seg \in Frame /\ FrameOK(m.seg, d, r)
        /\ Live(f) /\ ~m.seg.rst => m.seg.ack + m.seg.wnd <= pcb[f].edge
    BY <1>1, <1>5, <1>15 DEF NetInv, r, d
  <2>2. FrameOK(m.seg, g, t)
    BY <1>2, <1>7, <1>8, <1>9, <2>1, GrownFrame
  <2>3. Live(f)' <=> Live(f)
    BY <1>6 DEF Live
  <2>4. Other(m.to) = f
    BY <1>15
  <2> HIDE DEF f
  <2> QED
    BY <1>3, <1>6, <1>11, <1>15, <2>1, <2>2, <2>3, <2>4
<1> SUFFICES ASSUME NEW m \in net'
             PROVE  /\ m.seg \in Frame
                    /\ FrameOK(m.seg, Flow(first, Other(m.to))', Flow(first, m.to)')
                    /\ Live(Other(m.to))' /\ ~m.seg.rst => m.seg.ack + m.seg.wnd <= pcb'[Other(m.to)].edge
  BY DEF NetInv
<1>16. CASE m \in net
  <2>1. m.to = e \/ m.to = f
    BY <1>1, <1>5, <1>16 DEF Types
  <2>2. CASE m.to = e
    BY <1>15, <1>16, <2>2
  <2>3. CASE m.to = f
    BY <1>12, <1>13, <1>16, <2>3
  <2> QED
    BY <2>1, <2>2, <2>3
<1>17. CASE \E s \in v.out : m = [to |-> Other(e), seg |-> s]
  <2>1. PICK s \in v.out : m = [to |-> f, seg |-> s]
    BY <1>17
  <2>2. m.to = f /\ m.seg = s
    BY <2>1
  <2> QED
    BY <1>12, <1>14, <2>2
<1> QED
  BY <1>16, <1>17 DEF StepOf

\* Every step with such an outcome keeps the invariant.
LEMMA StepKeeps ==
  ASSUME NEW first, NEW e \in Ends, Inv(first), NEW v, NEW b, NEW t,
         Outcome(pcb[e], v, Flow(first, Other(e)), Flow(first, e), b, t, e \in eof),
         StepOf(e, v, t), pcb[e] = Gone => v.p = Gone, t.written <= plan.total[e]
  PROVE  Inv(first)'
<1>1. EndInv(first, e)' /\ EndInv(first, Other(e))' /\ NetInv(first)'
  BY ActorKeeps, PeerKeeps, NetKeeps
<1>2. Types'
  <2>1. v \in WorkSet /\ FlowOK(t) /\ Types
    BY DEF Outcome, Inv
  <2>2. t.written \in Nat /\ t.closed \in BOOLEAN
    BY <2>1 DEF FlowOK, Direction
  <2> QED
    BY <2>1, <2>2, StepState
<1>3. \A x \in Ends : x = e \/ x = Other(e)
  BY EndsFacts
<1> QED
  BY <1>1, <1>2, <1>3 DEF Inv

\* A step of the end e with such an outcome.
Acts(first, e) ==
  \E v, b, t : /\ Outcome(pcb[e], v, Flow(first, Other(e)), Flow(first, e), b, t, e \in eof)
               /\ StepOf(e, v, t) /\ (pcb[e] = Gone => v.p = Gone) /\ t.written <= plan.total[e]

\* A step of one end keeps the invariant.
LEMMA ActsKeeps ==
  ASSUME NEW first, NEW e \in Ends, Inv(first), Acts(first, e)
  PROVE  Inv(first)'
BY StepKeeps DEF Acts

-----------------------------------------------------------------------------
(* The actions *)

\* The frames that are refused or lost are counted, and the others are under way.
LEMMA SendIs ==
  ASSUME Types, NEW e \in Ends, NEW w \in WorkSet, NEW under, under \subseteq net, NEW extra \in Nat,
         Send(e, w, under, extra)
  PROVE  /\ pcb' = [pcb EXCEPT ![e] = w.p] /\ plan' = plan /\ faults' \in 0 .. MaxFaults
         /\ \A m \in net' : m \in net \/ \E s \in w.out : m = [to |-> Other(e), seg |-> s]
<1>1. PICK kept \in SUBSET w.out :
         /\ net' = under \cup {[to |-> Other(e), seg |-> s] : s \in kept}
         /\ faults' = faults + extra + Cardinality(w.out \ kept)
  BY DEF Send
<1>2. faults' <= MaxFaults /\ MaxFaults \in Nat /\ faults \in Nat
  BY SizesAssumption DEF Send, Types
<1>3. Cardinality(w.out \ kept) \in Nat
  <2>1. IsFiniteSet(w.out)
    BY DEF WorkSet, Frames
  <2>2. IsFiniteSet(w.out \ kept)
    BY <2>1, FS_Subset
  <2> QED
    BY <2>2, FS_CardinalityType
<1>4. faults' \in 0 .. MaxFaults
  BY <1>1, <1>2, <1>3
<1>5. \A m \in net' : m \in net \/ \E s \in w.out : m = [to |-> Other(e), seg |-> s]
  BY <1>1
<1> QED
  BY <1>4, <1>5 DEF Send

\* The state of an end before a step.
LEMMA AtRest ==
  ASSUME NEW first, NEW e \in Ends, Inv(first)
  PROVE  LET d == Flow(first, Other(e))
             r == Flow(first, e)
         IN  /\ Types /\ FlowOK(d) /\ FlowOK(r) /\ pcb[e] \in Block
             /\ Rest(pcb[e], d, r, e \in eof)
             /\ r.written = written[e] /\ r.closed = (e \in closed) /\ r.first = first[e]
             /\ pcb[e].state # "CLOSED" <=> pcb[e] # Gone
             /\ first[e] \in Firsts
<1>1. Other(e) \in Ends
  BY EndsFacts
<1>2. Types /\ EndInv(first, e) /\ EndInv(first, Other(e))
  BY <1>1 DEF Inv
<1>3. FlowOK(Flow(first, Other(e))) /\ FlowOK(Flow(first, e)) /\ pcb[e] \in Block /\ first[e] \in Firsts
  BY <1>2 DEF EndInv
<1>4. /\ Flow(first, e).written = written[e] /\ Flow(first, e).closed = (e \in closed)
      /\ Flow(first, e).first = first[e]
  BY DEF Flow
<1>5. Rest(pcb[e], Flow(first, Other(e)), Flow(first, e), e \in eof)
  <2>1. pcb[e] = Gone \/ (/\ Snd(pcb[e], Flow(first, e)) /\ Busy(pcb[e]) /\ Rcv(pcb[e], Flow(first, Other(e)))
                          /\ StateOK(pcb[e], e \in closed, e \in eof))
    BY <1>2 DEF EndInv
  <2> QED
    BY <1>4, <2>1 DEF Rest
<1>6. pcb[e].state # "CLOSED" <=> pcb[e] # Gone
  BY <1>5, GoneBlock DEF Rest, StateOK, Phase
<1> QED
  BY <1>2, <1>3, <1>4, <1>5, <1>6

\* A step that passes nothing up.
LEMMA LeavesStep ==
  ASSUME NEW first, NEW e \in Ends, Inv(first), pcb[e] # Gone, NEW v, NEW a, NEW under, under \subseteq net,
         Leaves(pcb[e], v, Flow(first, Other(e)), Flow(first, e), a, e \in eof),
         Send(e, v, under, 0), a.written <= plan.total[e],
         written' = [written EXCEPT ![e] = a.written],
         closed' = IF a.closed THEN closed \cup {e} ELSE closed,
         delivered' = delivered, eof' = eof
  PROVE  Acts(first, e)
<1> DEFINE d == Flow(first, Other(e))
           r == Flow(first, e)
           h == e \in eof
<1>1. Types /\ FlowOK(d)
  BY AtRest
<1>2. PICK t : Outcome(pcb[e], v, d, r, d, t, h) /\ t.written = a.written /\ t.closed = a.closed
  BY DEF Leaves
<1>3. v \in WorkSet /\ d.got = d.got + Len(v.data) + Bit(v.fin)
  BY <1>2 DEF Outcome
<1>4. v.data = <<>> /\ ~v.fin
  <2> DEFINE i == d.got
             j == Len(v.data)
  <2>1. i \in Nat /\ j \in Nat /\ (v.data # <<>> => j > 0) /\ v.fin \in BOOLEAN /\ i = i + j + Bit(v.fin)
    BY <1>1, <1>3, FlowFacts DEF WorkSet
  <2> HIDE DEF i, j
  <2> QED
    BY <2>1 DEF Bit
<1>5. delivered' = [delivered EXCEPT ![e] = @ \o v.data]
  <2>1. delivered \in [Ends -> Seq(Nat)]
    BY <1>1 DEF Types
  <2>2. delivered[e] \o v.data = delivered[e]
    BY <1>4, <2>1
  <2> QED
    BY <2>1, <2>2
<1>6. StepOf(e, v, t)
  <2>1. 0 \in Nat
    OBVIOUS
  <2>2. /\ pcb' = [pcb EXCEPT ![e] = v.p] /\ plan' = plan /\ faults' \in 0 .. MaxFaults
        /\ \A m \in net' : m \in net \/ \E s \in v.out : m = [to |-> Other(e), seg |-> s]
    BY <1>1, <1>3, <2>1, SendIs
  <2> QED
    BY <1>2, <1>4, <1>5, <2>2 DEF StepOf
<1>7. t.written <= plan.total[e]
  BY <1>2
<1> HIDE DEF d, r, h
<1> QED
  BY <1>2, <1>6, <1>7 DEF Acts, d, r, h

\* The same, when neither a byte is written nor a FIN queued.
LEMMA StillStep ==
  ASSUME NEW first, NEW e \in Ends, Inv(first), pcb[e] # Gone, NEW v, NEW a, NEW under, under \subseteq net,
         Leaves(pcb[e], v, Flow(first, Other(e)), Flow(first, e), a, e \in eof),
         Send(e, v, under, 0), a.written = written[e], a.closed = (e \in closed),
         UNCHANGED <<written, closed, delivered, eof>>
  PROVE  Acts(first, e)
<1>1. Types /\ EndInv(first, e)
  BY DEF Inv
<1>2. written' = [written EXCEPT ![e] = a.written]
  BY <1>1 DEF Types
<1>3. closed' = IF a.closed THEN closed \cup {e} ELSE closed
  OBVIOUS
<1>4. a.written <= plan.total[e]
  BY <1>1 DEF EndInv
<1> QED
  BY <1>2, <1>3, <1>4, LeavesStep

\* TCPTransmit is such a step: tcp_write, and tcp_output or nothing.
LEMMA TransmitStep ==
  ASSUME ShortStreams, NEW first, Inv(first), NEW e \in Ends, NEW n \in Sizes, Transmit(e, n)
  PROVE  Acts(first, e)
<1> DEFINE p == pcb[e]
           d == Flow(first, Other(e))
           r == Flow(first, e)
           h == e \in eof
           a == Wrote(r, n)
           v == Output(Work(Enqueued(p, n, r.written)))
<1>1. /\ Types /\ FlowOK(d) /\ FlowOK(r) /\ p \in Block /\ Rest(p, d, r, h)
      /\ r.written = written[e] /\ r.closed = (e \in closed) /\ r.first = first[e] /\ first[e] \in Firsts
      /\ p.state # "CLOSED" <=> p # Gone
  BY AtRest
<1>2. p.state \in {"ESTABLISHED", "CLOSE_WAIT"} /\ n <= p.snd_buf /\ written[e] + n <= plan.total[e]
  BY DEF Transmit
<1>3. n \in Nat /\ n >= 1
  BY SizesAssumption
<1>4. r.first + (r.written + n) + 2 * Wnd + 2 <= Half
  <2>1. plan \in Plans /\ plan.total[e] \in Nat
    BY <1>1, SizesAssumption DEF Types
  <2>2. first[e] + plan.total[e] + 2 * Wnd + 2 <= Half
    BY <1>1, <2>1 DEF ShortStreams
  <2> DEFINE x == first[e]
             y == written[e]
             z == plan.total[e]
  <2>3. x \in Nat /\ y \in Nat /\ z \in Nat /\ y + n <= z /\ x + z + 2 * Wnd + 2 <= Half
    BY <1>1, <1>2, <2>1, <2>2, FlowFacts
  <2>4. Wnd \in Nat /\ Half \in Nat
    BY SizeFacts
  <2> HIDE DEF x, y, z
  <2>5. x + (y + n) + 2 * Wnd + 2 <= Half
    BY ONLY <1>3, <2>3, <2>4
  <2> QED
    BY <1>1, <2>5 DEF x, y
<1>5. p # Gone
  BY <1>1, <1>2
<1>6. ~r.closed /\ Leaves(p, v, d, r, a, h)
  <2>1. h \in BOOLEAN
    OBVIOUS
  <2> HIDE DEF d, r, h, p
  <2> QED
    BY <1>1, <1>2, <1>3, <1>4, <2>1, TransmitKeeps
<1>7. a.written = written[e] + n /\ a.closed = FALSE
  <2>1. r.written \in Nat /\ r.closed = FALSE /\ r \in Direction
    BY <1>1, <1>6, FlowFacts DEF FlowOK
  <2> QED
    BY <1>1, <2>1 DEF Wrote, Direction
<1>8. /\ Send(e, v, net, 0) /\ written' = [written EXCEPT ![e] = a.written]
      /\ closed' = IF a.closed THEN closed \cup {e} ELSE closed
      /\ delivered' = delivered /\ eof' = eof
  BY <1>1, <1>7 DEF Transmit
<1>9. a.written <= plan.total[e]
  BY <1>2, <1>7
<1> HIDE DEF v, a
<1> QED
  BY <1>5, <1>6, <1>8, <1>9, LeavesStep

\* So is the retransmission time-out of tcp_slowtmr.
LEMMA RtoStep ==
  ASSUME NEW first, Inv(first), NEW e \in Ends, Rto(e)
  PROVE  Acts(first, e)
<1> DEFINE p == pcb[e]
           d == Flow(first, Other(e))
           r == Flow(first, e)
           h == e \in eof
           v == Output(Work(RtoExpired(p)))
<1>1. /\ Types /\ FlowOK(d) /\ FlowOK(r) /\ p \in Block /\ Rest(p, d, r, h)
      /\ r.written = written[e] /\ r.closed = (e \in closed)
  BY AtRest
<1>2. p.unacked # <<>>
  BY DEF Rto, RtoDue
<1>3. p # Gone
  BY <1>2 DEF Gone
<1>4. Leaves(p, v, d, r, r, h)
  <2>1. h \in BOOLEAN
    OBVIOUS
  <2> HIDE DEF d, r, h, p
  <2> QED
    BY <1>1, <1>2, <1>3, <2>1, RtoKeeps
<1>5. Send(e, v, net, 0) /\ UNCHANGED <<written, closed, delivered, eof>>
  BY DEF Rto
<1> HIDE DEF v
<1> QED
  BY <1>1, <1>3, <1>4, <1>5, StillStep

\* So is the end of the retries, which frees the block.
LEMMA GiveUpStep ==
  ASSUME NEW first, Inv(first), NEW e \in Ends, GiveUp(e)
  PROVE  Acts(first, e)
<1> DEFINE p == pcb[e]
           d == Flow(first, Other(e))
           r == Flow(first, e)
           h == e \in eof
           v == Work(Gone)
           a == Ended(r)
<1>1. /\ Types /\ FlowOK(d) /\ FlowOK(r) /\ p \in Block
      /\ r.written = written[e] /\ r.closed = (e \in closed)
      /\ p.state # "CLOSED" <=> p # Gone
  BY AtRest
<1>2. p # Gone
  BY <1>1 DEF GiveUp, Overdue
<1>3. Outcome(p, v, d, r, d, a, h)
  BY <1>1, RemovedKeeps
<1>4. a.written = r.written /\ a.closed = r.closed
  BY <1>1, EndedIs
<1>5. Leaves(p, v, d, r, a, h)
  BY <1>3 DEF Leaves
<1>6. Send(e, v, net, 0) /\ UNCHANGED <<written, closed, delivered, eof>>
  BY DEF GiveUp
<1> HIDE DEF v, a
<1> QED
  BY <1>1, <1>2, <1>4, <1>5, <1>6, StillStep

\* So is pbuf_free_ooseq, which frees what was out of order.
LEMMA DropOoseqStep ==
  ASSUME NEW first, Inv(first), NEW e \in Ends, DropOoseq(e)
  PROVE  Acts(first, e)
<1> DEFINE p == pcb[e]
           d == Flow(first, Other(e))
           r == Flow(first, e)
           h == e \in eof
           v == Work([p EXCEPT !.ooseq = <<>>])
<1>1. /\ Types /\ FlowOK(d) /\ FlowOK(r) /\ p \in Block /\ Rest(p, d, r, h)
      /\ r.written = written[e] /\ r.closed = (e \in closed)
  BY AtRest
<1>2. p # Gone
  BY DEF DropOoseq, Gone
<1>3. Outcome(p, v, d, r, d, r, h)
  <2>1. h \in BOOLEAN
    OBVIOUS
  <2> HIDE DEF d, r, h, p
  <2> QED
    BY <1>1, <1>2, <2>1, DropKeeps
<1>4. Leaves(p, v, d, r, r, h)
  BY <1>3 DEF Leaves
<1>5. Send(e, v, net, 0) /\ UNCHANGED <<written, closed, delivered, eof>>
  BY DEF DropOoseq
<1> HIDE DEF v
<1> QED
  BY <1>1, <1>2, <1>4, <1>5, StillStep

\* So is tcp_close of the program.
LEMMA CloseStep ==
  ASSUME NEW first, Inv(first), NEW e \in Ends, NEW memory, Close(e, memory)
  PROVE  Acts(first, e)
<1> DEFINE p == pcb[e]
           d == Flow(first, Other(e))
           r == Flow(first, e)
           h == e \in eof
           w == Closed(Work(p), memory)
           done == w.p.state # p.state
<1>1. /\ Types /\ FlowOK(d) /\ FlowOK(r) /\ p \in Block /\ Rest(p, d, r, h)
      /\ r.written = written[e] /\ r.closed = (e \in closed)
      /\ p.state # "CLOSED" <=> p # Gone
  BY AtRest
<1>2. p # Gone
  BY <1>1 DEF Close
<1>3. /\ ~done => Outcome(p, w, d, r, d, r, h)
      /\ done => ~r.closed /\ Leaves(p, Output(w), d, r, Shut(r), h)
  <2>1. h \in BOOLEAN
    OBVIOUS
  <2> HIDE DEF d, r, h, p
  <2> QED
    BY <1>1, <1>2, <2>1, CloseKeeps
<1>4. /\ Send(e, IF done THEN Output(w) ELSE w, net, 0)
      /\ closed' = IF done THEN closed \cup {e} ELSE closed
      /\ UNCHANGED <<written, delivered, eof>>
  BY DEF Close
<1> HIDE DEF w, done
<1>5. CASE ~done
  <2>1. Leaves(p, w, d, r, r, h)
    BY <1>3, <1>5 DEF Leaves
  <2> QED
    BY <1>1, <1>2, <1>4, <1>5, <2>1, StillStep
<1>6. CASE done
  <2> DEFINE a == Shut(r)
             v == Output(w)
  <2>1. a.closed = TRUE /\ a.written = r.written
    BY <1>1, <1>3, <1>6, ShutIs
  <2>2. Leaves(p, v, d, r, a, h) /\ Send(e, v, net, 0)
    BY <1>3, <1>4, <1>6
  <2>3. written' = [written EXCEPT ![e] = a.written]
    BY <1>1, <1>4, <2>1 DEF Types
  <2>4. closed' = IF a.closed THEN closed \cup {e} ELSE closed
    BY <1>4, <1>6, <2>1
  <2>5. a.written <= plan.total[e]
    <3>1. EndInv(first, e)
      BY DEF Inv
    <3> QED
      BY <1>1, <2>1, <3>1 DEF EndInv
  <2>6. delivered' = delivered /\ eof' = eof
    BY <1>4
  <2> HIDE DEF v, a
  <2> QED
    BY <1>2, <2>2, <2>3, <2>4, <2>5, <2>6, LeavesStep
<1> QED
  BY <1>5, <1>6

\* Where the right edge stands that an arriving frame may give the sender.
LEMMA EdgeBefore ==
  ASSUME NEW first, Inv(first), NEW m \in net, pcb[m.to] # Gone, ~m.seg.rst
  PROVE  EdgeKnown(pcb[m.to], Flow(first, m.to), Flow(first, Other(m.to)), m.seg)
<1> DEFINE e == m.to
           f == Other(e)
           d == Flow(first, f)
           r == Flow(first, e)
<1>1. e \in Ends /\ f \in Ends /\ Other(f) = e
  <2>1. e \in Ends
    BY DEF Inv, Types
  <2> QED
    BY <2>1, EndsFacts
<1>2. EndInv(first, e) /\ EndInv(first, f)
  BY <1>1 DEF Inv
<1>3. /\ r.first = first[e] /\ r.limit = IF Open(f) THEN pcb[f].edge ELSE r.first + r.got + Wnd
      /\ d.first = first[f] /\ d.written = written[f] /\ d.closed = (f \in closed)
  BY DEF Flow
<1>4. Live(f) /\ ~m.seg.rst => m.seg.ack + m.seg.wnd <= pcb[f].edge
  BY DEF Inv, NetInv
<1>5. FlowOK(d) /\ (pcb[e].state # "CLOSED" /\ Open(f) => Quiet(pcb[e], r, d))
  BY <1>2 DEF EndInv
<1>6. pcb[e].state # "CLOSED"
  BY <1>2 DEF EndInv, StateOK, Phase
<1>7. d.sent = d.first \/ ~Open(f)
  <2> SUFFICES ASSUME Open(f) PROVE d.sent = d.first
    OBVIOUS
  <2>1. d.written = 0 /\ ~d.closed
    BY <1>3 DEF Open
  <2>2. EndOf(d) = d.first + 0 + 0
    BY <2>1 DEF EndOf, Bit
  <2>3. d.first \in Nat /\ d.got \in Nat /\ d.sent \in Nat /\ d.first + d.got <= d.sent /\ d.sent <= EndOf(d)
    BY <1>5, FlowFacts
  <2> QED
    BY <2>2, <2>3
<1> HIDE DEF d, r
<1>8. CASE Open(f)
  <2>1. Live(f) /\ r.limit = pcb[f].edge
    BY <1>3, <1>8 DEF Open
  <2> QED
    BY <1>4, <1>5, <1>6, <1>7, <1>8, <2>1 DEF EdgeKnown, d, r
<1>9. CASE ~Open(f)
  <2>1. r.limit = r.first + r.got + Wnd
    BY <1>3, <1>9
  <2> QED
    BY <2>1 DEF EdgeKnown, d, r
<1> QED
  BY <1>8, <1>9

\* A frame arrives at e, whose program gets what v passes up.
Arrives(first, e) ==
  \E v, b, t : /\ Outcome(pcb[e], v, Flow(first, Other(e)), Flow(first, e), b, t, e \in eof)
               /\ StepOf(e, v, t)
               /\ closed' = IF v.p.state = "LAST_ACK" THEN closed \cup {e} ELSE closed

\* So is the arrival of a frame, new or a copy, in any order.
LEMMA DeliverStep ==
  ASSUME NEW first, Inv(first), NEW m \in net, NEW memory, NEW duplicate \in BOOLEAN,
         Deliver(m, memory, duplicate)
  PROVE  Acts(first, m.to) /\ Arrives(first, m.to) /\ written' = written
<1> DEFINE e == m.to
           p == pcb[e]
           s == m.seg
           d == Flow(first, Other(e))
           r == Flow(first, e)
           h == e \in eof
           v == Answer(p, s, memory)
           under == IF duplicate THEN net ELSE net \ {m}
           extra == IF duplicate THEN 1 ELSE 0
<1>1. e \in Ends /\ s \in Frame
  BY DEF Inv, Types
<1>2. /\ Types /\ FlowOK(d) /\ FlowOK(r) /\ p \in Block /\ Rest(p, d, r, h)
      /\ r.written = written[e] /\ r.closed = (e \in closed)
  BY <1>1, AtRest
<1>3. FrameOK(s, d, r)
  BY DEF Inv, NetInv
<1>4. p # Gone /\ ~s.rst => EdgeKnown(p, r, d, s)
  BY EdgeBefore
<1>5. Handled(e, v, under, extra)
  BY DEF Deliver
<1>6. under \subseteq net /\ extra \in Nat
  OBVIOUS
<1>7. written[e] <= plan.total[e] /\ written \in [Ends -> Nat]
  BY <1>1 DEF Inv, EndInv, Types
<1>8. /\ p = Gone => v.p = Gone
      /\ \E b, t : /\ Outcome(p, v, d, r, b, t, h) /\ t.written = r.written
                   /\ t.closed <=> r.closed \/ v.p.state = "LAST_ACK"
  <2>1. h \in BOOLEAN
    OBVIOUS
  <2> HIDE DEF d, r, h, p, s
  <2> QED
    BY <1>1, <1>2, <1>3, <1>4, <2>1, AnswerKeeps
<1> HIDE DEF v, under, extra
<1>9. PICK b, t : /\ Outcome(p, v, d, r, b, t, h) /\ t.written = r.written
                  /\ t.closed <=> r.closed \/ v.p.state = "LAST_ACK"
  BY <1>8
<1>10. v \in WorkSet /\ t.closed \in BOOLEAN
  BY <1>9 DEF Outcome, FlowOK, Direction
<1>11. /\ Send(e, v, under, extra)
       /\ delivered' = [delivered EXCEPT ![e] = @ \o v.data]
       /\ eof' = IF v.fin THEN eof \cup {e} ELSE eof
       /\ closed' = IF v.p.state = "LAST_ACK" THEN closed \cup {e} ELSE closed
       /\ written' = written
  BY <1>5 DEF Handled
<1>12. /\ pcb' = [pcb EXCEPT ![e] = v.p] /\ plan' = plan /\ faults' \in 0 .. MaxFaults
       /\ \A x \in net' : x \in net \/ \E y \in v.out : x = [to |-> Other(e), seg |-> y]
  BY <1>1, <1>2, <1>6, <1>10, <1>11, SendIs
<1>13. closed' = IF t.closed THEN closed \cup {e} ELSE closed
  <2>1. CASE v.p.state = "LAST_ACK"
    BY <1>9, <1>11, <2>1
  <2>2. CASE v.p.state # "LAST_ACK"
    BY <1>2, <1>9, <1>11, <2>2
  <2> QED
    BY <2>1, <2>2
<1>14. written' = [written EXCEPT ![e] = t.written]
  BY <1>2, <1>7, <1>9, <1>11
<1>15. StepOf(e, v, t)
  BY <1>11, <1>12, <1>13, <1>14 DEF StepOf
<1>16. t.written <= plan.total[e]
  BY <1>2, <1>7, <1>9
<1> HIDE DEF d, r, h, p
<1>17. Acts(first, e)
  BY <1>8, <1>9, <1>15, <1>16 DEF Acts, d, r, h, p
<1>18. Arrives(first, e)
  BY <1>9, <1>11, <1>15 DEF Arrives, d, r, h, p
<1> QED
  BY <1>11, <1>17, <1>18

-----------------------------------------------------------------------------
(* The invariant holds *)

\* A step that changes nothing keeps the invariant.
LEMMA StutterKeeps ==
  ASSUME NEW first, Inv(first), UNCHANGED vars
  PROVE  Inv(first)'
<1>1. /\ plan' = plan /\ pcb' = pcb /\ net' = net /\ faults' = faults /\ written' = written
      /\ closed' = closed /\ delivered' = delivered /\ eof' = eof
  BY DEF vars
<1>2. \A e : (Open(e)' <=> Open(e)) /\ (Live(e)' <=> Live(e))
  BY <1>1 DEF Open, Live
<1>3. \A e : Flow(first, e)' = Flow(first, e)
  BY <1>1, <1>2 DEF Flow
<1>4. Types'
  BY <1>1 DEF Inv, Types
<1>5. ASSUME NEW e \in Ends PROVE EndInv(first, e)'
  <2>1. EndInv(first, e)
    BY DEF Inv
  <2> QED
    BY <1>1, <1>2, <1>3, <2>1 DEF EndInv
<1>6. NetInv(first)'
  <2>1. NetInv(first)
    BY DEF Inv
  <2> QED
    BY <1>1, <1>2, <1>3, <2>1 DEF NetInv
<1> QED
  BY <1>4, <1>5, <1>6 DEF Inv

\* What a step of the specification is: nothing happens, or one end acts.
LEMMA NextActs ==
  ASSUME ShortStreams, NEW first, Inv(first), [Next]_vars
  PROVE  UNCHANGED vars \/ \E e \in Ends : Acts(first, e)
<1>1. ASSUME NEW e \in Ends, NEW n \in Sizes, Transmit(e, n)
      PROVE  Acts(first, e)
  BY <1>1, TransmitStep
<1>2. ASSUME NEW e \in Ends, Rto(e) \/ GiveUp(e) \/ DropOoseq(e)
      PROVE  Acts(first, e)
  BY <1>2, RtoStep, GiveUpStep, DropOoseqStep
<1>3. ASSUME NEW e \in plan.closers, NEW memory \in BOOLEAN, Close(e, memory)
      PROVE  \E x \in Ends : Acts(first, x)
  <2>1. plan \in Plans
    BY DEF Inv, Types
  <2>2. e \in Ends
    BY <2>1, SizesAssumption
  <2>3. Acts(first, e)
    BY <1>3, <2>2, CloseStep
  <2> QED
    BY <2>2, <2>3
<1>4. ASSUME NEW m \in net, NEW memory \in BOOLEAN, NEW duplicate \in BOOLEAN, Deliver(m, memory, duplicate)
      PROVE  \E e \in Ends : Acts(first, e)
  <2>1. m.to \in Ends
    BY DEF Inv, Types
  <2>2. Acts(first, m.to)
    BY <1>4, DeliverStep
  <2> QED
    BY <2>1, <2>2
<1> QED
  BY <1>1, <1>2, <1>3, <1>4 DEF Next

\* Every step keeps the invariant.
LEMMA NextKeeps ==
  ASSUME ShortStreams, NEW first, Inv(first), [Next]_vars
  PROVE  Inv(first)'
<1>1. CASE UNCHANGED vars
  BY <1>1, StutterKeeps
<1>2. CASE \E e \in Ends : Acts(first, e)
  BY <1>2, ActsKeeps
<1> QED
  BY <1>1, <1>2, NextActs

\* A direction before anything is written, and a block of a connection just established.
Started(x) == [first |-> x, written |-> 0, closed |-> FALSE, sent |-> x, got |-> 0, limit |-> x + Wnd]

\* A first sequence number from which a window can be reached.
Room(x) == x \in Nat /\ x + 2 * Wnd + 2 <= Half
\* A congestion window to begin with.
Wide(c) == c \in Nat /\ Mss <= c

\* What holds of a stream of which nothing is written.
LEMMA StartedIs ==
  ASSUME NEW x, Room(x)
  PROVE  /\ FlowOK(Started(x)) /\ EndOf(Started(x)) = x
         /\ Started(x).first = x /\ Started(x).written = 0 /\ Started(x).closed = FALSE
         /\ Started(x).sent = x /\ Started(x).got = 0 /\ Started(x).limit = x + Wnd
<1> DEFINE d == Started(x)
<1>1. Wnd \in Nat /\ Half \in Nat /\ x \in Nat /\ x + 2 * Wnd + 2 <= Half
  BY SizeFacts DEF Room
<1>2. /\ d.first = x /\ d.written = 0 /\ d.closed = FALSE
      /\ d.sent = x /\ d.got = 0 /\ d.limit = x + Wnd
  BY DEF Started
<1>3. d \in Direction
  BY <1>1 DEF Started, Direction
<1> HIDE DEF d
<1>4. EndOf(d) = x
  BY <1>1, <1>2 DEF EndOf, Bit
<1>5. FlowOK(d)
  <2>1. x <= x /\ x + 0 <= x /\ x + Wnd <= x + 0 + Wnd /\ x + 0 + 2 * Wnd + 2 <= Half
    BY <1>1
  <2> QED
    BY <1>2, <1>3, <1>4, <2>1 DEF FlowOK
<1> QED
  BY <1>2, <1>4, <1>5 DEF d

\* A window from the first sequence number does not wrap.
LEMMA RoomIs ==
  ASSUME NEW x, Room(x)
  PROVE  x \in Nat /\ Add(x, Wnd) = x + Wnd
<1>1. Wnd \in Nat /\ Half \in Nat /\ SeqSpace = 2 * Half /\ x \in Nat /\ x + 2 * Wnd + 2 <= Half
  BY SizeFacts DEF Room
<1>2. x + Wnd >= 0 /\ x + Wnd < SeqSpace
  BY <1>1
<1> QED
  BY <1>1, <1>2, AddIs

\* The fields of a block of a connection just established.
LEMMA OpenedIs ==
  ASSUME NEW x, NEW y, Room(x), Room(y), NEW c, Wide(c)
  PROVE  LET p == Opened(x, y, c)
         IN  /\ p \in Block
             /\ p.state = "ESTABLISHED" /\ p.snd_lbb = x /\ p.snd_buf = SndBuf
             /\ p.unsent = <<>> /\ p.unacked = <<>> /\ p.snd_nxt = x /\ p.lastack = x
             /\ p.snd_wnd = Wnd /\ p.snd_wl1 = Diff(y, 2) /\ p.snd_wl2 = x /\ p.cwnd = c
             /\ ~p.rtime /\ p.rcv_nxt = y /\ p.rcv_wnd = Wnd /\ p.rcv_ann_wnd = Wnd
             /\ p.edge = Add(y, Wnd) /\ p.ooseq = <<>> /\ ~p.rxclosed
<1> DEFINE p == Opened(x, y, c)
           z == Add(y, Wnd)
           l == Diff(y, 2)
<1>1. /\ Wnd \in Nat /\ Mss \in Nat /\ SndBuf \in Nat /\ SeqSpace \in Nat /\ SeqSpace > 0
      /\ Half \in Nat /\ SeqSpace = 2 * Half
      /\ x \in Nat /\ y \in Nat /\ y + 2 * Wnd + 2 <= Half /\ c \in Nat
  BY SizeFacts DEF Room, Wide
<1>2. z = y + Wnd
  BY <1>1, AddIs
<1>3. l \in Nat
  BY <1>1 DEF Diff
<1>4. p = [Gone EXCEPT !.state = "ESTABLISHED",
             !.snd_lbb = x, !.snd_nxt = x, !.lastack = x, !.snd_buf = SndBuf,
             !.snd_wnd = Wnd, !.snd_wl1 = l, !.snd_wl2 = x,
             !.cwnd = c, !.ssthresh = 10 * Mss,
             !.rcv_nxt = y, !.rcv_wnd = Wnd, !.rcv_ann_wnd = Wnd, !.edge = z]
  BY DEF Opened
<1> HIDE DEF p, z, l
<1>5. 10 * Mss \in Nat /\ z \in Nat
  BY <1>1, <1>2
<1>6. Gone \in Block
  BY GoneBlock
<1>7. p \in Block
  <2>1. SndBuf \in Int /\ Wnd \in Int /\ "ESTABLISHED" \in States
    BY <1>1 DEF States
  <2> DEFINE k == 10 * Mss
  <2>2. k \in Nat
    BY <1>5
  <2>3. p = [Gone EXCEPT !.state = "ESTABLISHED",
             !.snd_lbb = x, !.snd_nxt = x, !.lastack = x, !.snd_buf = SndBuf,
             !.snd_wnd = Wnd, !.snd_wl1 = l, !.snd_wl2 = x,
             !.cwnd = c, !.ssthresh = k,
             !.rcv_nxt = y, !.rcv_wnd = Wnd, !.rcv_ann_wnd = Wnd, !.edge = z]
    BY <1>4
  <2> HIDE DEF k
  <2> QED
    BY ONLY <1>1, <1>3, <1>5, <1>6, <2>1, <2>2, <2>3 DEF Block
<1>8. /\ Gone.unsent = <<>> /\ Gone.unacked = <<>> /\ ~Gone.rtime /\ Gone.ooseq = <<>>
      /\ ~Gone.rxclosed
  BY DEF Gone
<1>9. /\ p.state = "ESTABLISHED" /\ p.snd_lbb = x /\ p.snd_buf = SndBuf
      /\ p.unsent = <<>> /\ p.unacked = <<>> /\ p.snd_nxt = x /\ p.lastack = x
      /\ p.snd_wnd = Wnd /\ p.snd_wl1 = l /\ p.snd_wl2 = x /\ p.cwnd = c
      /\ ~p.rtime /\ p.rcv_nxt = y /\ p.rcv_wnd = Wnd /\ p.rcv_ann_wnd = Wnd
      /\ p.edge = z /\ p.ooseq = <<>> /\ ~p.rxclosed
  BY <1>4, <1>6, <1>8 DEF Block
<1> QED
  BY <1>2, <1>7, <1>9 DEF p, l, z

\* Such a block is as the invariant has it.
LEMMA OpenedOK ==
  ASSUME NEW x, NEW y, Room(x), Room(y), NEW c, Wide(c)
  PROVE  LET p == Opened(x, y, c)
         IN  /\ Snd(p, Started(x)) /\ Busy(p) /\ Rcv(p, Started(y)) /\ StateOK(p, FALSE, FALSE)
             /\ Quiet(p, Started(x), Started(y))
<1> DEFINE p == Opened(x, y, c)
           d == Started(x)
           r == Started(y)
<1>1. Wnd \in Nat /\ Mss \in Nat /\ SndBuf \in Nat /\ Half \in Nat /\ x \in Nat /\ y \in Nat /\ c \in Nat /\ Mss <= c
  BY SizeFacts DEF Room, Wide
<1>2. /\ EndOf(d) = x /\ d.first = x /\ d.written = 0 /\ d.closed = FALSE
      /\ d.sent = x /\ d.got = 0 /\ d.limit = x + Wnd
  BY StartedIs
<1>3. r.first = y /\ r.got = 0
  BY StartedIs
<1>5. /\ p.state = "ESTABLISHED" /\ p.snd_lbb = x /\ p.snd_buf = SndBuf
      /\ p.unsent = <<>> /\ p.unacked = <<>> /\ p.snd_nxt = x /\ p.lastack = x
      /\ p.snd_wnd = Wnd /\ p.snd_wl1 = Diff(y, 2) /\ p.snd_wl2 = x /\ p.cwnd = c
      /\ ~p.rtime /\ p.rcv_nxt = y /\ p.rcv_wnd = Wnd /\ p.rcv_ann_wnd = Wnd
      /\ p.edge = Add(y, Wnd) /\ p.ooseq = <<>> /\ ~p.rxclosed
  BY OpenedIs
<1> HIDE DEF p, d, r
<1>4. p.edge = y + Wnd
  BY <1>5, RoomIs
<1>6. Len(<<>>) = 0 /\ 1 .. 0 = {}
  OBVIOUS
<1>7. QueuesOK(p, d)
  <2>1. Queue(<<>>, <<>>, x, d)
    BY <1>2, <1>6 DEF Queue, Run
  <2>2. SentOK(<<>>, d)
    BY <1>6 DEF SentOK
  <2>3. SndBuf = SndBuf - (x - x)
    BY <1>1
  <2> QED
    BY <1>2, <1>5, <2>1, <2>2, <2>3 DEF QueuesOK
<1>8. Snd(p, d)
  BY <1>1, <1>2, <1>5, <1>7 DEF Snd
<1>9. Rcv(p, r)
  <2>1. OoseqOK(p, r)
    BY <1>5, <1>6 DEF OoseqOK, Fragments, Sorted
  <2> QED
    BY <1>1, <1>3, <1>4, <1>5, <2>1 DEF Rcv
<1>10. StateOK(p, FALSE, FALSE) /\ Busy(p)
  BY <1>5 DEF StateOK, Phase, Busy
<1>11. Quiet(p, d, r)
  BY <1>2, <1>3, <1>5 DEF Quiet
<1> QED
  BY <1>8, <1>9, <1>10, <1>11 DEF p, d, r

\* The initial states are as the invariant has them.
LEMMA InitInv ==
  ASSUME ShortStreams, Init
  PROVE  IInv
<1>1. PICK first \in [Ends -> Firsts], cwnd \in {Mss, 2 * Mss} :
        pcb = [e \in Ends |-> Opened(first[e], first[Other(e)], cwnd)]
  BY DEF Init
<1>2. /\ plan \in Plans /\ net = {} /\ faults = 0 /\ written = [e \in Ends |-> 0] /\ closed = {}
      /\ delivered = [e \in Ends |-> <<>>] /\ eof = {}
  BY DEF Init
<1>3. Wide(cwnd) /\ Wnd \in Nat /\ Half \in Nat
  BY SizeFacts DEF Wide
<1>4. ASSUME NEW e \in Ends
      PROVE  Room(first[e]) /\ plan.total[e] \in Nat
  <2> DEFINE x == first[e]
             y == plan.total[e]
  <2>1. x \in Firsts /\ x \in Nat /\ y \in Nat
    <3>1. plan.total \in [Ends -> Nat]
      BY <1>2, SizesAssumption
    <3>2. x \in Firsts
      OBVIOUS
    <3>3. x \in 0 .. SeqSpace - 1 /\ SeqSpace \in Nat
      BY <3>2, SeqAssumption
    <3> QED
      BY <3>1, <3>2, <3>3
  <2>2. x + y + 2 * Wnd + 2 <= Half
    BY <1>2, <2>1 DEF ShortStreams
  <2> HIDE DEF x, y
  <2>3. x + 2 * Wnd + 2 <= Half
    BY ONLY <1>3, <2>1, <2>2
  <2> QED
    BY <2>1, <2>3 DEF x, y, Room
<1>5. ASSUME NEW e \in Ends
      PROVE  /\ Other(e) \in Ends /\ Other(Other(e)) = e
             /\ pcb[e] \in Block /\ pcb[e].state = "ESTABLISHED" /\ pcb[e].snd_nxt = first[e]
             /\ pcb[e].edge = first[Other(e)] + Wnd
             /\ pcb[e] = Opened(first[e], first[Other(e)], cwnd)
  <2>1. Other(e) \in Ends /\ Other(Other(e)) = e
    BY EndsFacts
  <2>2. pcb[e] = Opened(first[e], first[Other(e)], cwnd)
    BY <1>1
  <2>3. Room(first[e]) /\ Room(first[Other(e)])
    BY <1>4, <2>1
  <2> DEFINE x == first[e]
             y == first[Other(e)]
             p == Opened(x, y, cwnd)
  <2>4. p = pcb[e]
    BY <2>2
  <2>5. Room(x) /\ Room(y)
    BY <2>3
  <2> HIDE DEF x, y
  <2>6. p \in Block /\ p.state = "ESTABLISHED" /\ p.snd_nxt = x /\ p.edge = Add(y, Wnd)
    BY <1>3, <2>5, OpenedIs
  <2> QED
    BY <2>1, <2>2, <2>4, <2>5, <2>6, RoomIs DEF x, y
<1>6. ASSUME NEW e \in Ends
      PROVE  Flow(first, e) = Started(first[e])
  <2> DEFINE f == Other(e)
             x == first[e]
  <2>1. f \in Ends /\ Other(f) = e
    BY <1>5
  <2> HIDE DEF f
  <2>2. Live(e) /\ Live(f) /\ pcb[f].edge = x + Wnd /\ pcb[e].snd_nxt = x
    BY <1>5, <2>1 DEF Live
  <2>3. written[e] = 0 /\ written[f] = 0 /\ delivered[f] = <<>> /\ e \notin closed /\ f \notin closed /\ f \notin eof
    BY <1>2, <2>1
  <2>4. Open(f)
    BY <2>2, <2>3 DEF Open
  <2>5. Len(delivered[f]) + Bit(f \in eof) = 0
    BY <2>3 DEF Bit
  <2>6. (e \in closed) = FALSE
    BY <2>3
  <2> QED
    BY <2>2, <2>3, <2>4, <2>5, <2>6 DEF Flow, Started, f, x
<1>7. Types
  <2>1. pcb \in [Ends -> Block]
    BY <1>1, <1>5
  <2> QED
    BY <1>2, <2>1, SizesAssumption DEF Types
<1>8. ASSUME NEW e \in Ends PROVE EndInv(first, e)
  <2> DEFINE f == Other(e)
             d == Started(first[e])
             r == Started(first[f])
             p == pcb[e]
  <2>1. f \in Ends /\ Flow(first, e) = d /\ Flow(first, f) = r
    BY <1>5, <1>6
  <2>2. FlowOK(d)
    BY <1>4, StartedIs
  <2>3. Snd(p, d) /\ Busy(p) /\ Rcv(p, r) /\ StateOK(p, FALSE, FALSE) /\ Quiet(p, d, r)
    <3> DEFINE x == first[e]
               y == first[f]
               z == Opened(x, y, cwnd)
    <3>1. Room(x) /\ Room(y)
      BY <1>4, <2>1
    <3>2. pcb[e] = z
      BY <1>5
    <3> HIDE DEF x, y, p
    <3>3. /\ Snd(z, Started(x)) /\ Busy(z) /\ Rcv(z, Started(y)) /\ StateOK(z, FALSE, FALSE)
          /\ Quiet(z, Started(x), Started(y))
      BY <1>3, <3>1, OpenedOK
    <3> HIDE DEF z
    <3> QED
      BY <3>2, <3>3 DEF x, y, p
  <2>4. (e \in closed) = FALSE /\ (e \in eof) = FALSE /\ written[e] = 0 /\ written[f] = 0 /\ delivered[e] = <<>>
    BY <1>2, <2>1
  <2>5. Len(delivered[e]) = 0 /\ delivered[e] = [i \in 1 .. Len(delivered[e]) |-> i]
    BY <2>4
  <2>6. first[e] \in Firsts /\ p \in Block /\ written[e] <= plan.total[e]
    BY <1>4, <1>5, <2>4
  <2> HIDE DEF d, r, p
  <2>7. StateOK(p, e \in closed, e \in eof)
    BY <2>3, <2>4
  <2>8. e \notin eof => Len(delivered[e]) <= written[f]
    BY <2>4, <2>5
  <2> HIDE DEF f
  <2> QED
    BY <2>1, <2>2, <2>3, <2>4, <2>5, <2>6, <2>7, <2>8 DEF EndInv, p, f
<1>9. NetInv(first)
  BY <1>2 DEF NetInv
<1> QED
  BY <1>7, <1>8, <1>9 DEF Inv, IInv

\* The inductive invariant.
LEMMA InvKept == ShortStreams => (Spec => []IInv)
<1> SUFFICES ASSUME ShortStreams PROVE Spec => []IInv
  OBVIOUS
<1>1. Init => IInv
  BY InitInv
<1>2. IInv /\ [Next]_vars => IInv'
  BY NextKeeps DEF IInv
<1> QED
  BY <1>1, <1>2, PTL DEF Spec

-----------------------------------------------------------------------------
(* The properties follow from it *)

\* Where the sequence numbers of a block that is in use lie.
LEMMA Bounds ==
  ASSUME NEW d, FlowOK(d), NEW r, FlowOK(r), NEW p \in Block, Snd(p, r), Rcv(p, d)
  PROVE  /\ p.lastack \in Low /\ p.snd_nxt \in Low /\ p.snd_lbb \in Low /\ p.rcv_nxt \in Low
         /\ p.edge \in Low /\ NewEdge(p) \in Low
         /\ NewEdge(p) = d.first + d.got + Wnd /\ p.edge <= NewEdge(p)
<1> DEFINE la == p.lastack
           nx == p.snd_nxt
           lb == p.snd_lbb
           rn == p.rcv_nxt
           an == p.rcv_ann_wnd
           ed == p.edge
           er == EndOf(r)
           e2 == EndOf(d)
           s2 == d.sent
           s1 == r.sent
           g1 == r.first + r.got
           g2 == d.first + d.got
<1>1. /\ Wnd \in Nat /\ Half \in Nat /\ SeqSpace = 2 * Half
      /\ la \in Nat /\ nx \in Nat /\ lb \in Nat /\ rn \in Nat /\ an \in Int /\ ed \in Nat
      /\ er \in Nat /\ e2 \in Nat /\ s1 \in Nat /\ s2 \in Nat /\ g1 \in Nat /\ g2 \in Nat
      /\ er + 2 * Wnd + 1 <= Half /\ e2 + 2 * Wnd + 1 <= Half
      /\ g1 <= s1 /\ s1 <= er /\ g2 <= s2 /\ s2 <= e2
  <2>1. /\ Wnd \in Nat /\ Half \in Nat /\ SeqSpace = 2 * Half
        /\ la \in Nat /\ nx \in Nat /\ lb \in Nat /\ rn \in Nat /\ an \in Int /\ ed \in Nat
    BY SizeFacts DEF Block
  <2>2. r.first \in Nat /\ r.got \in Nat /\ d.first \in Nat /\ d.got \in Nat
    BY FlowFacts
  <2>3. g1 \in Nat /\ g2 \in Nat
    BY <2>2
  <2>4. /\ er \in Nat /\ s1 \in Nat /\ er + 2 * Wnd + 1 <= Half /\ g1 <= s1 /\ s1 <= er
    BY FlowFacts
  <2>5. /\ e2 \in Nat /\ s2 \in Nat /\ e2 + 2 * Wnd + 1 <= Half /\ g2 <= s2 /\ s2 <= e2
    BY FlowFacts
  <2> QED
    BY <2>1, <2>3, <2>4, <2>5
<1>2. la <= g1 /\ nx = s1 /\ lb <= er
  BY DEF Snd
<1>3. rn = g2 /\ an <= Wnd /\ ed <= rn + an /\ p.rcv_wnd = Wnd
  BY DEF Rcv
<1> HIDE DEF la, nx, lb, rn, an, ed, er, e2, s1, s2, g1, g2
<1>4. la < Half /\ nx < Half /\ lb < Half /\ rn < Half /\ ed < Half /\ rn + Wnd < Half /\ ed <= rn + Wnd
  BY ONLY <1>1, <1>2, <1>3
<1>5. rn + Wnd \in Low
  BY <1>1, <1>4 DEF Low
<1>6. NewEdge(p) = rn + Wnd
  BY <1>1, <1>3, <1>5, LowAdd DEF NewEdge, rn
<1>7. la \in Low /\ nx \in Low /\ lb \in Low /\ rn \in Low /\ ed \in Low
  BY <1>1, <1>4 DEF Low
<1>8. NewEdge(p) \in Low /\ NewEdge(p) = g2 + Wnd /\ ed <= NewEdge(p)
  BY <1>3, <1>4, <1>5, <1>6
<1> QED
  BY <1>7, <1>8 DEF la, nx, lb, rn, ed, g2

\* An end whose block is in use: r is the direction it sends, d the one it receives.
LEMMA LiveEnd ==
  ASSUME NEW first, Inv(first), NEW e \in Ends, Live(e)
  PROVE  LET d == Flow(first, Other(e))
             r == Flow(first, e)
             p == pcb[e]
         IN  /\ Snd(p, r) /\ Busy(p) /\ Rcv(p, d) /\ StateOK(p, r.closed, e \in eof)
             /\ FlowOK(d) /\ FlowOK(r) /\ p \in Block
             /\ r.closed = (e \in closed) /\ r.written = written[e] /\ r.first = first[e]
<1>1. pcb[e] # Gone
  BY GoneBlock DEF Live
<1> QED
  BY <1>1, AtRest DEF Rest

\* The invariant gives the types.
LEMMA TypesHold == IInv => TypeOK
<1> SUFFICES ASSUME NEW first \in [Ends -> Firsts], Inv(first) PROVE TypeOK
  BY DEF IInv
<1>1. closed \cup eof \subseteq Ends /\ faults \in 0 .. MaxFaults /\ pcb \in [Ends -> Block]
  BY DEF Inv, Types
<1>2. SeqSpace \in Nat /\ SeqSpace > 0 /\ Half <= SeqSpace /\ Low \subseteq 0 .. SeqSpace - 1
  BY SizeFacts DEF Low
<1>3. ASSUME NEW e \in Ends
      PROVE  LET p == pcb[e]
             IN  /\ p.state \in States
                 /\ {p.snd_buf, p.rcv_wnd, p.rcv_ann_wnd, p.snd_wnd, p.nrtx, p.dupacks} \subseteq Nat
                 /\ {p.snd_lbb, p.snd_nxt, p.lastack, p.rcv_nxt, p.edge} \subseteq 0 .. SeqSpace - 1
                 /\ {p.rtime, p.rxclosed} \subseteq BOOLEAN
  <2> DEFINE p == pcb[e]
             d == Flow(first, Other(e))
             r == Flow(first, e)
  <2>1. p \in Block
    BY <1>1
  <2>2. /\ p.state \in States /\ p.snd_wnd \in Nat /\ p.nrtx \in Nat /\ p.dupacks \in Nat
        /\ p.rtime \in BOOLEAN /\ p.rxclosed \in BOOLEAN
        /\ p.snd_buf \in Int /\ p.rcv_wnd \in Int /\ p.rcv_ann_wnd \in Int
    BY <2>1 DEF Block
  <2>3. CASE Live(e)
    <3>1. Snd(p, r) /\ Rcv(p, d) /\ FlowOK(d) /\ FlowOK(r)
      BY <2>3, LiveEnd
    <3>2. /\ p.lastack \in Low /\ p.snd_nxt \in Low /\ p.snd_lbb \in Low /\ p.rcv_nxt \in Low
          /\ p.edge \in Low
      BY <2>1, <3>1, Bounds
    <3>3. p.snd_buf \in Nat /\ p.rcv_wnd \in Nat /\ p.rcv_ann_wnd \in Nat
      <4>1. p.snd_buf >= 0 /\ p.rcv_wnd = Wnd /\ Wnd - Mss <= p.rcv_ann_wnd
        BY <3>1 DEF Snd, Rcv
      <4>2. Wnd \in Nat /\ Mss \in Nat /\ Mss <= Wnd
        BY SizeFacts
      <4> QED
        BY <2>2, <4>1, <4>2
    <3> QED
      BY <1>2, <2>2, <3>2, <3>3
  <2>4. CASE ~Live(e)
    <3>1. p = Gone
      BY <2>4, AtRest DEF Live
    <3>2. /\ Gone.snd_buf = 0 /\ Gone.rcv_wnd = 0 /\ Gone.rcv_ann_wnd = 0
          /\ Gone.snd_lbb = 0 /\ Gone.snd_nxt = 0 /\ Gone.lastack = 0 /\ Gone.rcv_nxt = 0 /\ Gone.edge = 0
      BY DEF Gone
    <3>3. 0 \in 0 .. SeqSpace - 1
      BY <1>2
    <3> HIDE DEF p
    <3> QED
      BY <2>2, <3>1, <3>2, <3>3 DEF p
  <2> QED
    BY <2>3, <2>4
<1> QED
  BY <1>1, <1>3 DEF TypeOK

\* The invariant gives TimerRuns: QueuesOK relates the timer and unacked.
LEMMA TimersHold == IInv => TimerRuns
<1> SUFFICES ASSUME NEW first \in [Ends -> Firsts], Inv(first), NEW e \in Ends, Sending(e)
             PROVE  /\ pcb[e].rtime <=> pcb[e].unacked # <<>>
                    /\ pcb[e].unsent # <<>> => pcb[e].unacked # <<>>
  BY DEF IInv, TimerRuns
<1>1. Live(e) /\ pcb[e].state # "TIME_WAIT"
  BY DEF Sending, Live
<1>2. Snd(pcb[e], Flow(first, e)) /\ Busy(pcb[e])
  BY <1>1, LiveEnd
<1> QED
  BY <1>1, <1>2 DEF Snd, QueuesOK, Busy

\* The two send queues of an end as one.
LEMMA Outstands ==
  ASSUME NEW first, Inv(first), NEW e \in Ends, Sending(e)
  PROVE  LET r == Flow(first, e)
             q == Outstanding(e)
             la == pcb[e].lastack
         IN  /\ FlowOK(r) /\ q \in Seq(Segment) /\ Run(q, EndOf(r), r)
             /\ la \in Low /\ la <= r.first + r.got
             /\ q = <<>> => la = EndOf(r)
             /\ q # <<>> => q[1].seq <= la /\ la < Stop(q[1])
             /\ pcb[e].snd_lbb \in Low
             /\ pcb[e].snd_lbb \in {EndOf(r), EndOf(r) - Bit(r.closed)}
<1> DEFINE d == Flow(first, Other(e))
           r == Flow(first, e)
           p == pcb[e]
           q == Outstanding(e)
<1>1. Live(e) /\ p.state # "TIME_WAIT"
  BY DEF Sending, Live
<1>2. Snd(p, r) /\ Rcv(p, d) /\ FlowOK(d) /\ FlowOK(r) /\ p \in Block
  BY <1>1, LiveEnd
<1>3. p.lastack \in Low /\ p.snd_lbb \in Low
  BY <1>2, Bounds
<1>4. Queue(p.unacked, p.unsent, p.lastack, r) /\ p.snd_lbb \in {EndOf(r), EndOf(r) - Bit(r.closed)}
  BY <1>1, <1>2 DEF Snd, QueuesOK
<1>5. p.unacked \in Seq(Segment) /\ p.unsent \in Seq(Segment) /\ p.lastack \in Nat
  BY <1>2 DEF Block
<1>6. p.unacked \o p.unsent \in Seq(Segment) /\ Queue(<<>>, p.unacked \o p.unsent, p.lastack, r)
  BY <1>2, <1>4, <1>5, QueueRto
<1>7. q = p.unacked \o p.unsent
  BY DEF Outstanding
<1> HIDE DEF q
<1>8. q \in Seq(Segment) /\ Queue(<<>>, q, p.lastack, r)
  BY <1>6, <1>7
<1>9. Run(q, EndOf(r), r) /\ (q = <<>> => p.lastack = EndOf(r))
      /\ (q # <<>> => q[1].seq <= p.lastack /\ p.lastack < Stop(q[1]))
  BY <1>8 DEF Queue
<1>10. p.lastack <= r.first + r.got
  BY <1>2 DEF Snd
<1> QED
  BY <1>2, <1>3, <1>4, <1>8, <1>9, <1>10 DEF q

\* The invariant gives QueuesOrdered: the queues are runs.
LEMMA QueuesHold == IInv => QueuesOrdered
<1> SUFFICES ASSUME NEW first \in [Ends -> Firsts], Inv(first), NEW e \in Ends, Sending(e)
             PROVE  LET q == Outstanding(e)
                        p == pcb[e]
                    IN  /\ \A i \in 1 .. Len(q) - 1 : q[i + 1].seq = End(q[i])
                        /\ q # <<>> => LEQ(q[1].seq, p.lastack) /\ LT(p.lastack, End(q[1]))
                        /\ (IF q = <<>> THEN p.lastack ELSE End(Last(q))) \in {p.snd_lbb, Add(p.snd_lbb, 1)}
  BY DEF IInv, QueuesOrdered
<1> DEFINE r == Flow(first, e)
           q == Outstanding(e)
           p == pcb[e]
           la == p.lastack
           lb == p.snd_lbb
           z == EndOf(r)
<1>1. /\ FlowOK(r) /\ q \in Seq(Segment) /\ Run(q, z, r)
      /\ la \in Low /\ la <= r.first + r.got
      /\ q = <<>> => la = z
      /\ q # <<>> => q[1].seq <= la /\ la < Stop(q[1])
      /\ lb \in Low /\ lb \in {z, z - Bit(r.closed)}
  BY Outstands
<1> HIDE DEF r, q, p, la, lb, z
<1>2. /\ Len(q) \in Nat /\ (q = <<>> <=> Len(q) = 0)
      /\ \A i \in 1 .. Len(q) : Shaped(q[i])
  BY <1>1, SegmentQueue
<1>3. \A i \in 1 .. Len(q) : /\ Own(q[i], r)
                             /\ Stop(q[i]) = IF i = Len(q) THEN z ELSE q[i + 1].seq
  BY <1>1 DEF Run
<1>4. \A i \in 1 .. Len(q) : q[i].seq \in Low /\ End(q[i]) = Stop(q[i]) /\ Stop(q[i]) \in Low
  BY <1>1, <1>2, <1>3, OwnFacts
<1>5. \A i \in 1 .. Len(q) - 1 : q[i + 1].seq = End(q[i])
  BY <1>2, <1>3, <1>4
<1>6. q # <<>> => LEQ(q[1].seq, la) /\ LT(la, End(q[1]))
  BY <1>1, <1>2, <1>4, LowOrder
<1>7. (IF q = <<>> THEN la ELSE End(Last(q))) = z
  BY <1>1, <1>2, <1>3, <1>4 DEF Last
<1>8. z \in {lb, Add(lb, 1)}
  <2>1. z \in Nat /\ z + 2 * Wnd + 1 <= Half /\ Wnd \in Nat /\ Half \in Nat /\ SeqSpace = 2 * Half
    BY <1>1, FlowFacts, SizeFacts DEF z
  <2>2. CASE lb = z
    BY <2>2
  <2>3. CASE lb = z - 1
    <3>1. lb \in Nat /\ lb + 1 = z /\ lb + 1 < SeqSpace
      BY <1>1, <2>1, <2>3 DEF Low
    <3>2. Add(lb, 1) = lb + 1
      BY <3>1, AddIs
    <3> QED
      BY <3>1, <3>2
  <2>4. z - 0 = z
    BY <2>1
  <2> QED
    BY <1>1, <2>2, <2>3, <2>4 DEF Bit
<1> QED
  BY <1>5, <1>6, <1>7, <1>8 DEF q, p, la, lb

\* Everything from lastack on is in a segment of the queue.
LEMMA Covered ==
  ASSUME NEW r, FlowOK(r), NEW q \in Seq(Segment), Run(q, EndOf(r), r), NEW la \in Nat,
         q = <<>> => la = EndOf(r), q # <<>> => q[1].seq <= la,
         NEW x \in Nat, la <= x, x < EndOf(r)
  PROVE  \E s \in ToSet(q) : Shaped(s) /\ Own(s, r) /\ s.seq <= x /\ x < Stop(s)
<1> DEFINE z == EndOf(r)
           T == {k \in 1 .. Len(q) : x < Stop(q[k])}
<1>1. z \in Nat /\ la <= x /\ x < z
  BY FlowFacts
<1>2. q # <<>>
  BY <1>1
<1>3. Len(q) \in Nat /\ Len(q) # 0 /\ \A i \in 1 .. Len(q) : Shaped(q[i])
  BY <1>2, SegmentQueue
<1>4. \A i \in 1 .. Len(q) : /\ Own(q[i], r)
                             /\ Stop(q[i]) = IF i = Len(q) THEN z ELSE q[i + 1].seq
  BY DEF Run
<1> HIDE DEF z
<1>5. Len(q) \in T
  BY <1>1, <1>3, <1>4
<1>6. PICK k \in T : \A j \in T : k <= j
  <2>1. T \subseteq Nat /\ T # {}
    BY <1>5
  <2> HIDE DEF T
  <2> QED
    BY <2>1, LeastNat
<1>7. k \in 1 .. Len(q) /\ x < Stop(q[k])
  BY <1>6
<1>8. q[k].seq <= x
  <2>1. CASE k = 1
    <3>1. q[1].seq \in Nat /\ q[1].seq <= la
      BY <1>2, <1>3, <1>7, <2>1 DEF Shaped
    <3> DEFINE s == q[1].seq
    <3>2. s \in Nat /\ s <= la
      BY <3>1
    <3> HIDE DEF s
    <3>3. s <= x
      BY ONLY <3>2, <1>1, la \in Nat, x \in Nat
    <3> QED
      BY <2>1, <3>3 DEF s
  <2>2. CASE k # 1
    <3>1. k - 1 \in 1 .. Len(q) /\ k - 1 # Len(q) /\ (k - 1) + 1 = k /\ ~(k <= k - 1)
      BY <1>3, <1>7, <2>2
    <3>2. k - 1 \notin T
      BY <1>6, <3>1
    <3>3. ~(x < Stop(q[k - 1]))
      BY <3>1, <3>2
    <3>4. Stop(q[k - 1]) = q[k].seq
      BY <1>4, <3>1
    <3>5. q[k].seq \in Nat
      BY <1>3, <1>7 DEF Shaped
    <3> QED
      BY <3>3, <3>4, <3>5
  <2> QED
    BY <2>1, <2>2
<1>9. q[k] \in ToSet(q)
  BY <1>7 DEF ToSet
<1> QED
  BY <1>3, <1>4, <1>7, <1>8, <1>9

\* The invariant gives NothingFreedEarly: what the reader lacks is at or behind lastack.
LEMMA FreedHold == IInv => NothingFreedEarly
<1> SUFFICES ASSUME NEW first \in [Ends -> Firsts], Inv(first), NEW e \in Ends,
                    Live(e) /\ Live(Other(e)) /\ ~pcb[Other(e)].rxclosed
             PROVE  LET f == Other(e)
                        q == ToSet(Outstanding(e))
                    IN  /\ \A i \in Len(delivered[f]) + 1 .. written[e] :
                              \E s \in q : s.pos < i /\ i <= s.pos + s.len
                        /\ e \in closed => \E s \in q : s.fin
  BY DEF IInv, NothingFreedEarly
<1> DEFINE f == Other(e)
           r == Flow(first, e)
           Q == Outstanding(e)
           n == Len(delivered[f])
           la == pcb[e].lastack
           x0 == r.first
           w == r.written
<1>1. f \in Ends /\ Other(f) = e
  BY EndsFacts
<1>2. f \notin closed /\ f \notin eof
  <2>1. StateOK(pcb[f], Flow(first, f).closed, f \in eof) /\ Flow(first, f).closed = (f \in closed)
    BY <1>1, LiveEnd
  <2> QED
    BY <2>1 DEF StateOK, Phase
<1>3. r.closed = (e \in closed) /\ w = written[e] /\ FlowOK(r)
  BY LiveEnd
<1>4. Sending(e)
  <2> SUFFICES ASSUME pcb[e].state = "TIME_WAIT" PROVE FALSE
    BY DEF Sending, Live
  <2>1. StateOK(pcb[e], e \in closed, e \in eof)
    BY <1>3, LiveEnd
  <2>2. e \in eof
    BY <2>1 DEF StateOK, Phase
  <2>3. f \in closed
    BY <2>2 DEF Inv, EndInv
  <2> QED
    BY <1>2, <2>3
<1>5. /\ Q \in Seq(Segment) /\ Run(Q, EndOf(r), r)
      /\ la \in Low /\ la <= r.first + r.got
      /\ Q = <<>> => la = EndOf(r)
      /\ Q # <<>> => Q[1].seq <= la
  BY <1>4, Outstands
<1>6. r.got = n /\ n \in Nat /\ n <= w
  <2>1. r.got = Len(delivered[f]) + 0
    BY <1>2 DEF Flow, Bit
  <2>2. EndInv(first, f) /\ delivered[f] \in Seq(Nat)
    BY <1>1 DEF Inv, Types
  <2>3. n <= w
    BY <1>1, <1>2, <1>3, <2>2 DEF EndInv
  <2> QED
    BY <2>1, <2>2, <2>3
<1>7. /\ x0 \in Nat /\ w \in Nat /\ EndOf(r) = x0 + w + (IF r.closed THEN 1 ELSE 0)
      /\ la \in Nat /\ la <= x0 + n
  BY <1>3, <1>5, <1>6, FlowFacts DEF Low
<1> HIDE DEF r, Q, n, la, x0, w
<1>8. ASSUME NEW i \in n + 1 .. w
      PROVE  \E s \in ToSet(Q) : s.pos < i /\ i <= s.pos + s.len
  <2> DEFINE x == x0 + i - 1
  <2>1. x \in Nat /\ la <= x /\ x < EndOf(r) /\ x < x0 + w /\ i \in Nat
    BY <1>6, <1>7, <1>8
  <2> HIDE DEF x
  <2>2. PICK s \in ToSet(Q) : Shaped(s) /\ Own(s, r) /\ s.seq <= x /\ x < Stop(s)
    BY <1>3, <1>5, <1>7, <2>1, Covered
  <2> DEFINE sq == s.seq
             ln == s.len
             ps == s.pos
  <2>3. /\ sq \in Nat /\ ln \in Nat /\ ps \in Nat /\ (s.fin => sq + ln = x0 + w)
        /\ (ln > 0 => sq = x0 + ps) /\ sq <= x /\ x < sq + ln + Bit(s.fin)
    BY <2>2 DEF Own, Shaped, Stop, TcpLen, Bit, x0, w
  <2> HIDE DEF sq, ln, ps
  <2>4. x < sq + ln
    <3>1. CASE s.fin
      BY <2>1, <2>3, <3>1
    <3>2. CASE ~s.fin
      BY <2>3, <3>2 DEF Bit
    <3> QED
      BY <3>1, <3>2
  <2>5. ps < i /\ i <= ps + ln
    BY <1>7, <2>1, <2>3, <2>4 DEF x
  <2> QED
    BY <2>2, <2>5 DEF ps, ln
<1>9. ASSUME e \in closed PROVE \E s \in ToSet(Q) : s.fin
  <2> DEFINE x == x0 + w
  <2>1. x \in Nat /\ la <= x /\ x < EndOf(r)
    <3>1. r.closed
      BY <1>3, <1>9
    <3>2. EndOf(r) = x0 + w + 1
      BY <1>7, <3>1
    <3> QED
      BY <1>6, <1>7, <3>2
  <2> HIDE DEF x
  <2>2. PICK s \in ToSet(Q) : Shaped(s) /\ Own(s, r) /\ s.seq <= x /\ x < Stop(s)
    BY <1>3, <1>5, <1>7, <2>1, Covered
  <2> DEFINE sq == s.seq
             ln == s.len
  <2>3. /\ sq \in Nat /\ ln \in Nat /\ sq + ln <= x0 + w /\ x < sq + ln + Bit(s.fin)
    BY <2>2 DEF Own, Shaped, Stop, TcpLen, Bit, x0, w
  <2> HIDE DEF sq, ln
  <2>4. s.fin
    BY <1>7, <2>3 DEF x, Bit
  <2> QED
    BY <2>2, <2>4
<1> QED
  BY <1>3, <1>8, <1>9 DEF Q, n, w

\* The invariant gives OoseqOrdered.
LEMMA OoseqHold == IInv => OoseqOrdered
<1> SUFFICES ASSUME NEW first \in [Ends -> Firsts], Inv(first), NEW e \in Ends
             PROVE  LET q == pcb[e].ooseq
                        p == pcb[e]
                    IN  /\ q # <<>> => LT(p.rcv_nxt, q[1].seq) /\ LEQ(Add(Last(q).seq, Last(q).len), NewEdge(p))
                        /\ \A i \in 1 .. Len(q) : q[i].held = q[i].len
                        /\ \A i \in 1 .. Len(q) - 1 : ~q[i].fin /\ LEQ(End(q[i]), q[i + 1].seq)
  BY DEF IInv, OoseqOrdered
<1> DEFINE p == pcb[e]
           q == p.ooseq
           d == Flow(first, Other(e))
           r == Flow(first, e)
<1>1. CASE ~Live(e)
  <2>1. p = Gone
    BY <1>1, AtRest DEF Live
  <2>2. Gone.ooseq = <<>>
    BY DEF Gone
  <2>3. q = <<>>
    BY <2>1, <2>2
  <2> HIDE DEF q, p
  <2> QED
    BY <2>3 DEF q, p
<1>2. CASE Live(e)
  <2>1. Snd(p, r) /\ Rcv(p, d) /\ FlowOK(d) /\ FlowOK(r) /\ p \in Block
    BY <1>2, LiveEnd
  <2>2. q \in Seq(Fragment)
    BY <2>1 DEF Block
  <2>3. Len(q) \in Nat /\ (q = <<>> <=> Len(q) = 0) /\ \A i \in 1 .. Len(q) : q[i] \in Fragment /\ Shaped(q[i])
    <3> DEFINE F == Fragment
    <3>1. q \in Seq(F)
      BY <2>2
    <3>2. \A s \in F : Shaped(s)
      BY SegmentShape
    <3> HIDE DEF q, F
    <3>3. Len(q) \in Nat /\ (q = <<>> <=> Len(q) = 0) /\ \A i \in 1 .. Len(q) : q[i] \in F
      BY <3>1
    <3> QED
      BY <3>2, <3>3 DEF F
  <2>4. (\A i \in 1 .. Len(q) : Fits(q[i], p.rcv_nxt, d)) /\ Sorted(q)
    BY <2>1 DEF Rcv, OoseqOK, Fragments
  <2>5. /\ p.rcv_nxt \in Low /\ NewEdge(p) \in Low /\ NewEdge(p) = p.rcv_nxt + Wnd
    <3>1. p.rcv_nxt = d.first + d.got
      BY <2>1 DEF Rcv
    <3> QED
      BY <2>1, <3>1, Bounds
  <2> HIDE DEF q, p, d
  <2>6. \A i \in 1 .. Len(q) : /\ Own(q[i], d) /\ q[i].held = q[i].len
                               /\ p.rcv_nxt < q[i].seq /\ q[i].seq + q[i].len <= p.rcv_nxt + Wnd
    BY <2>4 DEF Fits
  <2>7. \A i \in 1 .. Len(q) : /\ q[i].seq \in Low /\ End(q[i]) = Stop(q[i]) /\ Stop(q[i]) \in Low
                               /\ q[i].seq + q[i].len \in Low /\ Add(q[i].seq, q[i].len) = q[i].seq + q[i].len
    BY <2>1, <2>3, <2>6, OwnFacts
  <2>8. \A i \in 1 .. Len(q) - 1 : ~q[i].fin /\ LEQ(End(q[i]), q[i + 1].seq)
    <3> SUFFICES ASSUME NEW i \in 1 .. Len(q) - 1 PROVE ~q[i].fin /\ LEQ(End(q[i]), q[i + 1].seq)
      OBVIOUS
    <3>1. i \in 1 .. Len(q) /\ i + 1 \in 1 .. Len(q) /\ i < i + 1
      BY <2>3
    <3>2. ~q[i].fin /\ Stop(q[i]) <= q[i + 1].seq
      BY <2>4, <3>1 DEF Sorted
    <3> QED
      BY <2>7, <3>1, <3>2, LowOrder
  <2>9. q # <<>> => LT(p.rcv_nxt, q[1].seq) /\ LEQ(Add(Last(q).seq, Last(q).len), NewEdge(p))
    <3> SUFFICES ASSUME q # <<>> PROVE LT(p.rcv_nxt, q[1].seq) /\ LEQ(Add(q[Len(q)].seq, q[Len(q)].len), NewEdge(p))
      BY DEF Last
    <3>1. 1 \in 1 .. Len(q) /\ Len(q) \in 1 .. Len(q)
      BY <2>3
    <3> QED
      BY <2>5, <2>6, <2>7, <3>1, LowOrder
  <2> QED
    BY <2>6, <2>8, <2>9 DEF q, p
<1> QED
  BY <1>1, <1>2

\* The invariant gives WindowRespected.
LEMMA WindowHold == IInv => WindowRespected
<1> SUFFICES ASSUME NEW first \in [Ends -> Firsts], Inv(first) PROVE WindowRespected
  BY DEF IInv
<1>1. ASSUME NEW m \in net, Live(m.to), m.seg.len > 0
      PROVE  LET end == Add(m.seg.seq, m.seg.len)
             IN  /\ LEQ(end, NewEdge(pcb[m.to]))
                 /\ written[m.to] = 0 /\ m.to \notin closed => LEQ(end, pcb[m.to].edge)
  <2> DEFINE e == m.to
             f == Other(e)
             p == pcb[e]
             s == m.seg
             d == Flow(first, f)
             r == Flow(first, e)
  <2>1. e \in Ends /\ s \in Frame
    BY DEF Inv, Types
  <2>2. Snd(p, r) /\ Rcv(p, d) /\ FlowOK(d) /\ FlowOK(r) /\ p \in Block
    BY <1>1, <2>1, LiveEnd
  <2>3. FrameOK(s, d, r)
    BY DEF Inv, NetInv
  <2>4. Other(f) = e
    BY <2>1, EndsFacts
  <2>5. d.limit = IF Open(e) THEN p.edge ELSE d.first + d.got + Wnd
    BY <2>4 DEF Flow
  <2>6. p.edge \in Low /\ NewEdge(p) \in Low /\ NewEdge(p) = d.first + d.got + Wnd /\ p.edge <= NewEdge(p)
    BY <2>2, Bounds
  <2>7. Open(e) <=> (written[e] = 0 /\ e \notin closed)
    BY <1>1 DEF Open
  <2> HIDE DEF d, r, p
  <2>8. s.len \in Nat /\ s.seq \in Nat /\ s.fin \in BOOLEAN /\ s.len > 0 /\ Shaped(s)
    BY <1>1, <2>1, SegmentShape DEF Frame
  <2>9. ~s.rst /\ s.seq + s.len <= d.limit
    BY <2>3, <2>8 DEF FrameOK
  <2>10. TcpLen(s) > 0
    BY <2>8 DEF TcpLen
  <2>11. Own(s, d)
    BY <2>3, <2>9, <2>10 DEF FrameOK
  <2>12. Add(s.seq, s.len) = s.seq + s.len /\ s.seq + s.len \in Low
    BY <2>2, <2>8, <2>11, OwnFacts
  <2>13. d.limit \in Low /\ d.limit <= NewEdge(p) /\ (Open(e) => d.limit = p.edge)
    BY <2>5, <2>6 DEF Low
  <2> DEFINE z == s.seq + s.len
  <2>14. z \in Low /\ z <= d.limit /\ Add(s.seq, s.len) = z
    BY <2>9, <2>12
  <2> HIDE DEF z, s
  <2>15. z <= NewEdge(p) /\ (Open(e) => z <= p.edge)
    BY <2>6, <2>13, <2>14 DEF Low
  <2> QED
    BY <2>6, <2>7, <2>14, <2>15, LowOrder DEF p, s
<1>2. ASSUME NEW e \in Ends, Live(e)
      PROVE  pcb[e].snd_wnd >= MssLocal
  <2>1. Snd(pcb[e], Flow(first, e)) /\ pcb[e] \in Block
    BY <1>2, LiveEnd
  <2>2. Wnd - Mss <= pcb[e].snd_wnd /\ pcb[e].snd_wnd \in Nat
    BY <2>1 DEF Snd, Block
  <2>3. MssLocal = Mss /\ Mss \in Nat /\ Wnd \in Nat /\ 2 * Mss <= Wnd
    BY SizeFacts
  <2> QED
    BY <2>2, <2>3
<1> QED
  BY <1>1, <1>2 DEF WindowRespected

\* No step takes back a window that was announced.
LEMMA EdgeKept ==
  ASSUME ShortStreams, NEW first, Inv(first), [Next]_vars, NEW e \in Ends, Live(e)'
  PROVE  LEQ(pcb[e].edge, pcb'[e].edge)
<1>1. CASE UNCHANGED vars
  BY <1>1 DEF vars, LEQ
<1>2. CASE \E x \in Ends : Acts(first, x)
  <2>1. PICK x \in Ends : Acts(first, x)
    BY <1>2
  <2> DEFINE d == Flow(first, Other(x))
             r == Flow(first, x)
  <2>2. PICK v, b, t : /\ Outcome(pcb[x], v, d, r, b, t, x \in eof)
                       /\ StepOf(x, v, t) /\ (pcb[x] = Gone => v.p = Gone)
    BY <2>1 DEF Acts
  <2>3. pcb' = [pcb EXCEPT ![x] = v.p] /\ pcb \in [Ends -> Block]
    BY <2>2 DEF StepOf, Inv, Types
  <2>4. CASE x = e
    <3>1. pcb'[e] = v.p
      BY <2>3, <2>4
    <3>2. v.p # Gone /\ pcb[e] # Gone
      BY <2>2, <2>4, <3>1, GoneBlock DEF Live
    <3>3. /\ FlowOK(b) /\ FlowOK(t) /\ v \in WorkSet
          /\ Alive(pcb[x], v, d, r, b, t, x \in eof)
      BY <2>2, <3>2 DEF Outcome
    <3>4. Snd(v.p, t) /\ Rcv(v.p, b) /\ pcb[e].edge <= v.p.edge /\ v.p \in Block
      BY <2>4, <3>3 DEF Alive, WorkSet
    <3>5. v.p.edge \in Low
      BY <3>3, <3>4, Bounds
    <3>6. pcb[e].edge \in Low
      <4>1. Live(e)
        BY <3>2, AtRest DEF Live
      <4>2. /\ Snd(pcb[e], Flow(first, e)) /\ Rcv(pcb[e], Flow(first, Other(e)))
            /\ FlowOK(Flow(first, e)) /\ FlowOK(Flow(first, Other(e))) /\ pcb[e] \in Block
        BY <4>1, LiveEnd
      <4> QED
        BY <4>2, Bounds
    <3> QED
      BY <3>1, <3>4, <3>5, <3>6, LowOrder
  <2>5. CASE x # e
    <3>1. pcb'[e] = pcb[e]
      BY <2>3, <2>5
    <3> QED
      BY <3>1 DEF LEQ
  <2> QED
    BY <2>4, <2>5
<1> QED
  BY <1>1, <1>2, NextActs

\* The variables of the abstract specification.
seen == <<written, closed, delivered, eof>>

\* A frame that arrives is a step of TcpStream: the reader gets the next bytes or the end, or nothing.
LEMMA ArriveStep ==
  ASSUME NEW first, NEW e \in Ends, Inv(first), Arrives(first, e), written' = written
  PROVE  [Stream!Next]_seen
<1> DEFINE f == Other(e)
           d == Flow(first, f)
           r == Flow(first, e)
           h == e \in eof
           have == Len(delivered[e])
<1>1. PICK v, b, t : /\ Outcome(pcb[e], v, d, r, b, t, h) /\ StepOf(e, v, t)
                     /\ closed' = IF v.p.state = "LAST_ACK" THEN closed \cup {e} ELSE closed
  BY DEF Arrives
<1>2. Other(f) = e /\ f = Stream!Other(e)
  BY EndsFacts DEF Other, Stream!Other
<1>3. Heard(v, d, h) /\ v \in WorkSet
  BY <1>1 DEF Outcome
<1>4. d.written = written[f] /\ d.closed = (f \in closed) /\ d.got = have + Bit(h)
  BY <1>2 DEF Flow
<1>5. delivered \in [Ends -> Seq(Nat)] /\ have \in Nat
  BY DEF Inv, Types
<1>6. v.data \in Seq(Nat) /\ v.fin \in BOOLEAN /\ Len(v.data) \in Nat /\ (v.data = <<>> <=> Len(v.data) = 0)
  BY <1>3 DEF WorkSet
<1>7. /\ delivered' = [delivered EXCEPT ![e] = @ \o v.data]
      /\ eof' = IF v.fin THEN eof \cup {e} ELSE eof
  BY <1>1 DEF StepOf
<1>8. CASE v.data = <<>> /\ ~v.fin
  <2>1. delivered' = delivered
    <3>1. delivered[e] \o v.data = delivered[e]
      BY <1>5, <1>8
    <3> QED
      BY <1>5, <1>7, <3>1
  <2>2. eof' = eof
    BY <1>7, <1>8
  <2>3. CASE v.p.state = "LAST_ACK"
    <3>1. closed' = closed \cup {e}
      BY <1>1, <2>3
    <3>2. Stream!Close(e)
      BY <2>1, <2>2, <3>1 DEF Stream!Close
    <3> QED
      BY <3>2 DEF Stream!Next
  <2>4. CASE v.p.state # "LAST_ACK"
    <3>1. closed' = closed
      BY <1>1, <2>4
    <3> QED
      BY <2>1, <2>2, <3>1 DEF seen
  <2> QED
    BY <2>3, <2>4
<1>9. CASE v.data # <<>> \/ v.fin
  <2> DEFINE n == Len(v.data)
             end == v.fin
             closes == v.p.state = "LAST_ACK"
             more == [i \in 1 .. n |-> have + i]
  <2>1. ~h /\ d.got = have /\ Counts(v.data, n, have)
    <3>1. ~h
      BY <1>3, <1>9 DEF Heard
    <3>2. d.got = have
      BY <1>4, <1>5, <3>1 DEF Bit
    <3> QED
      BY <1>3, <3>1, <3>2 DEF Heard
  <2>2. have + n <= written[f] /\ (v.fin => f \in closed /\ have + n = written[f])
    BY <1>3, <1>4, <1>9, <2>1 DEF Heard
  <2>3. v.data = more
    <3>1. v.data = [i \in 1 .. n |-> v.data[i]]
      BY <1>6
    <3>2. \A i \in 1 .. n : v.data[i] = have + i
      BY <2>1 DEF Counts
    <3> QED
      BY <3>1, <3>2
  <2>4. delivered' = [delivered EXCEPT ![e] = @ \o more]
    BY <1>7, <2>3
  <2>5. Len(delivered'[e]) - Len(delivered[e]) = n
    <3>1. delivered'[e] = delivered[e] \o v.data
      BY <1>5, <1>7
    <3>2. Len(delivered'[e]) = have + n
      BY <1>5, <1>6, <3>1
    <3> DEFINE k == Len(delivered'[e])
    <3>3. k = have + n /\ n \in Nat
      BY <1>6, <3>2
    <3> HIDE DEF k, n, have
    <3>4. k - have = n
      BY <1>5, <3>3
    <3> QED
      BY <3>4 DEF k, have
  <2>6. ~end => closed' = closed
    <3> SUFFICES ASSUME ~v.fin PROVE v.p.state # "LAST_ACK"
      BY <1>1
    <3>1. CASE v.p = Gone
      BY <3>1, GoneBlock
    <3>2. CASE Alive(pcb[e], v, d, r, b, t, h)
      <4>1. StateOK(v.p, t.closed, h \/ v.fin)
        BY <3>2 DEF Alive
      <4> QED
        BY <2>1, <4>1 DEF StateOK, Phase
    <3> QED
      BY <1>1, <3>1, <3>2 DEF Outcome
  <2>7. Stream!Arrive(e, n, end, closes)
    <3>1. e \notin eof /\ have + n <= written[Stream!Other(e)]
      BY <1>2, <2>1, <2>2
    <3>2. \/ ~end /\ UNCHANGED <<closed, eof>>
          \/ /\ end /\ Stream!Other(e) \in closed /\ have + n = written[Stream!Other(e)]
             /\ eof' = eof \cup {e}
             /\ closed' = IF closes THEN closed \cup {e} ELSE closed
      BY <1>1, <1>2, <1>6, <1>7, <2>2, <2>6
    <3> HIDE DEF f, n, end, closes
    <3> QED
      BY <2>4, <3>1, <3>2 DEF Stream!Arrive
  <2>8. n \in 0 .. (Len(delivered'[e]) - Len(delivered[e])) /\ end \in BOOLEAN /\ closes \in BOOLEAN
    <3>1. n \in 0 .. n
      BY <1>6
    <3>2. end \in BOOLEAN
      BY <1>6
    <3>3. closes \in BOOLEAN
      OBVIOUS
    <3> HIDE DEF n, end, closes
    <3> QED
      BY <2>5, <3>1, <3>2, <3>3
  <2> HIDE DEF n, end, closes
  <2>9. Stream!Next
    BY <2>7, <2>8 DEF Stream!Next
  <2> QED
    BY <2>9
<1> QED
  BY <1>6, <1>8, <1>9

\* Every step is a step of TcpStream or leaves what the programs see alone.
LEMMA StreamStep ==
  ASSUME ShortStreams, NEW first, Inv(first), [Next]_vars
  PROVE  [Stream!Next]_seen
<1>1. CASE UNCHANGED vars
  BY <1>1 DEF vars, seen
<1>2. ASSUME NEW e \in Ends, NEW n \in Sizes, Transmit(e, n)
      PROVE  [Stream!Next]_seen
  <2>1. /\ pcb[e].state \in {"ESTABLISHED", "CLOSE_WAIT"}
        /\ written' = [written EXCEPT ![e] = @ + n] /\ UNCHANGED <<closed, delivered, eof>>
    BY <1>2 DEF Transmit
  <2>2. n \in Nat /\ n >= 1 /\ written \in [Ends -> Nat]
    BY SizesAssumption DEF Inv, Types
  <2>3. e \notin closed
    <3>1. Live(e)
      BY <2>1 DEF Live
    <3>2. StateOK(pcb[e], e \in closed, e \in eof)
      BY <3>1, LiveEnd
    <3> QED
      BY <2>1, <3>2 DEF StateOK, Phase
  <2>4. Stream!Write(e, n)
    BY <2>1, <2>3 DEF Stream!Write
  <2>5. n \in 1 .. (written'[e] - written[e])
    <3>1. written'[e] = written[e] + n /\ written[e] \in Nat
      BY <2>1, <2>2
    <3> QED
      BY <2>2, <3>1
  <2> QED
    BY <2>4, <2>5 DEF Stream!Next
<1>3. ASSUME NEW e \in Ends, Rto(e) \/ GiveUp(e) \/ DropOoseq(e)
      PROVE  [Stream!Next]_seen
  BY <1>3 DEF Rto, GiveUp, DropOoseq, seen
<1>4. ASSUME NEW e \in plan.closers, NEW memory \in BOOLEAN, Close(e, memory)
      PROVE  [Stream!Next]_seen
  <2>1. e \in Ends
    <3>1. plan \in Plans
      BY DEF Inv, Types
    <3> QED
      BY <3>1, SizesAssumption
  <2>2. UNCHANGED <<written, delivered, eof>> /\ (closed' = closed \cup {e} \/ closed' = closed)
    BY <1>4 DEF Close
  <2>3. CASE closed' = closed \cup {e}
    <3>1. Stream!Close(e)
      BY <2>2, <2>3 DEF Stream!Close
    <3> QED
      BY <2>1, <3>1 DEF Stream!Next
  <2>4. CASE closed' = closed
    BY <2>2, <2>4 DEF seen
  <2> QED
    BY <2>2, <2>3, <2>4
<1>5. ASSUME NEW m \in net, NEW memory \in BOOLEAN, NEW duplicate \in BOOLEAN, Deliver(m, memory, duplicate)
      PROVE  [Stream!Next]_seen
  <2>1. m.to \in Ends
    BY DEF Inv, Types
  <2>2. Arrives(first, m.to) /\ written' = written
    BY <1>5, DeliverStep
  <2> QED
    BY <2>1, <2>2, ArriveStep
<1> QED
  BY <1>1, <1>2, <1>3, <1>4, <1>5 DEF Next

-----------------------------------------------------------------------------

\* TypeOK holds in every state: no handler of tcp_in.c or tcp_out.c leaves a field outside its type.
THEOREM TypeCorrect == ShortStreams => (Spec => []TypeOK)
<1> SUFFICES ASSUME ShortStreams PROVE Spec => []TypeOK
  OBVIOUS
<1>1. Spec => []IInv
  BY InvKept
<1>2. IInv => TypeOK
  BY TypesHold
<1> QED
  BY <1>1, <1>2, PTL

\* QueuesOrdered holds in every state: unacked and unsent of a block are in order of sequence
\* number, without a gap, whatever tcp_write, tcp_output, tcp_receive and the time-outs do.
THEOREM QueuesCorrect == ShortStreams => (Spec => []QueuesOrdered)
<1> SUFFICES ASSUME ShortStreams PROVE Spec => []QueuesOrdered
  OBVIOUS
<1>1. Spec => []IInv
  BY InvKept
<1>2. IInv => QueuesOrdered
  BY QueuesHold
<1> QED
  BY <1>1, <1>2, PTL

\* NothingFreedEarly holds in every state: tcp_receive frees a segment of unacked or unsent only
\* when the other end has taken all of its bytes.
THEOREM NothingLost == ShortStreams => (Spec => []NothingFreedEarly)
<1> SUFFICES ASSUME ShortStreams PROVE Spec => []NothingFreedEarly
  OBVIOUS
<1>1. Spec => []IInv
  BY InvKept
<1>2. IInv => NothingFreedEarly
  BY FreedHold
<1> QED
  BY <1>1, <1>2, PTL

\* OoseqOrdered holds in every state: the insertion, the trimming and the release of segments in
\* tcp_receive keep ooseq in order, without overlap, ahead of rcv_nxt and as the peer wrote it.
THEOREM OoseqCorrect == ShortStreams => (Spec => []OoseqOrdered)
<1> SUFFICES ASSUME ShortStreams PROVE Spec => []OoseqOrdered
  OBVIOUS
<1>1. Spec => []IInv
  BY InvKept
<1>2. IInv => OoseqOrdered
  BY OoseqHold
<1> QED
  BY <1>1, <1>2, PTL

\* TimerRuns holds in every state: the retransmission timer runs when a segment is unacknowledged.
THEOREM TimerCorrect == ShortStreams => (Spec => []TimerRuns)
<1> SUFFICES ASSUME ShortStreams PROVE Spec => []TimerRuns
  OBVIOUS
<1>1. Spec => []IInv
  BY InvKept
<1>2. IInv => TimerRuns
  BY TimersHold
<1> QED
  BY <1>1, <1>2, PTL

\* WindowRespected holds in every state: tcp_output sends no data beyond the window the receiver
\* has, nor beyond the right edge announced by a receiver that has sent nothing, old copies
\* included; and the send window is never smaller than a segment.
THEOREM WindowCorrect == ShortStreams => (Spec => []WindowRespected)
<1> SUFFICES ASSUME ShortStreams PROVE Spec => []WindowRespected
  OBVIOUS
<1>1. Spec => []IInv
  BY InvKept
<1>2. IInv => WindowRespected
  BY WindowHold
<1> QED
  BY <1>1, <1>2, PTL

\* No step moves the announced right edge of a living block back (rcv_ann_right_edge).
THEOREM EdgeNeverBack == ShortStreams => (Spec => EdgeAdvances)
<1> SUFFICES ASSUME ShortStreams PROVE Spec => EdgeAdvances
  OBVIOUS
<1>1. Spec => []IInv
  BY InvKept
<1>2. IInv /\ [Next]_vars => [\A e \in Ends : Live(e)' => LEQ(pcb[e].edge, pcb'[e].edge)]_vars
  BY EdgeKept DEF IInv
<1> QED
  BY <1>1, <1>2, PTL DEF Spec, EdgeAdvances

\* lwIP's two ends and a network that loses, copies and reorders frames implement TcpStream: each
\* program is passed the bytes the other one wrote, in order and once, and the end after the last.
THEOREM StreamImplemented == ShortStreams => (Spec => ImplementsStream)
<1> SUFFICES ASSUME ShortStreams PROVE Spec => ImplementsStream
  OBVIOUS
<1>1. Spec => []IInv
  BY InvKept
<1>2. Init => Stream!Init
  BY DEF Init, Stream!Init
<1>3. IInv /\ [Next]_vars => [Stream!Next]_seen
  BY StreamStep DEF IInv
<1> QED
  BY <1>1, <1>2, <1>3, PTL DEF Spec, ImplementsStream, Stream!Spec, seen

=============================================================================
