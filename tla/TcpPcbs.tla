------------------------------ MODULE TcpPcbs ------------------------------
(***************************************************************************)
(* The protocol control blocks of core/tcp.c and core/tcp_in.c: the pool   *)
(* they come from, the four linked lists they move between, the TCP state  *)
(* machine that moves them, the slow timer that expires them, and the      *)
(* contract of the raw API about who may still use a block.                *)
(*                                                                         *)
(* A list is a head and the single next field every block has, as in the   *)
(* code, so a block that is on two lists corrupts both.  Sequence numbers, *)
(* windows and data are left out: a segment is what its acceptance checks  *)
(* found (does it acknowledge everything sent, does it carry data, a FIN,  *)
(* does it announce a zero window).                                        *)
(* A local endpoint stands for a local address and port, a peer for a      *)
(* remote address and port.  Every function runs to its end: interrupts    *)
(* of the same priority do not preempt each other.                         *)
(***************************************************************************)
EXTENDS Naturals, FiniteSets

CONSTANTS Pcbs,             \* the blocks of the pool MEMP_TCP_PCB
          NULL,             \* the null pointer
          Locals,           \* local endpoints
          Peers,            \* remote endpoints
          MaxRtx,           \* TCP_MAXRTX
          SynMaxRtx,        \* TCP_SYNMAXRTX
          FinWaitTicks,     \* TCP_FIN_WAIT_TIMEOUT / TCP_SLOW_INTERVAL
          SynRcvdTicks,     \* TCP_SYN_RCVD_TIMEOUT / TCP_SLOW_INTERVAL
          TwoMslTicks,      \* 2 * TCP_MSL / TCP_SLOW_INTERVAL
          MaxAge,           \* bound: ages are told apart up to this one
          Usages            \* what the application may do (connect: ECU1, listen: ECU2, ...)
                            \* and whether peers close their window

ASSUME PoolAssumption == IsFiniteSet(Pcbs) /\ NULL \notin Pcbs /\ NULL \notin Peers \cup Locals
ASSUME TimerAssumption ==
    /\ {MaxRtx, SynMaxRtx, FinWaitTicks, SynRcvdTicks, TwoMslTicks, MaxAge} \subseteq Nat
    /\ \A limit \in {FinWaitTicks, SynRcvdTicks, TwoMslTicks} : limit < MaxAge
ASSUME UsageAssumption ==
    Usages \subseteq SUBSET {"connect", "reconnect", "listen", "abort bound", "zero window"}

VARIABLES usage,   \* the program of this behaviour
          tcp,     \* the blocks, the lists and the pool
          owned    \* the blocks the application may still use by the API's contract

vars == <<usage, tcp, owned>>

Closing == {"FIN_WAIT_1", "FIN_WAIT_2", "CLOSING", "LAST_ACK"}
Active == {"SYN_SENT", "SYN_RCVD", "ESTABLISHED", "CLOSE_WAIT"} \cup Closing
States == Active \cup {"CLOSED", "LISTEN", "TIME_WAIT"}
Lists == {"bound", "listen", "active", "tw"}

Pcb == [state : States,
        local : Locals \cup {NULL},
        remote : Peers \cup {NULL},
        rxclosed : BOOLEAN,          \* TF_RXCLOSED: tcp_close was called
        nrtx : 0..MaxRtx,            \* retransmissions in a row
        persist : BOOLEAN,           \* persist_backoff > 0: the peer's window is zero
        age : 0..MaxAge,             \* tcp_ticks - pcb->tmr
        since : 0..MaxAge]           \* auxiliary: ticks really spent in SYN_RCVD or TIME_WAIT

Pointer == Pcbs \cup {NULL}

\* What an arriving segment without SYN and RST does, once it is acceptable.
Segment == [ack : BOOLEAN, data : BOOLEAN, fin : BOOLEAN,
            zero : IF "zero window" \in usage THEN BOOLEAN ELSE {FALSE}]

Fresh == [state |-> "CLOSED", local |-> NULL, remote |-> NULL, rxclosed |-> FALSE,
          nrtx |-> 0, persist |-> FALSE, age |-> 0, since |-> 0]

-----------------------------------------------------------------------------
(* The lists *)

\* The blocks a walk along the next fields meets when it starts at r: those in
\* every set that holds r and with each block its successor.
Reach(t, r) ==
    {p \in Pcbs : \A S \in SUBSET Pcbs :
        (r \in S \cup {NULL} /\ \A q \in S : t.next[q] \in S \cup {NULL}) => p \in S}

Chain(t, l) == Reach(t, t.head[l])

OnSomeList(t) == UNION {Chain(t, l) : l \in Lists}

\* Mutation: TCP_REG forgets the rest of the list.
RegDropsTail(t, l, p) == [t EXCEPT !.next[p] = NULL, !.head[l] = p]

Reg(t, l, p) == [t EXCEPT !.next[p] = t.head[l], !.head[l] = p]

\* The walk stops at the first predecessor; an acyclic list has only one.
Rmv(t, l, p) ==
    LET before == IF t.head[l] = p THEN {} ELSE {q \in Chain(t, l) : t.next[q] = p}
    IN  [t EXCEPT !.head[l] = IF @ = p THEN t.next[p] ELSE @,
                  !.next = [q \in Pcbs |-> IF q = p THEN NULL
                                           ELSE IF q \in before THEN t.next[p] ELSE @[q]]]

\* Mutation: the block is moved even when it has no predecessor.
MoveToFrontAlways(t, l, p) ==
    [t EXCEPT !.head[l] = p,
              !.next = [q \in Pcbs |-> CASE q = p -> t.head[l]
                                         [] q # p /\ q \in Chain(t, l) /\ @[q] = p -> t.next[p]
                                         [] OTHER -> @[q]]]

\* tcp_input moves the block it found to the front of its list.
MoveToFront(t, l, p) ==
    IF t.head[l] = p THEN t
    ELSE [t EXCEPT !.head[l] = p,
                   !.next = [q \in Pcbs |-> CASE q = p -> t.head[l]
                                              [] q # p /\ q \in Chain(t, l) /\ @[q] = p -> t.next[p]
                                              [] OTHER -> @[q]]]

\* The first block at or after r (in list order) that stays when those in R go.
FirstKept(t, r, R) ==
    LET kept == Reach(t, r) \ R
    IN  IF kept = {} THEN NULL ELSE CHOOSE p \in kept : kept \subseteq Reach(t, p)

\* What the slow timer does with prev and next while it takes the blocks in R off l.
Unlink(t, l, R) ==
    [t EXCEPT !.head[l] = FirstKept(t, @, R),
              !.next = [q \in Pcbs |-> IF q \in Chain(t, l) /\ q \notin R
                                       THEN FirstKept(t, @[q], R) ELSE @[q]]]

\* Mutation: memp_free is not called.
ReleaseForgets(t, R) == t

\* memp_free.  What a freed block still says about its state and addresses is kept,
\* because stale pointers lead to it; its counters are not.
Release(t, R) ==
    [t EXCEPT !.pool = @ \cup R,
              !.pcb = [p \in Pcbs |-> IF p \in R
                         THEN [Fresh EXCEPT !.state = t.pcb[p].state, !.local = t.pcb[p].local,
                                            !.remote = t.pcb[p].remote]
                         ELSE @[p]]]

\* tcp_pcb_remove: off the list and CLOSED, but not yet given back.
Remove(t, l, p) == [Rmv(t, l, p) EXCEPT !.pcb[p].state = "CLOSED"]

-----------------------------------------------------------------------------
(* Allocation *)

Oldest(t, S) == {p \in S : \A q \in S : t.pcb[q].age <= t.pcb[p].age}

\* tcp_abandon; the block's error callback runs unless it was in TIME_WAIT.
Abandon(t, p) ==
    Release(Remove(t, IF t.pcb[p].state = "TIME_WAIT" THEN "tw" ELSE "active", p), {p})

\* Mutation: the error callback is not called.
TellsNobody(t, p) == FALSE

TellsApplication(t, p) == t.pcb[p].state # "TIME_WAIT"

\* The blocks tcp_alloc may abort to make room: none while the pool has one.
Victims(t) == IF t.pool # {} THEN {}
              ELSE IF Chain(t, "tw") # {} THEN Oldest(t, Chain(t, "tw"))
              ELSE Oldest(t, Chain(t, "active"))

Allocated(t, p) == [t EXCEPT !.pool = @ \ {p}, !.pcb[p] = Fresh, !.next[p] = NULL]

\* tcp_new: from the pool, or the block of the connection it aborts.
TcpNew(p) ==
    \/ /\ p \in tcp.pool
       /\ tcp' = Allocated(tcp, p)
       /\ owned' = owned \cup {p}
    \/ /\ p \in Victims(tcp)
       /\ tcp' = Allocated(Abandon(tcp, p), p)
       /\ owned' = owned \cup {p}

\* Mutation: tcp_bind does not look at the TIME_WAIT list.
InUseExceptTimeWait(t, e) == \E q \in OnSomeList(t) \ Chain(t, "tw") : t.pcb[q].local = e

InUse(t, e) == \E q \in OnSomeList(t) : t.pcb[q].local = e

\* tcp_bind; with the endpoint in use it returns ERR_USE and changes nothing.
TcpBind(p, e) ==
    /\ tcp.pcb[p].state = "CLOSED" /\ tcp.pcb[p].local = NULL
    /\ ~InUse(tcp, e)
    /\ tcp' = Reg([tcp EXCEPT !.pcb[p].local = e], "bound", p)
    /\ UNCHANGED owned

\* tcp_connect of a bound block; without memory for the SYN it stays bound.
TcpConnect(p, r, enqueued) ==
    /\ tcp.pcb[p].state = "CLOSED" /\ tcp.pcb[p].local # NULL
    /\ LET t == [tcp EXCEPT !.pcb[p].remote = r, !.pcb[p].rxclosed = FALSE]
       IN  tcp' = IF enqueued
                  THEN Reg(Rmv([t EXCEPT !.pcb[p].state = "SYN_SENT"], "bound", p), "active", p)
                  ELSE t
    /\ UNCHANGED owned

\* tcp_listen as this stack changed it: called on a new block, which it neither
\* binds nor exchanges for a smaller one.
TcpListen(p, e) ==
    /\ tcp.pcb[p].state = "CLOSED" /\ tcp.pcb[p].local = NULL
    /\ tcp' = Reg([tcp EXCEPT !.pcb[p].state = "LISTEN", !.pcb[p].local = e], "listen", p)
    /\ UNCHANGED owned

-----------------------------------------------------------------------------
(* Closing *)

\* tcp_close: the state of the lists and blocks it leaves behind.  A listening block
\* is given to the pool MEMP_TCP_PCB_LISTEN, from which nothing is allocated.
Closed(t0, p, enqueued) ==
    LET s == t0.pcb[p].state
        t == IF s = "LISTEN" THEN t0 ELSE [t0 EXCEPT !.pcb[p].rxclosed = TRUE]
    IN  CASE s = "CLOSED" ->
               Release(IF t.pcb[p].local = NULL THEN t ELSE Rmv(t, "bound", p), {p})
          [] s = "LISTEN" -> Remove(t, "listen", p)
          [] s = "SYN_SENT" -> Release(Remove(t, "active", p), {p})
          [] s \in {"SYN_RCVD", "ESTABLISHED"} /\ enqueued ->
               [t EXCEPT !.pcb[p].state = "FIN_WAIT_1"]
          [] s = "CLOSE_WAIT" /\ enqueued -> [t EXCEPT !.pcb[p].state = "LAST_ACK"]
          [] OTHER -> t

\* Without memory for the FIN tcp_close returns an error and the block is kept.
CloseFails(t, p, enqueued) ==
    ~enqueued /\ t.pcb[p].state \in {"SYN_RCVD", "ESTABLISHED", "CLOSE_WAIT"}

TcpClose(p, enqueued) ==
    /\ tcp' = Closed(tcp, p, enqueued)
    /\ owned' = IF CloseFails(tcp, p, enqueued) THEN owned ELSE owned \ {p}

\* tcp_abort: tcp_abandon with a reset.
TcpAbort(p) ==
    /\ tcp' = Abandon(tcp, p)
    /\ owned' = owned \ {p}

-----------------------------------------------------------------------------
(* Input: tcp_input finds the block on the active list, then on the         *)
(* TIME_WAIT list, then on the listen list.                                 *)

Receives(p) == tcp.pcb[p].remote # NULL /\ p \in Chain(tcp, "active")

Touched(c) == IF c.rxclosed THEN c ELSE [c EXCEPT !.age = 0]

\* SYN_SENT: the expected SYN|ACK; conection_established follows.
SynAckIn(p) ==
    /\ Receives(p)
    /\ tcp.pcb[p].state = "SYN_SENT"
    /\ tcp' = [MoveToFront(tcp, "active", p) EXCEPT
                 !.pcb[p] = [Touched(@) EXCEPT !.state = "ESTABLISHED"]]
    /\ UNCHANGED owned

\* tcp_process for the other states.
NextState(s, seg) ==
    CASE s = "SYN_RCVD" /\ seg.ack -> IF seg.fin THEN "CLOSE_WAIT" ELSE "ESTABLISHED"
      [] s = "ESTABLISHED" /\ seg.fin -> "CLOSE_WAIT"
      [] s = "FIN_WAIT_1" /\ seg.fin -> IF seg.ack THEN "TIME_WAIT" ELSE "CLOSING"
      [] s = "FIN_WAIT_1" /\ ~seg.fin /\ seg.ack -> "FIN_WAIT_2"
      [] s = "FIN_WAIT_2" /\ seg.fin -> "TIME_WAIT"
      [] s = "CLOSING" /\ seg.ack -> "TIME_WAIT"
      [] OTHER -> s

\* tcp_receive looks at data and FIN only up to FIN_WAIT_2.
TakesData(s, seg) ==
    s \in {"ESTABLISHED", "FIN_WAIT_1", "FIN_WAIT_2"} \/ (s = "SYN_RCVD" /\ seg.ack)

Processed(t, p, seg) ==
    LET c == Touched(t.pcb[p])
        s == NextState(c.state, seg)
        u == [MoveToFront(t, "active", p) EXCEPT
                !.pcb[p] = [c EXCEPT !.state = s, !.nrtx = IF seg.ack THEN 0 ELSE @,
                                     !.persist = IF c.state = "SYN_RCVD" /\ ~seg.ack THEN @
                                                 ELSE seg.zero,
                                     !.since = IF s = c.state THEN @ ELSE 0]]
    IN  IF s = "TIME_WAIT" THEN Reg(Rmv(u, "active", p), "tw", p) ELSE u

\* The segment's effect on the connection, then what tcp_input does with it:
\* LAST_ACK acknowledged ends the connection, data after tcp_close aborts it, and
\* a FIN is passed to TCPReceive, which closes the block q of the socket.
SegIn(p, seg, q, enqueued) ==
    /\ Receives(p)
    /\ tcp.pcb[p].state # "SYN_SENT"
    /\ LET s == tcp.pcb[p].state
           t == Processed(tcp, p, seg)
           takes == TakesData(s, seg)
       IN  \/ /\ s = "LAST_ACK" /\ seg.ack
              /\ tcp' = Release(Remove(t, "active", p), {p})
              /\ owned' = IF t.pcb[p].rxclosed THEN owned ELSE owned \ {p}
           \/ /\ takes /\ seg.data /\ t.pcb[p].rxclosed
              /\ tcp' = Abandon(t, p)
              /\ owned' = IF TellsApplication(t, p) THEN owned \ {p} ELSE owned
           \/ /\ takes /\ seg.fin /\ ~(seg.data /\ t.pcb[p].rxclosed)
              /\ tcp' = IF q = NULL THEN t ELSE Closed(t, q, enqueued)
              /\ owned' = IF q = NULL \/ CloseFails(t, q, enqueued) THEN owned ELSE owned \ {q}
           \/ /\ ~(s = "LAST_ACK" /\ seg.ack)
              /\ ~(takes /\ (seg.fin \/ (seg.data /\ t.pcb[p].rxclosed)))
              /\ tcp' = t
              /\ UNCHANGED owned

\* An acceptable RST: the error callback, then the block is given back.
RstIn(p) ==
    /\ Receives(p)
    /\ tcp' = Release(Remove(MoveToFront(tcp, "active", p), "active", p), {p})
    /\ owned' = owned \ {p}

\* A repeated FIN restarts the TIME_WAIT time.
TimewaitIn(p) ==
    /\ p \in Chain(tcp, "tw")
    /\ tcp' = [tcp EXCEPT !.pcb[p].age = 0, !.pcb[p].since = 0]
    /\ UNCHANGED owned

NoConnection(e, r) ==
    ~\E p \in Chain(tcp, "active") \cup Chain(tcp, "tw") :
        tcp.pcb[p].local = e /\ tcp.pcb[p].remote = r

\* A segment that is refused (RST or SYN outside the window, an ACK in SYN_SENT or for
\* a listening block) still brings the block it was for to the front of its list, and
\* one without RST counts as activity of the connection.
RefusedIn(p, r, rst) ==
    /\ \/ /\ Receives(p)
          /\ tcp' = [MoveToFront(tcp, "active", p) EXCEPT !.pcb[p] = IF rst THEN @ ELSE Touched(@)]
       \/ /\ p \in Chain(tcp, "listen") /\ NoConnection(tcp.pcb[p].local, r)
          /\ tcp' = MoveToFront(tcp, "listen", p)
    /\ UNCHANGED owned

\* tcp_listen_input: the listening block itself becomes the connection.
SynIn(l, r, enqueued) ==
    /\ l \in Chain(tcp, "listen") /\ tcp.pcb[l].local # NULL
    /\ NoConnection(tcp.pcb[l].local, r)
    /\ LET t == Reg([MoveToFront(tcp, "listen", l) EXCEPT
                       !.pcb[l].state = "SYN_RCVD", !.pcb[l].remote = r,
                       !.pcb[l].since = 0], "active", l)
       IN  IF enqueued
           THEN tcp' = t /\ UNCHANGED owned
           ELSE tcp' = Abandon(t, l) /\ owned' = owned \ {l}

-----------------------------------------------------------------------------
(* tcp_slowtmr.  rto is the set of the blocks whose retransmission timer     *)
(* expires at this tick.                                                     *)

Next1(n) == IF n < MaxAge THEN n + 1 ELSE n

Waiting(s) == s \in Active \ {"FIN_WAIT_2"}

\* Mutation: the retransmission limits are not checked.
NeverGivenUp(c) == FALSE

GivenUp(c) == (c.state = "SYN_SENT" /\ c.nrtx = SynMaxRtx) \/ c.nrtx = MaxRtx

\* Mutation: FIN_WAIT_2 has no time-out.
TimedOutNotFinWait2(c) ==
    \/ c.state = "SYN_RCVD" /\ c.age > SynRcvdTicks
    \/ c.state = "LAST_ACK" /\ c.age > TwoMslTicks

\* c is the block after its age was advanced.
TimedOut(c) ==
    \/ c.state = "FIN_WAIT_2" /\ c.rxclosed /\ c.age > FinWaitTicks
    \/ c.state = "SYN_RCVD" /\ c.age > SynRcvdTicks
    \/ c.state = "LAST_ACK" /\ c.age > TwoMslTicks

TwExpired(c) == c.age > TwoMslTicks

Ticked(t, rto) ==
    [t EXCEPT !.pcb = [p \in Pcbs |->
        LET c == [t.pcb[p] EXCEPT !.age = Next1(@),
                                  !.since = IF t.pcb[p].state \in {"SYN_RCVD", "TIME_WAIT"}
                                            THEN Next1(@) ELSE 0]
        IN  IF p \in t.pool THEN t.pcb[p]
            ELSE IF p \in rto \cap Chain(t, "active") /\ Waiting(c.state) /\ ~GivenUp(c) /\ ~c.persist
            THEN [c EXCEPT !.nrtx = @ + 1]
            ELSE c]]

Expired(t, u) ==
    {p \in Chain(t, "active") : GivenUp(t.pcb[p]) \/ TimedOut(u.pcb[p])}

ExpiredTw(t, u) == {p \in Chain(t, "tw") : TwExpired(u.pcb[p])}

SlowTmr(rto) ==
    LET u == Ticked(tcp, rto)
        gone == Expired(tcp, u)
        goneTw == ExpiredTw(tcp, u)
    IN  /\ tcp' = Release(Unlink(Unlink(u, "active", gone), "tw", goneTw), gone \cup goneTw)
        /\ owned' = owned \ gone

-----------------------------------------------------------------------------
Init ==
    /\ usage \in Usages
    /\ tcp = [pcb |-> [p \in Pcbs |-> Fresh],
              next |-> [p \in Pcbs |-> NULL],
              head |-> [l \in Lists |-> NULL],
              pool |-> Pcbs]
    /\ owned = {}

\* The calls of an application that keeps the contract of the raw API.
Call ==
    \/ \E p \in Pcbs : TcpNew(p)
    \/ "connect" \in usage /\ \E p \in owned, e \in Locals : TcpBind(p, e)
    \/ "connect" \in usage /\ \E p \in owned, r \in Peers, ok \in BOOLEAN : TcpConnect(p, r, ok)
    \/ /\ "listen" \in usage /\ tcp.head["listen"] = NULL     \* main() opens one listening socket
       /\ \E p \in owned, e \in Locals : TcpListen(p, e)
    \/ \E p \in owned, ok \in BOOLEAN : TcpClose(p, ok)
    \/ \E p \in owned : /\ tcp.pcb[p].state \in Active \/ "abort bound" \in usage
                        /\ tcp.pcb[p].state # "LISTEN"
                        /\ TcpAbort(p)

Input ==
    \/ \E p \in Pcbs : SynAckIn(p) \/ RstIn(p) \/ TimewaitIn(p)
    \/ \E p \in Pcbs, r \in Peers, rst \in BOOLEAN : RefusedIn(p, r, rst)
    \/ \E p \in Pcbs, seg \in Segment : \E ok \in (IF seg.fin THEN BOOLEAN ELSE {TRUE}) :
          SegIn(p, seg, p, ok)
    \/ \E l \in Pcbs, r \in Peers, ok \in BOOLEAN : SynIn(l, r, ok)

Tick == \E rto \in SUBSET Chain(tcp, "active") : SlowTmr(rto)

Next == (Call \/ Input \/ Tick) /\ UNCHANGED usage

Spec == Init /\ [][Next]_vars

\* The timer interrupt keeps calling tcp_slowtmr, and a segment that is not
\* acknowledged is retransmitted again after a bounded number of ticks.
Fairness == \A p \in Pcbs :
    WF_vars(\E rto \in SUBSET Chain(tcp, "active") :
              (p \in rto \/ p \notin Chain(tcp, "active")) /\ SlowTmr(rto) /\ UNCHANGED usage)

FairSpec == Spec /\ Fairness

-----------------------------------------------------------------------------
(* Properties *)

\* Types: next and head point to blocks or to nothing, and no block is retransmitted
\* more than TCP_MAXRTX times, because tcp_slowtmr gives it up at the limit.
TypeOK ==
    /\ usage \in Usages
    /\ tcp \in [pcb : [Pcbs -> Pcb], next : [Pcbs -> Pointer],
               head : [Lists -> Pointer], pool : SUBSET Pcbs]
    /\ owned \in SUBSET Pcbs

\* tcp_impl.h: every block that is not CLOSED is on a list.
EveryPcbListed ==
    \A p \in Pcbs \ tcp.pool : tcp.pcb[p].state # "CLOSED" => p \in OnSomeList(tcp)

\* tcp_impl.h: "A PCB is only in one of the lists."
OneListEach ==
    \A l, m \in Lists : l # m => Chain(tcp, l) \cap Chain(tcp, m) = {}

\* tcp_impl.h on the listen and TIME_WAIT lists, and what tcp_slowtmr and tcp_close
\* assert of the active and the bound one: a block is on the list of its state.
ListStates ==
    /\ \A p \in Chain(tcp, "listen") : tcp.pcb[p].state = "LISTEN"
    /\ \A p \in Chain(tcp, "tw") : tcp.pcb[p].state = "TIME_WAIT"
    /\ \A p \in Chain(tcp, "active") : tcp.pcb[p].state \in Active
    /\ \A p \in Chain(tcp, "bound") : tcp.pcb[p].state = "CLOSED"

\* The axioms lwip/tcp_impl.h states about the lists; tcp_input, the timers and tcp_bind
\* rely on them while blocks are registered, reordered, expired and aborted.
ListAxioms == EveryPcbListed /\ OneListEach /\ ListStates

\* Every walk over a list ends: no list runs in a circle.  tcp_input and the timers
\* would never return from one that does.
ListsEnd ==
    \A l \in Lists : tcp.head[l] = NULL \/ \E p \in Chain(tcp, l) : tcp.next[p] = NULL

\* No block of the pool is on a list: what tcp_close, tcp_abandon, tcp_input and
\* tcp_slowtmr give to memp_free they have taken off the list it was on.
FreeNotListed == tcp.pool \cap OnSomeList(tcp) = {}

\* A block the application has not closed is given back only after its error callback
\* was called, so the application can know that its pointer is dead.
NoSilentFree == owned \cap tcp.pool = {}

\* No block is lost: each one is in the pool, on a list, or known to the application.
NoLeak == tcp.pool \cup OnSomeList(tcp) \cup owned = Pcbs

\* The pool and the lists share the blocks without overlap and without loss.
PoolAccounts == FreeNotListed /\ NoLeak

\* No two connections share a local endpoint, TIME_WAIT included, so tcp_input finds
\* at most one block for a segment.
UniqueEndpoints ==
    \A p, q \in OnSomeList(tcp) : tcp.pcb[p].local = tcp.pcb[q].local => p = q

\* A closed connection does not stay half closed for ever, even if the peer falls silent:
\* it reaches TIME_WAIT or its block returns to the pool.
ClosedEnds ==
    \A p \in Pcbs : tcp.pcb[p].state \in Closing ~> tcp.pcb[p].state \notin Closing \/ p \in tcp.pool

\* tcp_slowtmr takes a block out of TIME_WAIT only when it has been there for 2 MSL.
TimeWaitLasts ==
    [][\A p \in Chain(tcp, "tw") :
         p \in tcp'.pool => tcp.pcb[p].since >= TwoMslTicks]_vars

\* tcp_slowtmr removes a half-open connection only when it has been in SYN_RCVD for the
\* SYN_RCVD time-out, or was retransmitted too often.
SynRcvdLasts ==
    [][\A p \in Chain(tcp, "active"), rto \in SUBSET Chain(tcp, "active") :
         /\ tcp.pcb[p].state = "SYN_RCVD" /\ ~GivenUp(tcp.pcb[p])
         /\ SlowTmr(rto) /\ p \in tcp'.pool
         => tcp.pcb[p].since >= SynRcvdTicks]_vars
=============================================================================
