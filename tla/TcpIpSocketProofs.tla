------------------------ MODULE TcpIpSocketProofs ------------------------
(***************************************************************************)
(* What a program that opens one connection may rely on, for any number of *)
(* blocks, sockets and values error_event may read: its socket knows that  *)
(* the connection is established.                                          *)
(*                                                                         *)
(* Nothing is needed of the lists but that no block listens: whatever is   *)
(* done to a block other than the end of the handshake leaves its state as *)
(* it was or makes it one the connection is not established in, even when  *)
(* it is done through a pointer that outlived the block.                   *)
(***************************************************************************)
EXTENDS TcpIpSocket, TcpPcbsProofs

\* main() of ECU1: one call of TcpIp_TcpConnect, none of TcpIp_TcpListen.
ConnectsOnce == usage \cap {"listen", "reconnect"} = {}

Passive == {"SYN_RCVD", "LISTEN"}

\* Each block keeps its state or gets one of neither a handshake nor a connection.
Mild(t, u) ==
  /\ u \in Tcp
  /\ u.head["listen"] = t.head["listen"]
  /\ \A p \in Pcbs : \/ u.pcb[p].state = t.pcb[p].state
                     \/ u.pcb[p].state \notin Passive \cup {"ESTABLISHED"}

\* No block has listened.
NoPassive(t) ==
  /\ t \in Tcp /\ t.head["listen"] = NULL
  /\ \A p \in Pcbs : t.pcb[p].state \notin Passive

LEMMA MildTwice ==
  ASSUME NEW t, NEW u, NEW v, Mild(t, u), Mild(u, v)
  PROVE  Mild(t, v)
BY DEF Mild

LEMMA MildStays ==
  ASSUME NEW t, NEW u, NoPassive(t), Mild(t, u)
  PROVE  NoPassive(u)
BY DEF Mild, NoPassive, Passive

-----------------------------------------------------------------------------
(* The operators on the blocks and lists                                   *)

LEMMA MildPcb ==
  ASSUME NEW t \in Tcp, NEW p \in Pcbs, NEW c \in Pcb,
         c.state = t.pcb[p].state \/ c.state \notin Passive \cup {"ESTABLISHED"}
  PROVE  Mild(t, [t EXCEPT !.pcb[p] = c])
<1> DEFINE u == [t EXCEPT !.pcb[p] = c]
<1>1. u \in Tcp /\ u.head = t.head /\ u.pcb[p] = c /\ \A q \in Pcbs \ {p} : u.pcb[q] = t.pcb[q]
  BY PcbFields
<1>2. ASSUME NEW q \in Pcbs
      PROVE  u.pcb[q].state = t.pcb[q].state \/ u.pcb[q].state \notin Passive \cup {"ESTABLISHED"}
  <2> HIDE DEF u
  <2> QED
    BY <1>1
<1> QED
  BY <1>1, <1>2 DEF Mild

\* Registering, removing and reordering on a list other than that of listeners.
LEMMA MildLists ==
  ASSUME NEW t \in Tcp, NEW l \in Lists \ {"listen"}, NEW p \in Pcbs
  PROVE  Mild(t, Reg(t, l, p)) /\ Mild(t, Rmv(t, l, p)) /\ Mild(t, MoveToFront(t, l, p))
<1>0. "listen" \in Lists /\ l \in Lists
  BY DEF Lists
<1>1. ASSUME NEW u \in Tcp
      PROVE  Mild(u, Reg(u, l, p))
  <2>1. Reg(u, l, p) \in Tcp /\ Reg(u, l, p).pcb = u.pcb
    BY <1>0, RegKeeps
  <2>2. Reg(u, l, p).head["listen"] = u.head["listen"]
    BY <1>0 DEF Reg, Tcp
  <2> QED
    BY <2>1, <2>2 DEF Mild
<1>2. Mild(t, Rmv(t, l, p))
  <2>1. /\ Rmv(t, l, p) \in Tcp /\ Rmv(t, l, p).pcb = t.pcb
        /\ Rmv(t, l, p).head = [t.head EXCEPT ![l] = HeadWithout(t.next, t.head[l], p)]
    BY <1>0, RmvFields
  <2>2. Rmv(t, l, p).head["listen"] = t.head["listen"]
    BY <1>0, <2>1 DEF Tcp
  <2> QED
    BY <2>1, <2>2 DEF Mild
<1>3. Mild(t, MoveToFront(t, l, p))
  <2>1. Rmv(t, l, p) \in Tcp
    BY RmvKeeps
  <2>2. Mild(t, Reg(Rmv(t, l, p), l, p))
    BY <1>1, <1>2, <2>1, MildTwice
  <2>3. Mild(t, t)
    BY DEF Mild
  <2> QED
    BY <2>2, <2>3, MoveToFrontIs
<1> QED
  BY <1>1, <1>2, <1>3

LEMMA MildRelease ==
  ASSUME NEW t \in Tcp, NEW R \in SUBSET Pcbs
  PROVE  Mild(t, Release(t, R))
<1>1. Release(t, R) \in Tcp /\ Release(t, R).head = t.head
  BY ReleaseFields
<1>2. ASSUME NEW q \in Pcbs
      PROVE  Release(t, R).pcb[q].state = t.pcb[q].state
  BY DEF Release, Tcp, Fresh
<1> QED
  BY <1>1, <1>2 DEF Mild

LEMMA MildRemove ==
  ASSUME NEW t \in Tcp, NEW l \in Lists \ {"listen"}, NEW p \in Pcbs
  PROVE  Mild(t, Remove(t, l, p))
<1> DEFINE v == Rmv(t, l, p)
           c == [t.pcb[p] EXCEPT !.state = "CLOSED"]
<1>1. Remove(t, l, p) = [v EXCEPT !.pcb[p] = c] /\ c \in Pcb
  BY RemoveIs
<1>2. Mild(t, v) /\ v \in Tcp
  BY MildLists, RmvKeeps
<1>3. c.state \notin Passive \cup {"ESTABLISHED"}
  BY <1>1 DEF Passive, Tcp, Pcb
<1> HIDE DEF v, c
<1>4. Mild(v, [v EXCEPT !.pcb[p] = c])
  BY <1>1, <1>2, <1>3, MildPcb
<1> QED
  BY <1>1, <1>2, <1>4, MildTwice

LEMMA MildRemoved ==
  ASSUME NEW t \in Tcp, NEW l \in Lists \ {"listen"}, NEW p \in Pcbs
  PROVE  Mild(t, Release(Remove(t, l, p), {p})) /\ Mild(t, Release(Rmv(t, l, p), {p}))
<1>1. {p} \in SUBSET Pcbs /\ Remove(t, l, p) \in Tcp /\ Rmv(t, l, p) \in Tcp
  BY RemoveType, RmvKeeps
<1>2. Mild(Remove(t, l, p), Release(Remove(t, l, p), {p}))
  BY <1>1, MildRelease
<1>3. Mild(Rmv(t, l, p), Release(Rmv(t, l, p), {p}))
  BY <1>1, MildRelease
<1> QED
  BY <1>2, <1>3, MildRemove, MildLists, MildTwice

LEMMA MildAbandon ==
  ASSUME NEW t \in Tcp, NEW p \in Pcbs
  PROVE  Mild(t, Abandon(t, p))
<1>1. "tw" \in Lists \ {"listen"} /\ "active" \in Lists \ {"listen"}
  BY DEF Lists
<1> QED
  BY <1>1, MildRemoved DEF Abandon

LEMMA MildAllocated ==
  ASSUME NEW t \in Tcp, NEW p \in Pcbs
  PROVE  Mild(t, Allocated(t, p)) /\ Allocated(t, p).pcb[p].state = "CLOSED"
<1>1. /\ Allocated(t, p) \in Tcp /\ Allocated(t, p).head = t.head
      /\ Allocated(t, p).pcb = [t.pcb EXCEPT ![p] = Fresh]
  BY AllocatedType
<1>2. \A q \in Pcbs : Allocated(t, p).pcb[q] = IF q = p THEN Fresh ELSE t.pcb[q]
  BY <1>1 DEF Tcp
<1>3. Fresh.state = "CLOSED"
  BY DEF Fresh
<1> QED
  BY <1>1, <1>2, <1>3 DEF Mild, Passive

\* tcp_close of a block that does not listen.
LEMMA MildClosed ==
  ASSUME NEW t0 \in Tcp, NEW p \in Pcbs, NEW ok \in BOOLEAN, t0.pcb[p].state # "LISTEN"
  PROVE  Mild(t0, Closed(t0, p, ok))
<1> DEFINE s == t0.pcb[p].state
           c == [t0.pcb[p] EXCEPT !.rxclosed = TRUE]
           t == [t0 EXCEPT !.pcb[p] = c]
<1>1. c \in Pcb /\ c.state = s
  BY DEF Tcp, Pcb
<1>2. [t0 EXCEPT !.pcb[p].rxclosed = TRUE] = t
  BY DEF Tcp
<1>3. Mild(t0, t) /\ t \in Tcp
  BY <1>1, MildPcb, PcbFields
<1>4. Closed(t0, p, ok) =
        CASE s = "CLOSED" -> Release(IF t.pcb[p].local = NULL THEN t ELSE Rmv(t, "bound", p), {p})
          [] s = "SYN_SENT" -> Release(Remove(t, "active", p), {p})
          [] s \in {"SYN_RCVD", "ESTABLISHED"} /\ ok -> [t EXCEPT !.pcb[p].state = "FIN_WAIT_1"]
          [] s = "CLOSE_WAIT" /\ ok -> [t EXCEPT !.pcb[p].state = "LAST_ACK"]
          [] OTHER -> t
  BY <1>2 DEF Closed
<1> HIDE DEF t
<1>5. {p} \in SUBSET Pcbs /\ "bound" \in Lists \ {"listen"} /\ "active" \in Lists \ {"listen"}
  BY DEF Lists
<1>6. /\ Mild(t, Release(t, {p})) /\ Mild(t, Release(Rmv(t, "bound", p), {p}))
      /\ Mild(t, Release(Remove(t, "active", p), {p})) /\ Mild(t, t)
  <2>1. Mild(t, Release(t, {p}))
    BY <1>3, <1>5, MildRelease
  <2>2. Mild(t, t)
    BY <1>3 DEF Mild
  <2> QED
    BY <1>3, <1>5, <2>1, <2>2, MildRemoved
<1>7. ASSUME NEW z \in {"FIN_WAIT_1", "LAST_ACK"}
      PROVE  Mild(t, [t EXCEPT !.pcb[p].state = z])
  <2>1. t.pcb[p] \in Pcb /\ z \in States /\ z \notin Passive \cup {"ESTABLISHED"}
    BY <1>3 DEF Tcp, States, Active, Closing, Passive
  <2>2. [t.pcb[p] EXCEPT !.state = z] \in Pcb /\ [t.pcb[p] EXCEPT !.state = z].state = z
    BY <2>1, StateType
  <2>3. [t EXCEPT !.pcb[p].state = z] = [t EXCEPT !.pcb[p] = [t.pcb[p] EXCEPT !.state = z]]
    BY <1>3 DEF Tcp
  <2> QED
    BY <1>3, <2>1, <2>2, <2>3, MildPcb
<1> HIDE DEF s
<1>8. Mild(t, Closed(t0, p, ok))
  BY <1>4, <1>6, <1>7
<1> QED
  BY <1>3, <1>8, MildTwice

\* A segment of a connection makes none established that was not.
LEMMA MildProcessed ==
  ASSUME NEW t, NoPassive(t), NEW p \in Pcbs, NEW seg \in Segment
  PROVE  Mild(t, Processed(t, p, seg))
<1> DEFINE m == MoveToFront(t, "active", p)
           c == NewPcb(t.pcb[p], seg)
           u == [m EXCEPT !.pcb[p] = c]
           r == Rmv(u, "active", p)
<1>0. /\ t \in Tcp /\ t.pcb[p] \in Pcb /\ t.pcb[p].state \notin Passive
      /\ "active" \in Lists \ {"listen"} /\ "tw" \in Lists \ {"listen"}
  BY DEF NoPassive, Tcp, Lists
<1>1. c \in Pcb /\ c.state = NextState(t.pcb[p].state, seg)
  BY <1>0, SegmentType, NewPcbType
<1>2. NextState(t.pcb[p].state, seg) \in {t.pcb[p].state} \cup (States \ (Passive \cup {"ESTABLISHED"}))
  BY <1>0 DEF NextState, Passive, States, Active, Closing, Pcb
<1>3. Mild(t, m) /\ m \in Tcp /\ m.pcb = t.pcb
  BY <1>0, MildLists, MoveToFrontFields
<1>4. Processed(t, p, seg) =
        IF NextState(t.pcb[p].state, seg) = "TIME_WAIT" THEN Reg(r, "tw", p) ELSE u
  BY <1>0, ProcessedIs
<1> HIDE DEF c
<1>5. Mild(m, u) /\ u \in Tcp
  <2> HIDE DEF m
  <2>1. m.pcb[p].state = t.pcb[p].state
    BY <1>3
  <2> QED
    BY <1>1, <1>2, <1>3, <2>1, MildPcb, PcbFields
<1> HIDE DEF m, u
<1>6. Mild(u, r) /\ r \in Tcp
  BY <1>0, <1>5, MildLists, RmvKeeps
<1> HIDE DEF r
<1>7. Mild(r, Reg(r, "tw", p))
  BY <1>0, <1>6, MildLists
<1>8. Mild(t, u)
  BY <1>3, <1>5, MildTwice
<1>9. Mild(t, Reg(r, "tw", p))
  BY <1>8, <1>6, <1>7, MildTwice
<1> QED
  BY <1>4, <1>8, <1>9

LEMMA MildSlowTmr ==
  ASSUME tcp \in Tcp, NEW rto, SlowTmr(rto)
  PROVE  Mild(tcp, tcp')
<1> DEFINE u == Ticked(tcp, rto)
           gone == Expired(tcp, u)
           goneTw == ExpiredTw(tcp, u)
           v == Unlink(u, "active", gone)
           w == Unlink(v, "tw", goneTw)
<1>0. "active" \in Lists /\ "tw" \in Lists /\ "listen" \in Lists
  BY DEF Lists
<1>1. u \in Tcp /\ Mild(tcp, u)
  BY TickedFields DEF Mild
<1>2. gone \cup goneTw \in SUBSET Pcbs
  BY <1>0, ChainType DEF Expired, ExpiredTw
<1>3. tcp' = Release(w, gone \cup goneTw)
  BY DEF SlowTmr
<1>4. ASSUME NEW t \in Tcp, NEW l \in {"active", "tw"}, NEW R
      PROVE  Unlink(t, l, R) \in Tcp /\ Mild(t, Unlink(t, l, R))
  <2>1. /\ Unlink(t, l, R) \in Tcp /\ Unlink(t, l, R).pcb = t.pcb
        /\ Unlink(t, l, R).head = [t.head EXCEPT ![l] = First(t.next, t.head[l], R)]
    BY <1>0, UnlinkFields
  <2>2. Unlink(t, l, R).head["listen"] = t.head["listen"]
    BY <1>0, <2>1 DEF Tcp
  <2> QED
    BY <2>1, <2>2 DEF Mild
<1> HIDE DEF u, gone, goneTw
<1>5. v \in Tcp /\ Mild(u, v)
  BY <1>1, <1>4
<1> HIDE DEF v
<1>6. w \in Tcp /\ Mild(v, w)
  BY <1>5, <1>4
<1> HIDE DEF w
<1>7. Mild(w, tcp')
  BY <1>2, <1>3, <1>6, MildRelease
<1> QED
  BY <1>1, <1>5, <1>6, <1>7, MildTwice

-----------------------------------------------------------------------------
(* The invariant                                                           *)

Places ==
  {Idle, [Idle EXCEPT !.at = "done"]}
    \cup [at : {"bind", "connect"}, socket : Sockets, pcb : Pcbs]

\* A block that a socket points to is one it was given, and the socket has followed it.
Follows(s) ==
  sock[s].conn # NULL =>
    /\ sock[s].used /\ socket_ID[sock[s].conn] = s
    /\ tcp.pcb[sock[s].conn].state = "ESTABLISHED" => sock[s].state = "established"

SockInv ==
  /\ NoPassive(tcp)
  /\ sock \in [Sockets -> Socket] /\ socket_ID \in [Pcbs -> Sockets] /\ main \in Places
  /\ main = Idle => \A s \in Sockets : sock[s].conn = NULL
  /\ \A s \in Sockets : Follows(s)

LEMMA ErrorSockIs ==
  ASSUME NEW sk \in [Sockets -> Socket], NEW called, NEW e
  PROVE  /\ ErrorSock(sk, called, e) \in [Sockets -> Socket]
         /\ \A s \in Sockets :
              LET k == ErrorSock(sk, called, e)[s]
              IN  /\ k.conn \in {sk[s].conn, NULL} /\ k.used = sk[s].used
                  /\ k.state = sk[s].state
<1>1. ASSUME NEW s \in Sockets
      PROVE  /\ [sk[s] EXCEPT !.conn = NULL] \in Socket
             /\ [sk[s] EXCEPT !.conn = NULL].conn = NULL
             /\ [sk[s] EXCEPT !.conn = NULL].used = sk[s].used
             /\ [sk[s] EXCEPT !.conn = NULL].state = sk[s].state
  BY DEF Socket, Pointer
<1> QED
  BY <1>1 DEF ErrorSock

\* What a step may do without any socket losing its block's track.
LEMMA FollowsStill ==
  ASSUME SockInv, Mild(tcp, tcp'), socket_ID' = socket_ID,
         main' \in Places, main' = Idle => main = Idle,
         sock' \in [Sockets -> Socket],
         \A s \in Sockets : /\ sock'[s].conn \in {sock[s].conn, NULL}
                            /\ sock[s].used => sock'[s].used
                            /\ sock[s].used => sock'[s].state \in {sock[s].state, "established"}
  PROVE  SockInv'
<1>1. NoPassive(tcp')
  BY MildStays DEF SockInv
<1>2. main' = Idle => \A s \in Sockets : sock'[s].conn = NULL
  BY DEF SockInv
<1>3. ASSUME NEW s \in Sockets, sock'[s].conn # NULL
      PROVE  /\ sock'[s].used /\ socket_ID'[sock'[s].conn] = s
             /\ tcp'.pcb[sock'[s].conn].state = "ESTABLISHED" => sock'[s].state = "established"
  <2>1. sock'[s].conn = sock[s].conn /\ sock[s].used /\ socket_ID[sock[s].conn] = s /\ sock[s].conn \in Pcbs
    BY <1>3 DEF SockInv, Follows, Socket, Pointer
  <2>2. tcp'.pcb[sock[s].conn].state = "ESTABLISHED" => tcp.pcb[sock[s].conn].state = "ESTABLISHED"
    BY <2>1 DEF Mild
  <2> QED
    BY <1>3, <2>1, <2>2 DEF SockInv, Follows
<1> QED
  BY <1>1, <1>2, <1>3 DEF SockInv, Follows

\* The blocks change, the sockets and main() do not, or main() goes on.
LEMMA SameSockets ==
  ASSUME SockInv, Mild(tcp, tcp'), socket_ID' = socket_ID, sock' = sock,
         main' \in Places, main' = Idle => main = Idle
  PROVE  SockInv'
BY FollowsStill DEF SockInv

LEMMA SocketTypes ==
  ASSUME SockInv
  PROVE  /\ \A s \in Sockets : sock[s] \in Socket /\ sock[s].conn \in Pcbs \cup {NULL}
         /\ tcp \in Tcp /\ \A p \in Pcbs : tcp.pcb[p] \in Pcb /\ socket_ID[p] \in Sockets
BY DEF SockInv, NoPassive, Socket, Pointer, Tcp

LEMMA GetSocketInv ==
  ASSUME SockInv, NEW s \in Sockets, GetSocket(s)
  PROVE  SockInv'
<1>1. tcp' = tcp /\ socket_ID' = socket_ID /\ main' = main
  BY DEF GetSocket, vars
<1>2. sock' \in [Sockets -> Socket]
  BY SocketTypes DEF GetSocket, SockInv, Socket
<1>3. ASSUME NEW r \in Sockets
      PROVE  /\ sock'[r].conn = sock[r].conn
             /\ sock[r].used => sock'[r].used
             /\ sock[r].used => sock'[r].state = sock[r].state
  BY SocketTypes DEF GetSocket, SockInv, Socket
<1>4. Mild(tcp, tcp')
  BY <1>1, SocketTypes DEF Mild
<1>5. main' \in Places /\ (main' = Idle => main = Idle)
  BY <1>1 DEF SockInv
<1> QED
  BY <1>1, <1>2, <1>3, <1>4, <1>5, FollowsStill

LEMMA BindInv ==
  ASSUME SockInv, NEW s \in Sockets, NEW port \in Locals, Bind(s, port)
  PROVE  SockInv'
<1>1. tcp' = tcp /\ socket_ID' = socket_ID /\ main' = main
  BY DEF Bind, vars
<1>2. sock' \in [Sockets -> Socket]
  BY SocketTypes DEF Bind, SockInv, Socket
<1>3. ASSUME NEW r \in Sockets
      PROVE  /\ sock'[r].conn = sock[r].conn
             /\ sock[r].used => sock'[r].used
             /\ sock'[r].state = sock[r].state
  BY SocketTypes DEF Bind, SockInv, Socket
<1>4. Mild(tcp, tcp')
  BY <1>1, SocketTypes DEF Mild
<1>5. main' \in Places /\ (main' = Idle => main = Idle)
  BY <1>1 DEF SockInv
<1> QED
  BY <1>1, <1>2, <1>3, <1>4, <1>5, FollowsStill

\* The first connection: no socket has a block yet, so none loses its own to this one.
LEMMA ConnectNewInv ==
  ASSUME SockInv, NEW s \in Sockets, NEW p \in Pcbs, NEW e \in ErrTargets, ConnectNew(s, p, e)
  PROVE  SockInv'
<1> DEFINE aborts == p \notin tcp.pool /\ TellsApplication(tcp, p)
           sk == ErrorSock(sock, aborts, e)
<1>1. main = Idle /\ sock[s].used /\ \A r \in Sockets : sock[r].conn = NULL
  BY DEF ConnectNew, SockInv
<1>2. NoPassive(tcp') /\ tcp'.pcb[p].state = "CLOSED"
  <2>1. tcp' = Allocated(tcp, p) \/ tcp' = Allocated(Abandon(tcp, p), p)
    BY DEF ConnectNew, TcpNew
  <2>2. Mild(tcp, Abandon(tcp, p)) /\ Abandon(tcp, p) \in Tcp /\ Mild(tcp, tcp)
    BY SocketTypes, MildAbandon, AbandonType DEF Mild
  <2>3. Mild(tcp, tcp') /\ tcp'.pcb[p].state = "CLOSED"
    BY <2>1, <2>2, SocketTypes, MildAllocated, MildTwice
  <2> QED
    BY <2>3, MildStays DEF SockInv
<1>3. sk \in [Sockets -> Socket] /\ \A r \in Sockets : sk[r].conn = NULL /\ sk[r].used = sock[r].used
  BY <1>1, ErrorSockIs DEF SockInv
<1>4. /\ sock' = [sk EXCEPT ![s].conn = p] /\ socket_ID' = [socket_ID EXCEPT ![p] = s]
      /\ main' = [at |-> "bind", socket |-> s, pcb |-> p]
  BY DEF ConnectNew
<1> HIDE DEF sk
<1>5. /\ sock' \in [Sockets -> Socket] /\ sock'[s].conn = p /\ sock'[s].used
      /\ \A r \in Sockets \ {s} : sock'[r].conn = NULL
  BY <1>1, <1>3, <1>4 DEF Socket, Pointer
<1>6. socket_ID' \in [Pcbs -> Sockets] /\ socket_ID'[p] = s
  BY <1>4 DEF SockInv
<1>7. main' \in Places /\ main' # Idle
  BY <1>4 DEF Places, Idle
<1>8. ASSUME NEW r \in Sockets, sock'[r].conn # NULL
      PROVE  /\ sock'[r].used /\ socket_ID'[sock'[r].conn] = r
             /\ tcp'.pcb[sock'[r].conn].state # "ESTABLISHED"
  BY <1>2, <1>5, <1>6, <1>8
<1> QED
  BY <1>2, <1>5, <1>6, <1>7, <1>8 DEF SockInv, Follows

LEMMA PlaceIs ==
  ASSUME SockInv
  PROVE  /\ main.at \in {"bind", "connect"} => main.socket \in Sockets /\ main.pcb \in Pcbs
         /\ main.at # "listen"
         /\ main.at \in {"bind", "connect"} =>
               [main EXCEPT !.at = "connect"] \in Places /\ [main EXCEPT !.at = "connect"] # Idle
<1>1. CASE main \in {Idle, [Idle EXCEPT !.at = "done"]}
  BY <1>1 DEF Idle
<1>2. CASE main \in [at : {"bind", "connect"}, socket : Sockets, pcb : Pcbs]
  BY <1>2 DEF Places, Idle
<1> QED
  BY <1>1, <1>2 DEF SockInv, Places

LEMMA ReturnedIs ==
  ASSUME ConnectsOnce
  PROVE  Returned \in Places /\ Returned # Idle
BY DEF ConnectsOnce, Returned, Idle, Places

LEMMA ConnectBindInv ==
  ASSUME SockInv, ConnectsOnce, ConnectBind
  PROVE  SockInv'
<1> DEFINE port == sock[main.socket].port
           p == main.pcb
           c == [tcp.pcb[p] EXCEPT !.local = port]
           t == [tcp EXCEPT !.pcb[p] = c]
<1>1. main.at = "bind" /\ sock' = sock /\ socket_ID' = socket_ID
  BY DEF ConnectBind
<1>2. main.socket \in Sockets /\ p \in Pcbs
  BY <1>1, PlaceIs
<1>3. CASE main' = Returned /\ UNCHANGED vars
  <2>1. Mild(tcp, tcp')
    BY <1>3, SocketTypes DEF Mild, vars
  <2> QED
    BY <1>1, <1>3, <2>1, ReturnedIs, SameSockets
<1>4. CASE main' = [main EXCEPT !.at = "connect"] /\ TcpBind(p, port)
  <2>1. main' \in Places /\ main' # Idle
    BY <1>1, <1>4, PlaceIs
  <2>2. c \in Pcb /\ c.state = tcp.pcb[p].state
    BY <1>2, SocketTypes DEF Pcb, Socket
  <2>3. [tcp EXCEPT !.pcb[p].local = port] = t
    BY SocketTypes DEF Tcp
  <2>4. tcp' = Reg(t, "bound", p)
    BY <1>4, <2>3 DEF TcpBind
  <2> HIDE DEF c
  <2>5. Mild(tcp, t) /\ t \in Tcp
    BY <1>2, <2>2, SocketTypes, MildPcb, PcbFields
  <2> HIDE DEF t
  <2>6. "bound" \in Lists \ {"listen"}
    BY DEF Lists
  <2>7. Mild(t, Reg(t, "bound", p))
    BY <1>2, <2>5, <2>6, MildLists
  <2>8. Mild(tcp, tcp')
    BY <2>4, <2>5, <2>7, MildTwice
  <2> QED
    BY <1>1, <2>1, <2>8, SameSockets
<1> QED
  BY <1>3, <1>4 DEF ConnectBind

LEMMA MildConnect ==
  ASSUME tcp \in Tcp, NEW p \in Pcbs, NEW r \in Peers, NEW ok \in BOOLEAN, TcpConnect(p, r, ok)
  PROVE  Mild(tcp, tcp')
<1> DEFINE c == [tcp.pcb[p] EXCEPT !.remote = r, !.rxclosed = FALSE]
           d == [c EXCEPT !.state = "SYN_SENT"]
           t == [tcp EXCEPT !.pcb[p] = c]
           u == [tcp EXCEPT !.pcb[p] = d]
           v == Rmv(u, "bound", p)
<1>1. tcp.pcb[p] \in Pcb
  BY DEF Tcp
<1>2. c \in Pcb /\ c.state = tcp.pcb[p].state
  BY <1>1 DEF Pcb
<1>3. d \in Pcb /\ d.state = "SYN_SENT"
  BY <1>2, StateType DEF States, Active
<1>6. tcp' = IF ok THEN Reg(v, "active", p) ELSE t
  <2> DEFINE t0 == [tcp EXCEPT !.pcb[p].remote = r, !.pcb[p].rxclosed = FALSE]
             u0 == [t0 EXCEPT !.pcb[p].state = "SYN_SENT"]
  <2>1. t0 = t /\ u0 = u
    BY DEF Tcp
  <2>2. tcp' = IF ok THEN Reg(Rmv(u0, "bound", p), "active", p) ELSE t0
    BY DEF TcpConnect
  <2> HIDE DEF t0, u0, t, u
  <2> QED
    BY <2>1, <2>2
<1> HIDE DEF c, d
<1>7. Mild(tcp, t) /\ Mild(tcp, u) /\ u \in Tcp
  BY <1>2, <1>3, MildPcb, PcbFields DEF Passive
<1> HIDE DEF t, u
<1>8. "bound" \in Lists \ {"listen"} /\ "active" \in Lists \ {"listen"}
  BY DEF Lists
<1>9. Mild(u, v) /\ v \in Tcp
  BY <1>7, <1>8, MildLists, RmvKeeps
<1> HIDE DEF v
<1>10. Mild(v, Reg(v, "active", p))
  BY <1>8, <1>9, MildLists
<1> QED
  BY <1>6, <1>7, <1>9, <1>10, MildTwice

LEMMA ConnectSynInv ==
  ASSUME SockInv, ConnectsOnce, NEW r \in Peers, NEW ok \in BOOLEAN, ConnectSyn(r, ok)
  PROVE  SockInv'
<1>1. sock' = sock /\ socket_ID' = socket_ID /\ main' = Returned /\ main.at = "connect"
  BY DEF ConnectSyn
<1>2. sock[main.socket].conn \in Pcbs \cup {NULL}
  BY <1>1, PlaceIs, SocketTypes
<1>3. Mild(tcp, tcp')
  <2>1. CASE UNCHANGED vars
    BY <2>1, SocketTypes DEF Mild, vars
  <2>2. CASE sock[main.socket].conn # NULL /\ TcpConnect(sock[main.socket].conn, r, ok)
    BY <1>2, <2>2, SocketTypes, MildConnect
  <2> QED
    BY <2>1, <2>2 DEF ConnectSyn
<1> QED
  BY <1>1, <1>3, ReturnedIs, SameSockets

LEMMA CloseInv ==
  ASSUME SockInv, NEW s \in Sockets, NEW ok \in BOOLEAN, Close(s, ok)
  PROVE  SockInv'
<1>1. /\ sock' = sock /\ socket_ID' = socket_ID /\ main' = main
      /\ sock[s].conn \in Pcbs /\ tcp' = Closed(tcp, sock[s].conn, ok)
  BY SocketTypes DEF Close, TcpClose
<1>2. tcp.pcb[sock[s].conn].state # "LISTEN"
  BY <1>1 DEF SockInv, NoPassive, Passive
<1>3. Mild(tcp, tcp')
  BY <1>1, <1>2, SocketTypes, MildClosed
<1> QED
  BY <1>1, <1>3, SameSockets DEF SockInv

\* A step that changes the blocks as above and may make the error callback.
LEMMA ErrorInv ==
  ASSUME SockInv, Mild(tcp, tcp'), NEW called, NEW e, sock' = ErrorSock(sock, called, e),
         socket_ID' = socket_ID, main' = main
  PROVE  SockInv'
<1>1. sock \in [Sockets -> Socket]
  BY DEF SockInv
<1>2. /\ sock' \in [Sockets -> Socket]
      /\ \A s \in Sockets : /\ sock'[s].conn \in {sock[s].conn, NULL}
                             /\ sock'[s].used = sock[s].used /\ sock'[s].state = sock[s].state
  BY <1>1, ErrorSockIs
<1> QED
  BY <1>2, FollowsStill DEF SockInv

LEMMA CloseAbortInv ==
  ASSUME SockInv, NEW s \in Sockets, NEW e \in ErrTargets, CloseAbort(s, e)
  PROVE  SockInv'
<1>1. Mild(tcp, tcp')
  BY SocketTypes, MildAbandon DEF CloseAbort, TcpAbort
<1> QED
  BY <1>1, ErrorInv DEF CloseAbort

\* conection_established: the one step after which a block is newly established.
LEMMA SynAckInv ==
  ASSUME SockInv, NEW p \in Pcbs, SynAck(p)
  PROVE  SockInv'
<1> DEFINE m == MoveToFront(tcp, "active", p)
           c == [Touched(tcp.pcb[p]) EXCEPT !.state = "ESTABLISHED"]
           i == socket_ID[p]
<1>1. socket_ID' = socket_ID /\ main' = main /\ sock' = [sock EXCEPT ![i].state = "established"]
  BY DEF SynAck, Established
<1>2. "active" \in Lists \ {"listen"} /\ i \in Sockets
  BY SocketTypes DEF Lists
<1>3. Mild(tcp, m) /\ m \in Tcp /\ m.pcb = tcp.pcb
  BY <1>2, SocketTypes, MildLists, MoveToFrontFields
<1>4. c \in Pcb /\ c.state = "ESTABLISHED"
  BY SocketTypes, TouchedType, StateType DEF States, Active
<1>5. tcp' = [m EXCEPT !.pcb[p] = c]
  BY <1>3 DEF SynAck, SynAckIn, Tcp
<1> HIDE DEF m, c
<1>6. /\ tcp' \in Tcp /\ tcp'.head = m.head /\ tcp'.pcb[p] = c
      /\ \A q \in Pcbs \ {p} : tcp'.pcb[q] = tcp.pcb[q]
  BY <1>3, <1>4, <1>5, PcbFields
<1>7. NoPassive(tcp')
  BY <1>3, <1>4, <1>6 DEF NoPassive, Mild, SockInv, Passive
<1>8. /\ sock' \in [Sockets -> Socket]
      /\ \A s \in Sockets : /\ sock'[s].conn = sock[s].conn /\ sock'[s].used = sock[s].used
                             /\ sock'[s].state = IF s = i THEN "established" ELSE sock[s].state
  BY <1>1, <1>2, SocketTypes DEF SockInv, Socket
<1>9. ASSUME NEW s \in Sockets, sock'[s].conn # NULL
      PROVE  /\ sock'[s].used /\ socket_ID'[sock'[s].conn] = s
             /\ tcp'.pcb[sock'[s].conn].state = "ESTABLISHED" => sock'[s].state = "established"
  <2>1. sock[s].conn \in Pcbs /\ Follows(s) /\ sock[s].conn = sock'[s].conn /\ sock[s].conn # NULL
    BY <1>8, <1>9, SocketTypes DEF SockInv
  <2>2. sock'[s].used /\ socket_ID'[sock'[s].conn] = s
    BY <1>1, <1>8, <2>1 DEF Follows
  <2>3. CASE sock[s].conn = p
    BY <1>8, <2>1, <2>2, <2>3, <1>1
  <2>4. CASE sock[s].conn # p
    BY <1>6, <1>8, <2>1, <2>2, <2>4 DEF Follows
  <2> QED
    BY <2>2, <2>3, <2>4
<1> QED
  BY <1>1, <1>7, <1>8, <1>9 DEF SockInv, Follows

LEMMA MildSeg ==
  ASSUME NoPassive(tcp), NEW p \in Pcbs, NEW seg \in Segment, NEW q \in Pcbs \cup {NULL},
         NEW ok \in BOOLEAN, SegIn(p, seg, q, ok)
  PROVE  Mild(tcp, tcp')
<1> DEFINE t == Processed(tcp, p, seg)
<1>1. Mild(tcp, t) /\ NoPassive(t)
  BY MildProcessed, MildStays
<1>2. \/ tcp' = Release(Remove(t, "active", p), {p})
      \/ tcp' = Abandon(t, p)
      \/ tcp' = t
      \/ q # NULL /\ tcp' = Closed(t, q, ok)
  BY DEF SegIn
<1> HIDE DEF t
<1>3. t \in Tcp /\ "active" \in Lists \ {"listen"}
  BY <1>1 DEF NoPassive, Lists
<1>4. Mild(t, Release(Remove(t, "active", p), {p})) /\ Mild(t, Abandon(t, p))
  BY <1>3, MildRemoved, MildAbandon
<1>5. q # NULL => Mild(t, Closed(t, q, ok))
  BY <1>1, <1>3, MildClosed DEF NoPassive, Passive
<1> QED
  BY <1>1, <1>2, <1>4, <1>5, MildTwice

LEMMA SegInv ==
  ASSUME SockInv, NEW p \in Pcbs, NEW seg \in Segment, NEW ok \in BOOLEAN, NEW e \in ErrTargets,
         Seg(p, seg, ok, e)
  PROVE  SockInv'
<1> DEFINE q == sock[socket_ID[p]].conn
           called == /\ TakesData(tcp.pcb[p].state, seg) /\ seg.data /\ tcp.pcb[p].rxclosed
                     /\ TellsApplication(Processed(tcp, p, seg), p) /\ HasErr(p)
<1>1. q \in Pcbs \cup {NULL} /\ SegIn(p, seg, q, ok)
  BY SocketTypes DEF Seg
<1>2. tcp.pcb[p].state # "SYN_RCVD"
  BY DEF SockInv, NoPassive, Passive
<1>3. sock' = ErrorSock(sock, called, e) /\ socket_ID' = socket_ID /\ main' = main
  BY <1>2 DEF Seg
<1> HIDE DEF q, called
<1>4. Mild(tcp, tcp')
  BY <1>1, MildSeg DEF SockInv
<1> QED
  BY <1>3, <1>4, ErrorInv

LEMMA RstInv ==
  ASSUME SockInv, NEW p \in Pcbs, NEW e \in ErrTargets, Rst(p, e)
  PROVE  SockInv'
<1> DEFINE m == MoveToFront(tcp, "active", p)
<1>1. "active" \in Lists \ {"listen"} /\ tcp \in Tcp
  BY SocketTypes DEF Lists
<1>2. Mild(tcp, m) /\ m \in Tcp
  BY <1>1, MildLists, MoveToFrontFields
<1>3. tcp' = Release(Remove(m, "active", p), {p})
  BY DEF Rst, RstIn
<1> HIDE DEF m
<1>4. Mild(m, tcp')
  BY <1>1, <1>2, <1>3, MildRemoved
<1>5. Mild(tcp, tcp')
  BY <1>2, <1>4, MildTwice
<1> QED
  BY <1>5, ErrorInv DEF Rst

\* Nothing arrives for a listening block: there is none.
LEMMA NobodyListens ==
  ASSUME SockInv
  PROVE  Chain(tcp, "listen") = {}
BY ChainIs, WalkNull DEF SockInv, NoPassive

LEMMA RefusedInv ==
  ASSUME SockInv, NEW p \in Pcbs, NEW r \in Peers, NEW rst \in BOOLEAN,
         RefusedIn(p, r, rst), UNCHANGED sockVars
  PROVE  SockInv'
<1> DEFINE m == MoveToFront(tcp, "active", p)
           c == IF rst THEN tcp.pcb[p] ELSE Touched(tcp.pcb[p])
<1>1. "active" \in Lists \ {"listen"} /\ tcp \in Tcp /\ tcp.pcb[p] \in Pcb
  BY SocketTypes DEF Lists
<1>2. Mild(tcp, m) /\ m \in Tcp /\ m.pcb = tcp.pcb
  BY <1>1, MildLists, MoveToFrontFields
<1>3. c \in Pcb /\ c.state = m.pcb[p].state
  BY <1>1, <1>2, TouchedType
<1>4. tcp' = [m EXCEPT !.pcb[p] = c]
  BY <1>2, NobodyListens DEF RefusedIn, Tcp
<1> HIDE DEF m, c
<1>5. Mild(m, tcp')
  BY <1>2, <1>3, <1>4, MildPcb
<1>6. Mild(tcp, tcp')
  BY <1>2, <1>5, MildTwice
<1> QED
  BY <1>6, SameSockets DEF sockVars, SockInv

LEMMA TimewaitInv ==
  ASSUME SockInv, NEW p \in Pcbs, TimewaitIn(p), UNCHANGED sockVars
  PROVE  SockInv'
<1> DEFINE c == [tcp.pcb[p] EXCEPT !.age = 0, !.since = 0]
<1>1. c \in Pcb /\ c.state = tcp.pcb[p].state
  <2>1. 0 \in 0 .. MaxAge /\ tcp.pcb[p] \in Pcb
    BY TimerAssumption, SocketTypes
  <2> QED
    BY <2>1 DEF Pcb
<1>2. tcp' = [tcp EXCEPT !.pcb[p] = c]
  BY SocketTypes DEF TimewaitIn, Tcp
<1> HIDE DEF c
<1>3. Mild(tcp, tcp')
  BY <1>1, <1>2, SocketTypes, MildPcb
<1> QED
  BY <1>3, SameSockets DEF sockVars, SockInv

LEMMA SlowTickInv ==
  ASSUME SockInv, NEW rto, NEW e \in ErrTargets, SlowTick(rto, e)
  PROVE  SockInv'
<1>1. Mild(tcp, tcp')
  BY SocketTypes, MildSlowTmr DEF SlowTick
<1> QED
  BY <1>1, ErrorInv DEF SlowTick

-----------------------------------------------------------------------------
(* The theorem                                                             *)

LEMMA SockInitInv ==
  ASSUME SockInit
  PROVE  SockInv
<1>1. tcp \in Tcp
  BY FreshType DEF SockInit, Init, Tcp, Links, Pointer
<1>2. NoPassive(tcp)
  BY <1>1 DEF SockInit, Init, NoPassive, Passive, Fresh, Lists
<1>3. /\ sock \in [Sockets -> Socket] /\ \A s \in Sockets : sock[s].conn = NULL
      /\ socket_ID \in [Pcbs -> Sockets] /\ main = Idle
  BY SocketsAssumption DEF SockInit, Socket, Pointer
<1> QED
  BY <1>2, <1>3 DEF SockInv, Follows, Places

LEMMA SockNextInv ==
  ASSUME SockInv, ConnectsOnce, SockNext
  PROVE  SockInv'
<1>1. "listen" \notin usage
  BY DEF ConnectsOnce
<1>2. CASE Service
  <2>1. ~ListenState
    BY PlaceIs DEF ListenState
  <2> QED
    BY <1>1, <1>2, <2>1, GetSocketInv, BindInv, ConnectBindInv, CloseInv, ConnectSynInv,
       ConnectNewInv, CloseAbortInv DEF Service
<1>3. CASE Interrupt
  <2>1. ASSUME NEW l \in Pcbs, NEW r, NEW ok, NEW e
        PROVE  ~Syn(l, r, ok, e)
    BY NobodyListens DEF Syn, SynIn
  <2> QED
    BY <1>3, <2>1, SynAckInv, RstInv, TimewaitInv, RefusedInv, SegInv, SlowTickInv DEF Interrupt
<1> QED
  BY <1>2, <1>3 DEF SockNext

LEMMA SockInvHolds == SockSpec => [](ConnectsOnce => SockInv)
<1>1. SockInit => (ConnectsOnce => SockInv)
  BY SockInitInv
<1>2. (ConnectsOnce => SockInv) /\ [SockNext]_allVars => (ConnectsOnce => SockInv)'
  <2> SUFFICES ASSUME ConnectsOnce => SockInv, [SockNext]_allVars, ConnectsOnce'
               PROVE  SockInv'
    OBVIOUS
  <2>1. CASE SockNext
    BY <2>1, SockNextInv DEF SockNext, ConnectsOnce
  <2>2. CASE UNCHANGED allVars
    <3>1. /\ tcp' = tcp /\ sock' = sock /\ socket_ID' = socket_ID /\ main' = main
          /\ usage' = usage
      BY <2>2 DEF allVars, vars, sockVars
    <3> QED
      BY <3>1 DEF SockInv, Follows, ConnectsOnce
  <2> QED
    BY <2>1, <2>2
<1> QED
  BY <1>1, <1>2, PTL DEF SockSpec

\* KnowsConnected: in a program that connects once and does not listen, the socket whose
\* connection is established is in the state established, whichever handler comes between
\* the calls of TcpIp_TcpConnect and whatever error_event takes for a socket's index.
THEOREM SocketKnows == SockSpec => [](ConnectsOnce => KnowsConnected)
<1>1. (ConnectsOnce => SockInv) => (ConnectsOnce => KnowsConnected)
  BY DEF SockInv, Follows, KnowsConnected
<1> QED
  BY <1>1, SockInvHolds, PTL
=============================================================================
