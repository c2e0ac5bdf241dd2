---------------------------- MODULE TcpIpSocket ----------------------------
(***************************************************************************)
(* The TCP half of the socket interface, TcpIp.c and lwip_int.c, on top of *)
(* the control blocks of TcpPcbs: sockets_list, the TcpIp_ services, and   *)
(* the callbacks conection_established, TCPReceive and error_event that    *)
(* tcp_input and the timer make.  A socket keeps a pointer to its block in *)
(* ptr_connection; the block keeps the socket's index in socket_ID.        *)
(*                                                                         *)
(* main() can be interrupted between the calls that TcpIp_TcpConnect and   *)
(* TcpIp_TcpListen make, so it has one step for each of them.  The         *)
(* interrupt handlers do not preempt each other.  The two addresses of the *)
(* configuration differ, so the search of TcpIp_Bind for a socket with the *)
(* same port and address under another identifier never refuses.           *)
(***************************************************************************)
EXTENDS TcpPcbs

CONSTANTS Sockets,        \* the indices of sockets_list: 0 .. TcpIpTcpSocketMax_no - 1
          ErrTargets      \* what error_event may take for a socket's index

ASSUME SocketsAssumption == Sockets \subseteq Nat /\ 0 \in Sockets /\ ErrTargets # {}

VARIABLES sock,           \* sockets_list
          socket_ID,      \* pcb->socket_ID
          notified,       \* the last event the socket's owner got from SoAd_TcpIpEvent
          main            \* where main() is in TcpIp_TcpConnect or TcpIp_TcpListen

sockVars == <<sock, socket_ID, notified, main>>
allVars == <<vars, sockVars>>

Idle == [at |-> "idle", socket |-> 0, pcb |-> NULL]

\* main() connects once; with "reconnect" in usage the application may do so again.
Returned == IF "reconnect" \in usage THEN Idle ELSE [Idle EXCEPT !.at = "done"]

Socket == [used : BOOLEAN, port : Locals \cup {NULL},
           state : {"unconnected", "listen", "established"}, conn : Pointer]

\* error_event, when a step called it.  It gets the callback argument, NULL, and takes
\* it for a block: the index it reads comes from the first bytes of the flash.
ErrorSock(sk, called, e) ==
    [s \in Sockets |-> IF called /\ s = e THEN [sk[s] EXCEPT !.conn = NULL] ELSE sk[s]]

\* Has tcp_err been called for block p?
HasErr(p) == ~(main.at = "listen" /\ main.pcb = p)

InService == main.at \in {"bind", "connect", "listen"}

ErrorNote(nt, called, e) ==
    [s \in Sockets |-> IF called /\ s = e THEN "reset" ELSE nt[s]]

-----------------------------------------------------------------------------
(* Services *)

\* TcpIp_SoAdGetSocket: the first unused entry; port and ptr_connection stay.
GetSocket(s) ==
    /\ ~InService
    /\ ~sock[s].used /\ \A r \in Sockets : r < s => sock[r].used
    /\ sock' = [sock EXCEPT ![s] = [@ EXCEPT !.used = TRUE, !.state = "unconnected"]]
    /\ UNCHANGED <<vars, socket_ID, notified, main>>

Bind(s, port) ==
    /\ ~InService /\ sock[s].used
    /\ sock' = [sock EXCEPT ![s].port = port]
    /\ UNCHANGED <<vars, socket_ID, notified, main>>

\* TcpIp_TcpConnect: the checks and tcp_new, which may abort another connection.
ConnectNew(s, p, e) ==
    LET aborts == p \notin tcp.pool /\ TellsApplication(tcp, p)
    IN  /\ main = Idle
        /\ sock[s].used /\ sock[s].port # NULL /\ sock[s].state # "established"
        /\ TcpNew(p)
        /\ sock' = [ErrorSock(sock, aborts, e) EXCEPT ![s].conn = p]
        /\ notified' = ErrorNote(notified, aborts, e)
        /\ socket_ID' = [socket_ID EXCEPT ![p] = s]
        /\ main' = [at |-> "bind", socket |-> s, pcb |-> p]

\* tcp_bind; when the endpoint is in use the service returns and the block stays.
ConnectBind ==
    LET port == sock[main.socket].port
    IN  /\ main.at = "bind"
        /\ IF InUse(tcp, port)
           THEN main' = Returned /\ UNCHANGED vars
           ELSE main' = [main EXCEPT !.at = "connect"] /\ TcpBind(main.pcb, port)
        /\ UNCHANGED <<sock, socket_ID, notified>>

\* tcp_connect, on the pointer the socket has now.
ConnectSyn(r, enqueued) ==
    LET p == sock[main.socket].conn
    IN  /\ main.at = "connect"
        /\ IF p # NULL /\ tcp.pcb[p].state = "CLOSED" /\ tcp.pcb[p].local # NULL
           THEN TcpConnect(p, r, enqueued) ELSE UNCHANGED vars
        /\ main' = Returned
        /\ UNCHANGED <<sock, socket_ID, notified>>

\* TcpIp_TcpListen: tcp_new and tcp_listen.  tcp_alloc cleared socket_ID, and nothing sets it.
Listen(s, p, e) ==
    LET aborts == p \notin tcp.pool /\ TellsApplication(tcp, p)
        t == Allocated(IF p \in tcp.pool THEN tcp ELSE Abandon(tcp, p), p)
    IN  /\ main = Idle /\ sock[s].port # NULL
        /\ p \in tcp.pool \cup Victims(tcp)
        /\ tcp' = Reg([t EXCEPT !.pcb[p].state = "LISTEN", !.pcb[p].local = sock[s].port],
                      "listen", p)
        /\ owned' = owned \cup {p}
        /\ sock' = [ErrorSock(sock, aborts, e) EXCEPT ![s].conn = p]
        /\ notified' = ErrorNote(notified, aborts, e)
        /\ socket_ID' = [socket_ID EXCEPT ![p] = 0]
        /\ main' = [at |-> "listen", socket |-> s, pcb |-> p]

\* Its last lines: the socket's state, whatever has happened to it since, and tcp_err.
ListenState ==
    /\ main.at = "listen"
    /\ sock' = [sock EXCEPT ![main.socket].state = "listen"]
    /\ main' = Idle
    /\ UNCHANGED <<vars, socket_ID, notified>>

\* TcpIp_Close(s, FALSE): the event is raised whatever tcp_close returned.  Through a
\* stale pointer it can give a block back a second time; what the pool does after that
\* is outside the model.
Close(s, enqueued) ==
    /\ sock[s].conn # NULL
    /\ TcpClose(sock[s].conn, enqueued)
    /\ notified' = [notified EXCEPT ![s] = "closed"]
    /\ UNCHANGED <<sock, socket_ID, main>>

\* TcpIp_Close(s, TRUE); tcp_err was called before the block had a peer or listened.
CloseAbort(s, e) ==
    LET p == sock[s].conn
        called == TellsApplication(tcp, p)
                  /\ (tcp.pcb[p].remote # NULL \/ tcp.pcb[p].state = "LISTEN") /\ HasErr(p)
    IN  /\ p # NULL
        /\ TcpAbort(p)
        /\ sock' = ErrorSock(sock, called, e)
        /\ notified' = [ErrorNote(notified, called, e) EXCEPT ![s] = "reset"]
        /\ UNCHANGED <<socket_ID, main>>

\* TcpIp_TcpTransmit reaches tcp_write.
Transmits(s) == sock[s].used /\ sock[s].conn # NULL /\ sock[s].state = "established"

-----------------------------------------------------------------------------
(* Segments and ticks, with the callbacks they make *)

\* Mutation: conection_established takes the block's socket for an unconnected one.
EstablishedIgnored(sk, p) == sk

\* conection_established
Established(sk, p) == [sk EXCEPT ![socket_ID[p]].state = "established"]

SynAck(p) ==
    /\ SynAckIn(p)
    /\ sock' = Established(sock, p)
    /\ UNCHANGED <<socket_ID, notified, main>>

\* TCPReceive passes a FIN to TcpIp_Close, which closes the socket's block.
Seg(p, seg, enqueued, e) ==
    LET s == tcp.pcb[p].state
        handshake == s = "SYN_RCVD" /\ seg.ack
        aborted == TakesData(s, seg) /\ seg.data /\ tcp.pcb[p].rxclosed
        called == aborted /\ TellsApplication(Processed(tcp, p, seg), p) /\ HasErr(p)
        q == sock[socket_ID[p]].conn
        fin == TakesData(s, seg) /\ seg.fin /\ ~aborted /\ q # NULL
    IN  /\ SegIn(p, seg, q, enqueued)
        /\ sock' = ErrorSock(IF handshake THEN Established(sock, p) ELSE sock, called, e)
        /\ notified' = [ErrorNote(notified, called, e) EXCEPT
                          ![socket_ID[p]] = IF fin THEN "closed" ELSE @]
        /\ UNCHANGED <<socket_ID, main>>

Rst(p, e) ==
    /\ RstIn(p)
    /\ sock' = ErrorSock(sock, HasErr(p), e)
    /\ notified' = ErrorNote(notified, HasErr(p), e)
    /\ UNCHANGED <<socket_ID, main>>

Syn(l, r, enqueued, e) ==
    /\ SynIn(l, r, enqueued)
    /\ sock' = ErrorSock(sock, ~enqueued /\ HasErr(l), e)
    /\ notified' = ErrorNote(notified, ~enqueued /\ HasErr(l), e)
    /\ UNCHANGED <<socket_ID, main>>

SlowTick(rto, e) ==
    LET called == \E p \in Expired(tcp, Ticked(tcp, rto)) : HasErr(p)
    IN  /\ SlowTmr(rto)
        /\ sock' = ErrorSock(sock, called, e)
        /\ notified' = ErrorNote(notified, called, e)
        /\ UNCHANGED <<socket_ID, main>>

-----------------------------------------------------------------------------
SockInit ==
    /\ Init
    /\ sock = [s \in Sockets |-> [used |-> FALSE, port |-> NULL,
                                  state |-> "unconnected", conn |-> NULL]]
    /\ socket_ID = [p \in Pcbs |-> 0]
    /\ notified = [s \in Sockets |-> "none"]
    /\ main = Idle

Service ==
    \/ \E s \in Sockets, port \in Locals : GetSocket(s) \/ Bind(s, port)
    \/ ConnectBind \/ ListenState
    \/ \E s \in Sockets, ok \in BOOLEAN : Close(s, ok)
    \/ \E r \in Peers, ok \in BOOLEAN : ConnectSyn(r, ok)
    \/ \E s \in Sockets, p \in Pcbs, e \in ErrTargets :
          \/ "connect" \in usage /\ ConnectNew(s, p, e)
          \/ "listen" \in usage /\ tcp.head["listen"] = NULL /\ Listen(s, p, e)
          \/ CloseAbort(s, e)

Interrupt ==
    \/ \E p \in Pcbs : SynAck(p)
    \/ \E p \in Pcbs, e \in ErrTargets : Rst(p, e)
    \/ \E p \in Pcbs : TimewaitIn(p) /\ UNCHANGED sockVars
    \/ \E p \in Pcbs, r \in Peers, rst \in BOOLEAN : RefusedIn(p, r, rst) /\ UNCHANGED sockVars
    \/ \E p \in Pcbs, seg \in Segment, ok \in BOOLEAN, e \in ErrTargets : Seg(p, seg, ok, e)
    \/ \E l \in Pcbs, r \in Peers, ok \in BOOLEAN, e \in ErrTargets : Syn(l, r, ok, e)
    \/ \E rto \in SUBSET Chain(tcp, "active"), e \in ErrTargets : SlowTick(rto, e)

SockNext == (Service \/ Interrupt) /\ UNCHANGED usage

SockSpec == SockInit /\ [][SockNext]_allVars

-----------------------------------------------------------------------------
(* Properties *)

\* After a reset no socket points to the block that was given back: error_event clears
\* ptr_connection, "most important when you delete, when rest is sent".
ResetClearsPointer ==
    [][\A p \in Pcbs, e \in ErrTargets : Rst(p, e) => \A s \in Sockets : sock'[s].conn # p]_allVars

\* TcpIp_TcpTransmit writes only to the socket's own connection, and only while that is
\* connected: it refuses the transmission otherwise.
TransmitOnlyConnected ==
    \A s \in Sockets : Transmits(s) =>
        LET p == sock[s].conn
        IN  /\ p \notin tcp.pool /\ socket_ID[p] = s
            /\ tcp.pcb[p].state \in Active \ {"SYN_SENT", "SYN_RCVD"}

\* A client's socket whose connection is established knows it, so that
\* TcpIp_TcpTransmit does not refuse its data.  (TcpIp_TcpListen may overwrite the state
\* of a connection that was accepted while it ran.)
KnowsConnected ==
    "connect" \in usage =>
        \A s \in Sockets : sock[s].conn # NULL =>
            LET p == sock[s].conn
            IN  p \notin tcp.pool /\ tcp.pcb[p].state = "ESTABLISHED"
                  => sock[s].state = "established"

\* When the upper layer is told that a connection was closed or reset, its socket and
\* all its resources have been released.
ReleasedWhenReported ==
    \A s \in Sockets : notified[s] # "none" => ~sock[s].used /\ sock[s].conn = NULL

\* tcp_abandon is not called for a listening block.
NoAbortOfListener ==
    [][\A s \in Sockets, e \in ErrTargets :
         CloseAbort(s, e) => tcp.pcb[sock[s].conn].state # "LISTEN"]_allVars
=============================================================================
