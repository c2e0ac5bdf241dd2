----------------------------- MODULE TcpTimers -----------------------------
(***************************************************************************)
(* tcp_tmr of core/tcp.c: how the fast and the slow timer walk the list of *)
(* active connections, block by block.  A block carries the number of the  *)
(* last timer call that handled it, and the error callback of a connection *)
(* that is given up may open and close others in the middle of the walk.   *)
(*                                                                         *)
(* What handling a block does to the connection is in TcpPcbs and TcpData: *)
(* here a block is kept or given up, whatever the reason.  The handlers do *)
(* not preempt each other, so between two steps of a walk only a callback  *)
(* can run.  No block has refused data (TCPReceive and tcp_recv_null accept *)
(* what they are given), and none has a poll callback.                     *)
(***************************************************************************)
EXTENDS Naturals, Sequences, SequencesExt

CONSTANTS Pcbs,       \* the blocks of the pool MEMP_TCP_PCB
          NULL,       \* the null pointer
          CounterMod, \* tcp_timer_ctr and last_timer are counted modulo this, 256
          Usages      \* late registration: a block may be put on the list however long ago
                      \* it was allocated; callbacks: callbacks open and close connections

ASSUME PcbAssumption == IsFiniteSet(Pcbs) /\ NULL \notin Pcbs
ASSUME CounterAssumption == CounterMod \in Nat /\ CounterMod > 2
ASSUME UsageAssumption == Usages \subseteq SUBSET {"late registration", "callbacks"}

VARIABLES usage,
          state,         \* of each block: FREE in the pool, CLOSED, or ACTIVE
          active,        \* tcp_active_pcbs, from the first block on
          last_timer,
          tcp_timer_ctr,
          tcp_timer,     \* its lowest bit
          changed,       \* tcp_active_pcbs_changed
          walk,          \* the timer's place in its code, its pcb and its prev
          due,           \* auxiliary: blocks this slow timer must still handle
          handled        \* auxiliary: how often this slow timer has handled each block

vars == <<usage, state, active, last_timer, tcp_timer_ctr, tcp_timer, changed, walk, due, handled>>

Listed == Range(active)
FirstOf(s) == IF s = <<>> THEN NULL ELSE Head(s)

Place(p) == CHOOSE i \in DOMAIN active : active[i] = p

\* The blocks from the first one to p, and those behind p.
UpTo(p) == IF p = NULL THEN <<>> ELSE SubSeq(active, 1, Place(p))
After(p) == SubSeq(active, Place(p) + 1, Len(active))

\* TCP_RMV: a block that is not on the list leaves it as it is.
Without(p) ==
    IF p \in Listed THEN SubSeq(active, 1, Place(p) - 1) \o After(p) ELSE active

Increment(n) == (n + 1) % CounterMod

Idle == [at |-> "idle", pcb |-> NULL, prev |-> NULL]
Starting(timer, list) == [at |-> timer, pcb |-> FirstOf(list), prev |-> NULL]

Init ==
    /\ usage \in Usages
    /\ state = [p \in Pcbs |-> "FREE"]
    /\ active = <<>>
    /\ last_timer = [p \in Pcbs |-> 0]
    /\ tcp_timer_ctr = 0
    /\ tcp_timer = 0
    /\ changed = FALSE
    /\ walk = Idle
    /\ due = {}
    /\ handled = [p \in Pcbs |-> 0]

-----------------------------------------------------------------------------
(* What programs and arriving segments do, between timers or in a callback *)

MayRun == walk.at = "idle" \/ (walk.at = "callback" /\ "callbacks" \in usage)

\* Mutation: last_timer stays 0, as memset left it.
AllocLeavesZero(p) ==
    /\ MayRun
    /\ state[p] = "FREE"
    /\ state' = [state EXCEPT ![p] = "CLOSED"]
    /\ last_timer' = [last_timer EXCEPT ![p] = 0]
    /\ handled' = [handled EXCEPT ![p] = 0]
    /\ UNCHANGED <<usage, active, tcp_timer_ctr, tcp_timer, changed, walk, due>>

\* tcp_alloc.  With the pool empty it closes a connection first, which is a step of its own.
Alloc(p) ==
    /\ MayRun
    /\ state[p] = "FREE"
    /\ state' = [state EXCEPT ![p] = "CLOSED"]
    /\ last_timer' = [last_timer EXCEPT ![p] = tcp_timer_ctr]
    /\ handled' = [handled EXCEPT ![p] = 0]
    /\ UNCHANGED <<usage, active, tcp_timer_ctr, tcp_timer, changed, walk, due>>

\* TCP_REG_ACTIVE by tcp_connect, or by tcp_listen_input for the listening block itself.
Register(p) ==
    /\ MayRun
    /\ state[p] = "CLOSED"
    /\ "late registration" \in usage \/ last_timer[p] # Increment(tcp_timer_ctr)
    /\ state' = [state EXCEPT ![p] = "ACTIVE"]
    /\ active' = <<p>> \o active
    /\ changed' = TRUE
    /\ UNCHANGED <<usage, last_timer, tcp_timer_ctr, tcp_timer, walk, due, handled>>

\* The block goes back to the pool: tcp_close, tcp_abort, a reset that arrives.  (To
\* TIME_WAIT it leaves the list in the same way.)
GiveBack(p) ==
    /\ MayRun
    /\ state[p] # "FREE"
    /\ state' = [state EXCEPT ![p] = "FREE"]
    /\ active' = Without(p)
    /\ changed' = (changed \/ state[p] = "ACTIVE")
    /\ due' = due \ {p}
    /\ UNCHANGED <<usage, last_timer, tcp_timer_ctr, tcp_timer, walk, handled>>

-----------------------------------------------------------------------------
(* tcp_tmr and tcp_fasttmr *)

Tick ==
    /\ walk.at = "idle"
    /\ tcp_timer_ctr' = Increment(tcp_timer_ctr)
    /\ walk' = Starting("fast", active)
    /\ UNCHANGED <<usage, state, active, last_timer, tcp_timer, changed, due, handled>>

FastHandle ==
    /\ walk.at = "fast" /\ walk.pcb # NULL
    /\ last_timer[walk.pcb] # tcp_timer_ctr
    /\ last_timer' = [last_timer EXCEPT ![walk.pcb] = tcp_timer_ctr]
    /\ walk' = [walk EXCEPT !.pcb = FirstOf(After(@))]
    /\ UNCHANGED <<usage, state, active, tcp_timer_ctr, tcp_timer, changed, due, handled>>

\* The loop of tcp_fasttmr does not move on from a block that has the current number.
FastSpin ==
    /\ walk.at = "fast" /\ walk.pcb # NULL
    /\ last_timer[walk.pcb] = tcp_timer_ctr
    /\ UNCHANGED vars

\* Every second time tcp_slowtmr follows.
FastEnd ==
    /\ walk.at = "fast" /\ walk.pcb = NULL
    /\ tcp_timer' = (tcp_timer + 1) % 2
    /\ IF tcp_timer' = 1
       THEN /\ tcp_timer_ctr' = Increment(tcp_timer_ctr)
            /\ walk' = Starting("slow", active)
            /\ due' = Listed
            /\ handled' = [p \in Pcbs |-> 0]
       ELSE walk' = Idle /\ UNCHANGED <<tcp_timer_ctr, due, handled>>
    /\ UNCHANGED <<usage, state, active, last_timer, changed>>

-----------------------------------------------------------------------------
(* tcp_slowtmr *)

\* A block with the current number was handled before the walk was restarted.  prev
\* stays where it is.
SlowSkip ==
    /\ walk.at = "slow" /\ walk.pcb # NULL
    /\ last_timer[walk.pcb] = tcp_timer_ctr
    /\ walk' = [walk EXCEPT !.pcb = FirstOf(After(@))]
    /\ UNCHANGED <<usage, state, active, last_timer, tcp_timer_ctr, tcp_timer, changed, due, handled>>

\* Mutation: the block does not get the number of this call.
MarksNothing(p) ==
    /\ due' = due \ {p}
    /\ handled' = [handled EXCEPT ![p] = @ + 1]
    /\ UNCHANGED last_timer

Marks(p) ==
    /\ last_timer' = [last_timer EXCEPT ![p] = tcp_timer_ctr]
    /\ due' = due \ {p}
    /\ handled' = [handled EXCEPT ![p] = @ + 1]

SlowMeets(p) ==
    /\ walk.at = "slow" /\ walk.pcb = p
    /\ last_timer[p] # tcp_timer_ctr
    /\ Marks(p)
    /\ UNCHANGED <<usage, tcp_timer_ctr, tcp_timer>>

SlowKeep(p) ==
    /\ SlowMeets(p)
    /\ walk' = [walk EXCEPT !.pcb = FirstOf(After(p)), !.prev = p]
    /\ UNCHANGED <<state, active, changed>>

\* The block is given up.  It is unlinked by prev, and the error callback runs.
SlowGiveUp(p) ==
    /\ SlowMeets(p)
    /\ active' = UpTo(walk.prev) \o After(p)
    /\ state' = [state EXCEPT ![p] = "FREE"]
    /\ walk' = [walk EXCEPT !.at = "callback", !.pcb = FirstOf(After(p))]
    /\ changed' = FALSE

\* Mutation: the walk goes on whatever the callback did.
CallbackEndsGoesOn ==
    /\ walk.at = "callback"
    /\ walk' = [walk EXCEPT !.at = "slow"]
    /\ UNCHANGED <<usage, state, active, last_timer, tcp_timer_ctr, tcp_timer, changed, due, handled>>

\* If the callback changed the list, the walk starts again.
CallbackEnds ==
    /\ walk.at = "callback"
    /\ walk' = IF changed THEN Starting("slow", active) ELSE [walk EXCEPT !.at = "slow"]
    /\ UNCHANGED <<usage, state, active, last_timer, tcp_timer_ctr, tcp_timer, changed, due, handled>>

SlowEnd ==
    /\ walk.at = "slow" /\ walk.pcb = NULL
    /\ walk' = Idle
    /\ UNCHANGED <<usage, state, active, last_timer, tcp_timer_ctr, tcp_timer, changed, due, handled>>

-----------------------------------------------------------------------------
Timers ==
    \/ FastHandle \/ FastSpin \/ FastEnd
    \/ SlowSkip \/ CallbackEnds \/ SlowEnd
    \/ \E p \in Pcbs : SlowKeep(p) \/ SlowGiveUp(p)

Next ==
    \/ Tick
    \/ Timers
    \/ \E p \in Pcbs : Alloc(p) \/ Register(p) \/ GiveBack(p)

\* A handler runs to its end, and so does a callback.
Spec == Init /\ [][Next]_vars /\ WF_vars(Timers)

-----------------------------------------------------------------------------
(* Properties *)

\* The walk never follows a block that was unlinked or freed: whenever tcp_slowtmr looks
\* at pcb, it is on the list, and prev is one of the blocks before it, although callbacks
\* free blocks and put them back.
WalkListed ==
    walk.at = "slow" /\ walk.pcb # NULL =>
        /\ walk.pcb \in Listed
        /\ walk.prev # NULL => \E i, j \in DOMAIN active :
               i < j /\ active[i] = walk.prev /\ active[j] = walk.pcb

\* Restarts included, a slow timer counts the ticks of a connection once: it handles each
\* block at most once, and at its end all that were on the list and still are.
HandledOnce ==
    /\ \A p \in Pcbs : handled[p] <= 1
    /\ walk.at = "slow" /\ walk.pcb = NULL => due \cap Listed = {}

\* tcp_tmr returns, so that it can be called every 250 ms: no walk runs for ever.
TimerReturns == walk.at # "idle" ~> walk.at = "idle"

\* The same when no block gets onto the list with the number of the next timer call,
\* although callbacks make the walk of tcp_slowtmr start again and again.
RestartsEnd ==
    walk.at # "idle" /\ "late registration" \notin usage ~> walk.at = "idle"

\* Axiom 1 of tcp_impl.h, "every TCP PCB that is not CLOSED is in one of the lists", for
\* the active list: tcp_slowtmr unlinks no block but the one it gives up.
AllListed == \A p \in Pcbs : state[p] = "ACTIVE" => p \in Listed
=============================================================================
