------------------------------- MODULE Etharp -------------------------------
(***************************************************************************)
(* Address resolution (core/etharp.c): arp_table, the table of IP to MAC   *)
(* mappings with one held packet per pending entry, the hint               *)
(* etharp_cached_entry, and the timer that ages the entries.               *)
(*                                                                         *)
(* Everything here runs inside an interrupt handler: frames come in from   *)
(* ethernet_handler, packets go out from the timers and the application,   *)
(* etharp_tmr is called by SysTick.  Each is one step.  The configuration  *)
(* is the one of lwipopts.h: ARP_QUEUEING 0, no static entries, no         *)
(* ETHARP_TRUST_IP_MAC, one network interface.                             *)
(***************************************************************************)
EXTENDS Naturals

CONSTANTS
  Addrs,         \* unicast IP addresses
  Local,         \* the ones in the network of netif
  Gateway,       \* netif->gw
  NonUnicast,    \* 0.0.0.0, broadcast and multicast addresses
  Macs,          \* MAC addresses of other hosts
  Broadcast,     \* the MAC address frames to NonUnicast are sent to
  NULL,
  TableSize,     \* ARP_TABLE_SIZE (10)
  MaxAge,        \* ARP_MAXAGE (240)
  ReRequestAge,  \* ARP_AGE_REREQUEST_USED (228)
  MaxPending     \* ARP_MAXPENDING (2)

ASSUME AddrAssumption ==
  /\ Local \subseteq Addrs
  /\ Gateway \in Addrs
  /\ NonUnicast \cap Addrs = {}
  /\ NULL \notin Addrs \cup NonUnicast \cup Macs
  /\ Broadcast \notin Macs

ASSUME AgeAssumption ==
  /\ TableSize \in Nat \ {0}
  /\ MaxAge \in Nat
  /\ ReRequestAge \in 1 .. MaxAge
  /\ MaxPending \in 1 .. MaxAge

VARIABLES
  arp_table,            \* [Entries -> Entry]
  etharp_cached_entry,  \* the entry used by the last packet that was sent
  up,                   \* NETIF_FLAG_UP of the interface
  out,                  \* the frames the last step handed to linkoutput
  announced,            \* history: the last MAC each address announced
  asked                 \* history: addresses re-requested since the last tick

vars == <<arp_table, etharp_cached_entry, up, out, announced, asked>>

Entries == 0 .. TableSize - 1
States == {"empty", "pending", "stable", "rerequesting"}
Ages == 0 .. MaxAge

Entry ==
  [state : States, ipaddr : Addrs \cup {NULL}, ethaddr : Macs \cup {NULL},
   q : Addrs \cup {NULL}, ctime : Ages, netif : BOOLEAN]

\* A held packet is known by its destination.
Frame ==
  [type : {"ip", "request", "reply"}, dst : Addrs \cup NonUnicast,
   mac : Macs \cup {Broadcast}]

IpFrame(d, m) == [type |-> "ip", dst |-> d, mac |-> m]
Request(h) == [type |-> "request", dst |-> h, mac |-> Broadcast]
Reply(h, m) == [type |-> "reply", dst |-> h, mac |-> m]

-----------------------------------------------------------------------------
(* etharp_find_entry.                                                      *)

\* state >= ETHARP_STATE_STABLE
Stable == {i \in Entries : arp_table[i].state \in {"stable", "rerequesting"}}
Empty == {i \in Entries : arp_table[i].state = "empty"}
Pending == {i \in Entries : arp_table[i].state = "pending"}
Holding == {i \in Pending : arp_table[i].q # NULL}

\* Mutation: only resolved entries match.
MatchesStable(h) == {i \in Stable : arp_table[i].ipaddr = h}

Matches(h) == {i \in Entries \ Empty : arp_table[i].ipaddr = h}

\* The loop runs upwards: the first of a set, and of the oldest the last.
FirstOf(S, i) == i \in S /\ \A j \in S : i <= j
OldestOf(S, i) ==
  /\ i \in S
  /\ \A j \in S : \/ arp_table[j].ctime < arp_table[i].ctime
                  \/ arp_table[j].ctime = arp_table[i].ctime /\ j <= i

\* Mutation: a pending entry is dropped before a resolved one.
RecyclePendingFirst(i) ==
  IF Empty # {} THEN FirstOf(Empty, i)
  ELSE IF Pending # {} THEN OldestOf(Pending, i)
  ELSE OldestOf(Stable, i)

\* The entry a new address is put in: an empty one, else the oldest resolved
\* one, else the oldest pending one without a packet, else with one.
Recycle(i) ==
  IF Empty # {} THEN FirstOf(Empty, i)
  ELSE IF Stable # {} THEN OldestOf(Stable, i)
  ELSE IF Pending \ Holding # {} THEN OldestOf(Pending \ Holding, i)
  ELSE OldestOf(Holding, i)

\* etharp_find_entry(h, ETHARP_FLAG_TRY_HARD) returns i.
FindEntry(h, i) ==
  IF Matches(h) # {} THEN FirstOf(Matches(h), i) ELSE Recycle(i)

\* The fields of entry i as etharp_find_entry leaves them, with the packet
\* of a recycled entry freed.
FoundEntry(h, i) ==
  IF i \in Matches(h)
  THEN arp_table[i]
  ELSE [arp_table[i] EXCEPT !.state = "empty", !.q = NULL,
                            !.ipaddr = h, !.ctime = 0]

-----------------------------------------------------------------------------
(* Input.                                                                  *)

\* Mutation: the packet stays on the entry after it was sent.
UpdateKeepsPacket(h, m, i) ==
  [FoundEntry(h, i) EXCEPT !.state = "stable", !.netif = TRUE,
                           !.ethaddr = m, !.ctime = 0]

\* Mutation: a resolved entry keeps its old MAC address.
UpdateKeepsMac(h, m, i) ==
  [FoundEntry(h, i) EXCEPT !.state = "stable", !.netif = TRUE,
                           !.ethaddr = IF i \in Matches(h) /\ @ # NULL THEN @ ELSE m,
                           !.ctime = 0, !.q = NULL]

\* The entry written by etharp_update_arp_entry.
Updated(h, m, i) ==
  [FoundEntry(h, i) EXCEPT !.state = "stable", !.netif = TRUE,
                           !.ethaddr = m, !.ctime = 0, !.q = NULL]

\* etharp_arp_input: a message for us creates an entry for its sender, any
\* other only refreshes one; the packet held for the sender is sent, and a
\* request for our address is answered.
ArpInput(h, m, for_us, is_request) ==
  /\ LET reply == IF for_us /\ is_request THEN {Reply(h, m)} ELSE {}
     IN IF h \in Addrs /\ (for_us \/ Matches(h) # {})
        THEN \E i \in Entries :
               /\ FindEntry(h, i)
               /\ arp_table' = [arp_table EXCEPT ![i] = Updated(h, m, i)]
               /\ out' = reply \cup
                    {IpFrame(d, m) : d \in {FoundEntry(h, i).q} \ {NULL}}
        ELSE /\ arp_table' = arp_table
             /\ out' = reply
  /\ announced' = [a \in Addrs |-> IF a = h THEN m ELSE announced[a]]
  /\ UNCHANGED <<etharp_cached_entry, up, asked>>

-----------------------------------------------------------------------------
(* Output.                                                                 *)

\* Where etharp_output sends a packet for d.
NextHop(d) == IF d \in Local THEN d ELSE Gateway

\* Mutation: the state does not record that a request is under way.
ReRequestAlways(i, requested) ==
  IF /\ arp_table[i].state = "stable"
     /\ arp_table[i].ctime >= ReRequestAge
     /\ requested
  THEN /\ arp_table' = arp_table
       /\ asked' = asked \cup {arp_table[i].ipaddr}
  ELSE UNCHANGED <<arp_table, asked>>

\* An old entry is re-requested, once per tick; the request may fail.
ReRequest(i, requested) ==
  IF /\ arp_table[i].state = "stable"
     /\ arp_table[i].ctime >= ReRequestAge
     /\ requested
  THEN /\ arp_table' = [arp_table EXCEPT ![i].state = "rerequesting"]
       /\ asked' = asked \cup {arp_table[i].ipaddr}
  ELSE UNCHANGED <<arp_table, asked>>

\* etharp_output_to_arp_index
OutputToArpIndex(d, i, requested) ==
  /\ ReRequest(i, requested)
  /\ out' = {IpFrame(d, arp_table[i].ethaddr)} \cup
       {Request(h) : h \in IF /\ arp_table[i].state = "stable"
                              /\ arp_table[i].ctime >= ReRequestAge
                              /\ requested
                           THEN {arp_table[i].ipaddr} ELSE {}}

\* Mutation: the hint is used without a look at its address.
CachedHitAnyAddress(h) == etharp_cached_entry \in Stable

CachedHit(h) ==
  /\ etharp_cached_entry \in Stable
  /\ arp_table[etharp_cached_entry].ipaddr = h

\* etharp_output, the hint is right.
OutputCached(d, requested) ==
  /\ up
  /\ CachedHit(NextHop(d))
  /\ OutputToArpIndex(d, etharp_cached_entry, requested)
  /\ UNCHANGED <<etharp_cached_entry, up, announced>>

\* etharp_output, the search finds a resolved entry and moves the hint.
OutputResolved(d, requested) ==
  /\ up
  /\ ~CachedHit(NextHop(d))
  /\ \E i \in Entries :
       /\ FirstOf({j \in Stable : arp_table[j].ipaddr = NextHop(d)}, i)
       /\ OutputToArpIndex(d, i, requested)
       /\ etharp_cached_entry' = i
  /\ UNCHANGED <<up, announced>>

\* Mutation: every packet restarts the clock of the pending entry.
QueriedYoung(d, i, copied) ==
  [FoundEntry(NextHop(d), i) EXCEPT !.state = "pending", !.ctime = 0,
                                    !.q = IF copied THEN d ELSE @]

\* The entry written by etharp_query: the new packet replaces the held one
\* unless there is no memory for the copy.
Queried(d, i, copied) ==
  [FoundEntry(NextHop(d), i) EXCEPT !.state = "pending",
                                    !.q = IF copied THEN d ELSE @]

\* etharp_output, no entry is resolved: etharp_query asks for the address and
\* holds a copy of the packet.  The request may fail for want of memory.
OutputQuery(d, requested, copied) ==
  /\ up
  /\ ~CachedHit(NextHop(d))
  /\ {j \in Stable : arp_table[j].ipaddr = NextHop(d)} = {}
  /\ \E i \in Entries :
       /\ FindEntry(NextHop(d), i)
       /\ arp_table' = [arp_table EXCEPT ![i] = Queried(d, i, copied)]
  /\ out' = IF requested THEN {Request(NextHop(d))} ELSE {}
  /\ UNCHANGED <<etharp_cached_entry, up, announced, asked>>

\* etharp_output, broadcast and multicast destinations need no entry.
OutputNonUnicast(d) ==
  /\ up
  /\ out' = {IpFrame(d, Broadcast)}
  /\ UNCHANGED <<arp_table, etharp_cached_entry, up, announced, asked>>

-----------------------------------------------------------------------------
(* Time and the state of the interface.                                    *)

\* etharp_free_entry: address, MAC, age and interface stay in the entry.
FreeEntry(e) == [e EXCEPT !.state = "empty", !.q = NULL]

\* Mutation: pending entries live as long as the others.
AgedLate(e) ==
  IF e.state = "empty" THEN e
  ELSE IF e.ctime + 1 >= MaxAge THEN FreeEntry(e)
  ELSE [e EXCEPT !.ctime = @ + 1,
                 !.state = IF @ = "rerequesting" THEN "stable" ELSE @]

\* One round of the loop of etharp_tmr.
Aged(e) ==
  IF e.state = "empty" THEN e
  ELSE IF \/ e.ctime + 1 >= MaxAge
          \/ e.state = "pending" /\ e.ctime + 1 >= MaxPending
  THEN [FreeEntry(e) EXCEPT !.ctime = @ + 1]
  ELSE [e EXCEPT !.ctime = @ + 1,
                 !.state = IF @ = "rerequesting" THEN "stable" ELSE @]

\* etharp_tmr, every five seconds.
Tmr ==
  /\ arp_table' = [i \in Entries |-> Aged(arp_table[i])]
  /\ out' = {}
  /\ asked' = {}
  /\ UNCHANGED <<etharp_cached_entry, up, announced>>

\* netif_set_down calls etharp_cleanup_netif, which looks at the interface
\* recorded in the entry; etharp_query does not record one.
NetifSetDown ==
  /\ up
  /\ up' = FALSE
  /\ arp_table' =
       [i \in Entries |-> IF i \notin Empty /\ arp_table[i].netif
                          THEN FreeEntry(arp_table[i]) ELSE arp_table[i]]
  /\ out' = {}
  /\ UNCHANGED <<etharp_cached_entry, announced, asked>>

\* netif_set_up; its gratuitous ARP does not touch the table.
NetifSetUp ==
  /\ ~up
  /\ up' = TRUE
  /\ out' = {}
  /\ UNCHANGED <<arp_table, etharp_cached_entry, announced, asked>>

-----------------------------------------------------------------------------
\* arp_table is static memory, all zero.
Init ==
  /\ arp_table = [i \in Entries |->
       [state |-> "empty", ipaddr |-> NULL, ethaddr |-> NULL, q |-> NULL,
        ctime |-> 0, netif |-> FALSE]]
  /\ etharp_cached_entry = 0
  /\ up = TRUE
  /\ out = {}
  /\ announced = [a \in Addrs |-> NULL]
  /\ asked = {}

Next ==
  \/ \E h \in Addrs \cup NonUnicast, m \in Macs, for_us, is_request \in BOOLEAN :
       ArpInput(h, m, for_us, is_request)
  \/ \E d \in Addrs, requested \in BOOLEAN :
       \/ OutputCached(d, requested)
       \/ OutputResolved(d, requested)
       \/ \E copied \in BOOLEAN : OutputQuery(d, requested, copied)
  \/ \E d \in NonUnicast : OutputNonUnicast(d)
  \/ Tmr
  \/ NetifSetDown
  \/ NetifSetUp

Spec == Init /\ [][Next]_vars

\* arp_timer reschedules itself: etharp_tmr runs for ever.
FairSpec == Spec /\ WF_vars(Tmr)

-----------------------------------------------------------------------------
(* Properties.                                                             *)

\* Types; ctime is a u8_t that must not reach the limits in a live entry.
TypeOK ==
  /\ arp_table \in [Entries -> Entry]
  /\ \A i \in Entries \ Empty : arp_table[i].ctime < MaxAge
  /\ \A i \in Pending : arp_table[i].ctime < MaxPending
  /\ etharp_cached_entry \in Entries
  /\ up \in BOOLEAN
  /\ out \subseteq Frame
  /\ announced \in [Addrs -> Macs \cup {NULL}]
  /\ asked \subseteq Addrs

\* An address has one entry, however entries are recycled: the search of
\* etharp_output and the one of etharp_find_entry cannot disagree.
UniqueEntries ==
  \A i, j \in Entries \ Empty :
    arp_table[i].ipaddr = arp_table[j].ipaddr => i = j

\* A packet is only held while its address is being resolved, on the entry of
\* its own next hop.  etharp_find_entry asserts "arp_table[i].q == NULL" of a
\* resolved entry.
HeldByNextHop ==
  \A i \in Entries :
    arp_table[i].q # NULL =>
      /\ arp_table[i].state = "pending"
      /\ arp_table[i].ipaddr = NextHop(arp_table[i].q)

\* A resolved entry has the MAC its address announced last.
ResolvedIsCurrent ==
  \A i \in Stable :
    /\ arp_table[i].ipaddr \in Addrs
    /\ arp_table[i].ethaddr # NULL
    /\ arp_table[i].ethaddr = announced[arp_table[i].ipaddr]

\* No IP packet leaves with the MAC of another host or an outdated one,
\* whatever the hint, recycling and held packets do.
FramesToCurrentMac ==
  \A f \in out :
    f.type = "ip" /\ f.dst \in Addrs => f.mac = announced[NextHop(f.dst)]

\* An entry that holds a packet gives way to another address only when all
\* entries hold packets (etharp_find_entry: "choose the least destructive
\* entry to recycle").
LeastDestructive ==
  [][\A i \in Holding :
       arp_table'[i].ipaddr # arp_table[i].ipaddr => Holding = Entries]_vars

\* A resolved address is requested at most once between two ticks, "to prevent
\* flooding the network with ARP requests" (etharp_output_to_arp_index).
NoFlood ==
  [][\A i \in Stable :
       Request(arp_table[i].ipaddr) \in out' => arp_table[i].ipaddr \notin asked]_vars

\* Why: an old entry that may be requested again has not been since the tick.
NotAskedYet ==
  \A i \in Entries :
    arp_table[i].state = "stable" /\ arp_table[i].ctime >= ReRequestAge =>
      arp_table[i].ipaddr \notin asked

\* A pending address does not stay pending, however often packets for it
\* are sent.
PendingEnds ==
  \A h \in Addrs :
    (\E i \in Pending : arp_table[i].ipaddr = h)
      ~> ~(\E i \in Pending : arp_table[i].ipaddr = h)

\* etharp_cleanup_netif: "Remove all ARP table entries of the specified
\* netif."
CleanupRemovesAll ==
  [][up /\ ~up' => \A i \in Entries : arp_table'[i].state = "empty"]_vars

=============================================================================
