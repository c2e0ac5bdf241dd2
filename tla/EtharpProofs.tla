---------------------------- MODULE EtharpProofs ----------------------------
(***************************************************************************)
(* Safety of address resolution for every table size, age limits and set   *)
(* of hosts.  The invariants of Etharp need each other: a held packet goes *)
(* out with the right MAC because it is held by the entry of its next hop, *)
(* the entry is found because it is the only one of its address, and so    *)
(* on.  Their conjunction Inv is inductive.                                *)
(***************************************************************************)
EXTENDS Etharp, TLAPS

Inv ==
  /\ TypeOK
  /\ UniqueEntries
  /\ HeldByNextHop
  /\ ResolvedIsCurrent
  /\ FramesToCurrentMac
  /\ NotAskedYet

-----------------------------------------------------------------------------
\* The next hop of a unicast packet is a unicast address.
LEMMA NextHopType ==
  ASSUME NEW d \in Addrs
  PROVE  NextHop(d) \in Addrs
BY AddrAssumption DEF NextHop

\* What etharp_find_entry leaves in the entry it returns.
LEMMA FoundFacts ==
  ASSUME TypeOK, HeldByNextHop, NEW h \in Addrs, NEW i \in Entries
  PROVE  /\ FoundEntry(h, i) \in Entry
         /\ FoundEntry(h, i).ipaddr = h
         /\ FoundEntry(h, i).q # NULL =>
              /\ NextHop(FoundEntry(h, i).q) = h
              /\ FoundEntry(h, i).q \in Addrs
         /\ i \notin Matches(h) => FoundEntry(h, i).ctime = 0
         /\ i \in Matches(h) => FoundEntry(h, i) = arp_table[i]
<1>1. arp_table[i] \in Entry
  BY DEF TypeOK
<1>2. CASE i \in Matches(h)
  BY <1>1, <1>2, AddrAssumption DEF FoundEntry, Matches, HeldByNextHop, Entry
<1>3. CASE i \notin Matches(h)
  <2>1. FoundEntry(h, i) = [arp_table[i] EXCEPT !.state = "empty", !.q = NULL,
                                                !.ipaddr = h, !.ctime = 0]
    BY <1>3 DEF FoundEntry
  <2>2. 0 \in Ages
    BY AgeAssumption DEF Ages
  <2> QED
    BY <1>1, <1>3, <2>1, <2>2, AddrAssumption DEF Entry, States
<1> QED
  BY <1>2, <1>3

\* The entry returned for h is the only one that can hold h afterwards.
LEMMA FindUnique ==
  ASSUME TypeOK, UniqueEntries, NEW h \in Addrs, NEW i \in Entries,
         FindEntry(h, i), NEW j \in Entries \ Empty, arp_table[j].ipaddr = h
  PROVE  i = j
BY DEF FindEntry, FirstOf, Matches, UniqueEntries, TypeOK

\* Writing an entry for h in the place etharp_find_entry returned keeps the
\* entries unique.
LEMMA WriteUnique ==
  ASSUME TypeOK, UniqueEntries, NEW h \in Addrs, NEW i \in Entries,
         FindEntry(h, i), NEW e \in Entry, e.ipaddr = h,
         arp_table' = [arp_table EXCEPT ![i] = e]
  PROVE  UniqueEntries'
<1> SUFFICES ASSUME NEW j \in (Entries \ Empty)', NEW k \in (Entries \ Empty)',
                    arp_table'[j].ipaddr = arp_table'[k].ipaddr
             PROVE  j = k
  BY DEF UniqueEntries
<1>1. j \in Entries /\ k \in Entries
  BY DEF Entries
<1>2. arp_table \in [Entries -> Entry]
  BY DEF TypeOK
<1>3. ASSUME NEW l \in (Entries \ Empty)', l # i
      PROVE  /\ arp_table'[l] = arp_table[l]
             /\ l \in Entries \ Empty
  BY <1>2, <1>3 DEF Empty, Entries
<1>4. arp_table'[i].ipaddr = h
  BY <1>2
<1>5. CASE j = i /\ k # i
  BY <1>1, <1>3, <1>4, <1>5, FindUnique
<1>6. CASE j # i /\ k = i
  BY <1>1, <1>3, <1>4, <1>6, FindUnique
<1>7. CASE j # i /\ k # i
  BY <1>1, <1>3, <1>7 DEF UniqueEntries
<1> QED
  BY <1>5, <1>6, <1>7

-----------------------------------------------------------------------------
\* etharp_arp_input preserves the invariants.
LEMMA ArpInputInv ==
  ASSUME Inv, NEW h \in Addrs \cup NonUnicast, NEW m \in Macs,
         NEW for_us \in BOOLEAN, NEW is_request \in BOOLEAN,
         ArpInput(h, m, for_us, is_request)
  PROVE  Inv'
<1> DEFINE reply == IF for_us /\ is_request THEN {Reply(h, m)} ELSE {}
<1>1. reply \subseteq Frame /\ \A f \in reply : f.type = "reply"
  BY DEF Reply, Frame
<1>2. /\ announced' = [a \in Addrs |-> IF a = h THEN m ELSE announced[a]]
      /\ etharp_cached_entry' = etharp_cached_entry
      /\ up' = up
      /\ asked' = asked
  BY DEF ArpInput
<1>3. announced' \in [Addrs -> Macs \cup {NULL}]
  BY <1>2 DEF Inv, TypeOK
<1>4. CASE ~(h \in Addrs /\ (for_us \/ Matches(h) # {}))
  <2>1. arp_table' = arp_table /\ out' = reply
    BY <1>4 DEF ArpInput
  <2>2. TypeOK' /\ UniqueEntries' /\ HeldByNextHop' /\ NotAskedYet'
    BY <1>1, <1>2, <1>3, <2>1
    DEF Inv, TypeOK, UniqueEntries, HeldByNextHop, NotAskedYet, Empty, Pending,
        NextHop
  <2>3. ResolvedIsCurrent'
    <3> SUFFICES ASSUME NEW i \in Stable
                 PROVE  announced'[arp_table[i].ipaddr] = announced[arp_table[i].ipaddr]
      BY <2>1 DEF Inv, ResolvedIsCurrent, Stable
    <3>1. arp_table[i].ipaddr \in Addrs /\ i \in Matches(arp_table[i].ipaddr)
      BY DEF Inv, ResolvedIsCurrent, Stable, Matches, Empty
    <3> QED
      BY <1>2, <1>4, <3>1
  <2>4. FramesToCurrentMac'
    BY <1>1, <2>1 DEF FramesToCurrentMac
  <2> QED
    BY <2>2, <2>3, <2>4 DEF Inv
<1>5. CASE h \in Addrs /\ (for_us \/ Matches(h) # {})
  <2>1. PICK i \in Entries :
          /\ FindEntry(h, i)
          /\ arp_table' = [arp_table EXCEPT ![i] = Updated(h, m, i)]
          /\ out' = reply \cup
               {IpFrame(d, m) : d \in {FoundEntry(h, i).q} \ {NULL}}
    BY <1>5 DEF ArpInput
  <2> DEFINE e == Updated(h, m, i)
  <2>2. /\ e \in Entry
        /\ e.state = "stable" /\ e.ipaddr = h /\ e.ethaddr = m
        /\ e.ctime = 0 /\ e.q = NULL
    <3>1. 0 \in Ages
      BY AgeAssumption DEF Ages
    <3>2. FoundEntry(h, i) \in Entry /\ FoundEntry(h, i).ipaddr = h
      BY <1>5, FoundFacts DEF Inv
    <3> QED
      BY <3>1, <3>2 DEF Updated, Entry, States
  <2> HIDE DEF e
  <2>3. arp_table' = [arp_table EXCEPT ![i] = e] /\ arp_table' \in [Entries -> Entry]
    BY <2>1, <2>2 DEF e, Inv, TypeOK
  <2>4. /\ arp_table'[i] = e
        /\ \A j \in Entries : j # i => arp_table'[j] = arp_table[j]
    BY <2>3 DEF Inv, TypeOK
  <2>5. out' \subseteq Frame
    <3>1. FoundEntry(h, i).q # NULL => FoundEntry(h, i).q \in Addrs
      BY <1>5, FoundFacts DEF Inv
    <3> QED
      BY <1>1, <2>1, <3>1 DEF IpFrame, Frame
  <2>6. TypeOK'
    BY <1>2, <1>3, <2>2, <2>3, <2>4, <2>5, AgeAssumption
    DEF Inv, TypeOK, Empty, Pending, Ages
  <2>7. UniqueEntries'
    BY <1>5, <2>1, <2>2, <2>3, WriteUnique DEF Inv
  <2>8. HeldByNextHop'
    BY <2>2, <2>4 DEF Inv, HeldByNextHop, NextHop
  <2>9. ResolvedIsCurrent'
    <3> SUFFICES ASSUME NEW j \in Stable'
                 PROVE  /\ arp_table'[j].ipaddr \in Addrs
                        /\ arp_table'[j].ethaddr # NULL
                        /\ arp_table'[j].ethaddr = announced'[arp_table'[j].ipaddr]
      BY DEF ResolvedIsCurrent
    <3>1. CASE j = i
      BY <1>2, <1>5, <2>2, <2>4, <3>1, AddrAssumption
    <3>2. CASE j # i
      <4>1. j \in Stable /\ arp_table'[j] = arp_table[j] /\ j \in Entries \ Empty
        BY <2>4, <3>2 DEF Stable, Empty
      <4>2. arp_table[j].ipaddr # h
        BY <1>5, <2>1, <3>2, <4>1, FindUnique DEF Inv
      <4> QED
        BY <1>2, <4>1, <4>2 DEF Inv, ResolvedIsCurrent
    <3> QED
      BY <3>1, <3>2
  <2>10. FramesToCurrentMac'
    <3> SUFFICES ASSUME NEW f \in out', f.type = "ip", f.dst \in Addrs
                 PROVE  f.mac = announced'[NextHop(f.dst)]
      BY DEF FramesToCurrentMac, NextHop
    <3>1. PICK d \in {FoundEntry(h, i).q} \ {NULL} : f = IpFrame(d, m)
      BY <1>1, <2>1
    <3>2. NextHop(d) = h
      BY <1>5, <3>1, FoundFacts DEF Inv
    <3> QED
      BY <1>2, <1>5, <3>1, <3>2 DEF IpFrame
  <2>11. NotAskedYet'
    BY <1>2, <2>2, <2>4, AgeAssumption DEF Inv, NotAskedYet
  <2> QED
    BY <2>6, <2>7, <2>8, <2>9, <2>10, <2>11 DEF Inv
<1> QED
  BY <1>4, <1>5

-----------------------------------------------------------------------------
\* Sending through a resolved entry of the next hop preserves the invariants.
LEMMA OutputToIndexInv ==
  ASSUME Inv, NEW d \in Addrs, NEW requested \in BOOLEAN, NEW i \in Stable,
         arp_table[i].ipaddr = NextHop(d),
         OutputToArpIndex(d, i, requested),
         etharp_cached_entry' \in Entries, up' = up, announced' = announced
  PROVE  Inv'
<1> DEFINE again == /\ arp_table[i].state = "stable"
                    /\ arp_table[i].ctime >= ReRequestAge
                    /\ requested
<1>1. /\ i \in Entries
      /\ arp_table \in [Entries -> Entry]
      /\ arp_table[i].ipaddr \in Addrs
      /\ arp_table[i].ethaddr = announced[NextHop(d)]
      /\ arp_table[i].ethaddr \in Macs
  BY DEF Inv, TypeOK, ResolvedIsCurrent, Stable, Entry
<1>2. out' \subseteq Frame /\ FramesToCurrentMac'
  <2>1. \A f \in out' : \/ f = IpFrame(d, arp_table[i].ethaddr)
                        \/ f = Request(arp_table[i].ipaddr)
    BY DEF OutputToArpIndex
  <2> QED
    BY <1>1, <2>1 DEF IpFrame, Request, Frame, FramesToCurrentMac, NextHop
<1>3. CASE again
  <2>1. /\ arp_table' = [arp_table EXCEPT ![i].state = "rerequesting"]
        /\ asked' = asked \cup {arp_table[i].ipaddr}
    BY <1>3 DEF OutputToArpIndex, ReRequest
  <2>2. /\ arp_table' \in [Entries -> Entry]
        /\ \A j \in Entries :
             /\ arp_table'[j].ipaddr = arp_table[j].ipaddr
             /\ arp_table'[j].ethaddr = arp_table[j].ethaddr
             /\ arp_table'[j].ctime = arp_table[j].ctime
             /\ arp_table'[j].q = arp_table[j].q
        /\ \A j \in Entries : j # i => arp_table'[j].state = arp_table[j].state
        /\ arp_table'[i].state = "rerequesting"
    BY <1>1, <2>1 DEF Entry, States
  <2>3. Empty' = Empty /\ Pending' = Pending /\ Stable' = Stable
    BY <1>3, <2>2 DEF Empty, Pending, Stable
  <2>4. asked' \subseteq Addrs
    BY <1>1, <2>1 DEF Inv, TypeOK
  <2>5. TypeOK'
    BY <1>2, <2>2, <2>3, <2>4 DEF Inv, TypeOK, Pending
  <2>6. UniqueEntries'
    BY <2>2, <2>3 DEF Inv, UniqueEntries
  <2>7. HeldByNextHop'
    BY <1>3, <2>2 DEF Inv, HeldByNextHop, NextHop
  <2>8. ResolvedIsCurrent'
    BY <2>2, <2>3 DEF Inv, ResolvedIsCurrent, Stable
  <2>9. NotAskedYet'
    <3> SUFFICES ASSUME NEW j \in Entries, arp_table'[j].state = "stable",
                        arp_table'[j].ctime >= ReRequestAge
                 PROVE  arp_table'[j].ipaddr \notin asked'
      BY DEF NotAskedYet
    <3>1. j # i /\ arp_table[j].state = "stable"
      BY <2>2
    <3>2. arp_table[j].ipaddr # arp_table[i].ipaddr
      BY <1>1, <1>3, <3>1 DEF Inv, UniqueEntries, Empty
    <3> QED
      BY <2>1, <2>2, <3>1, <3>2 DEF Inv, NotAskedYet
  <2> QED
    BY <1>2, <2>5, <2>6, <2>7, <2>8, <2>9 DEF Inv
<1>4. CASE ~again
  <2>1. arp_table' = arp_table /\ asked' = asked
    BY <1>4 DEF OutputToArpIndex, ReRequest
  <2> QED
    BY <1>2, <2>1 DEF Inv, TypeOK, UniqueEntries, HeldByNextHop, NotAskedYet,
        ResolvedIsCurrent, Empty, Pending, Stable, NextHop
<1> QED
  BY <1>3, <1>4

\* etharp_output, an entry is resolved.
LEMMA OutputResolvedInv ==
  ASSUME Inv, NEW d \in Addrs, NEW requested \in BOOLEAN,
         OutputCached(d, requested) \/ OutputResolved(d, requested)
  PROVE  Inv'
<1>1. CASE OutputCached(d, requested)
  BY <1>1, OutputToIndexInv DEF OutputCached, CachedHit, Inv, TypeOK
<1>2. CASE OutputResolved(d, requested)
  <2>1. PICK i \in Entries :
          /\ FirstOf({j \in Stable : arp_table[j].ipaddr = NextHop(d)}, i)
          /\ OutputToArpIndex(d, i, requested)
          /\ etharp_cached_entry' = i
    BY <1>2 DEF OutputResolved
  <2> QED
    BY <1>2, <2>1, OutputToIndexInv DEF OutputResolved, FirstOf
<1> QED
  BY <1>1, <1>2

\* etharp_query preserves the invariants.
LEMMA OutputQueryInv ==
  ASSUME Inv, NEW d \in Addrs, NEW requested \in BOOLEAN, NEW copied \in BOOLEAN,
         OutputQuery(d, requested, copied)
  PROVE  Inv'
<1> DEFINE h == NextHop(d)
<1>1. h \in Addrs
  BY NextHopType
<1>2. PICK i \in Entries :
        /\ FindEntry(h, i)
        /\ arp_table' = [arp_table EXCEPT ![i] = Queried(d, i, copied)]
  BY DEF OutputQuery
<1>3. /\ etharp_cached_entry' = etharp_cached_entry /\ up' = up
      /\ announced' = announced /\ asked' = asked
      /\ \A j \in Stable : arp_table[j].ipaddr # h
      /\ \A f \in out' : f = Request(h)
  BY DEF OutputQuery
<1> DEFINE e == Queried(d, i, copied)
<1>4. /\ e \in Entry
      /\ e.state = "pending" /\ e.ipaddr = h
      /\ e.ctime < MaxPending
      /\ e.q # NULL => NextHop(e.q) = h
  <2>1. /\ FoundEntry(h, i) \in Entry
        /\ FoundEntry(h, i).ipaddr = h
        /\ FoundEntry(h, i).q # NULL => NextHop(FoundEntry(h, i).q) = h
        /\ i \notin Matches(h) => FoundEntry(h, i).ctime = 0
        /\ i \in Matches(h) => FoundEntry(h, i) = arp_table[i]
    BY <1>1, FoundFacts DEF Inv
  <2>2. FoundEntry(h, i).ctime < MaxPending
    <3>1. CASE i \in Matches(h)
      BY <1>3, <2>1, <3>1
      DEF Inv, TypeOK, Matches, Stable, Empty, Pending, Entry, States
    <3>2. CASE i \notin Matches(h)
      BY <2>1, <3>2, AgeAssumption
    <3> QED
      BY <3>1, <3>2
  <2>3. e = [FoundEntry(h, i) EXCEPT !.state = "pending",
                                     !.q = IF copied THEN d ELSE @]
    BY DEF Queried
  <2> HIDE DEF h, e
  <2> QED
    <3>1. e \in Entry /\ e.state = "pending" /\ e.ipaddr = h
          /\ e.ctime = FoundEntry(h, i).ctime
      BY <2>1, <2>3 DEF Entry, States
    <3>2. e.q = IF copied THEN d ELSE FoundEntry(h, i).q
      BY <2>1, <2>3 DEF Entry
    <3> QED
      BY <2>1, <2>2, <3>1, <3>2 DEF h
<1> HIDE DEF e, h
<1>5. arp_table' = [arp_table EXCEPT ![i] = e] /\ arp_table' \in [Entries -> Entry]
  BY <1>2, <1>4 DEF e, Inv, TypeOK
<1>6. /\ arp_table'[i] = e
      /\ \A j \in Entries : j # i => arp_table'[j] = arp_table[j]
  BY <1>5 DEF Inv, TypeOK
<1>7. out' \subseteq Frame /\ FramesToCurrentMac'
  BY <1>1, <1>3 DEF Request, Frame, FramesToCurrentMac
<1>8. TypeOK'
  <2>1. e.ctime < MaxAge
    BY <1>4, AgeAssumption DEF Entry, Ages
  <2> QED
    BY <1>3, <1>4, <1>5, <1>6, <1>7, <2>1 DEF Inv, TypeOK, Empty, Pending
<1>9. UniqueEntries'
  BY <1>1, <1>2, <1>4, <1>5, WriteUnique DEF Inv
<1>10. HeldByNextHop'
  BY <1>4, <1>6 DEF Inv, HeldByNextHop, NextHop
<1>11. ResolvedIsCurrent' /\ NotAskedYet'
  BY <1>3, <1>4, <1>6 DEF Inv, ResolvedIsCurrent, NotAskedYet, Stable
<1> QED
  BY <1>7, <1>8, <1>9, <1>10, <1>11 DEF Inv

-----------------------------------------------------------------------------
\* What one tick does to an entry.
LEMMA AgedFacts ==
  ASSUME NEW e \in Entry,
         e.state # "empty" => e.ctime < MaxAge,
         e.state = "pending" => e.ctime < MaxPending
  PROVE  /\ Aged(e) \in Entry
         /\ Aged(e).ipaddr = e.ipaddr /\ Aged(e).ethaddr = e.ethaddr
         /\ Aged(e).state # "empty" => e.state # "empty" /\ Aged(e).ctime < MaxAge
         /\ Aged(e).state = "pending" =>
              e.state = "pending" /\ Aged(e).ctime < MaxPending
         /\ Aged(e).state \in {"stable", "rerequesting"} =>
              e.state \in {"stable", "rerequesting"}
         /\ Aged(e).q # NULL =>
              /\ Aged(e).q = e.q
              /\ e.state = "pending" => Aged(e).state = "pending"
<1>1. CASE e.state = "empty"
  BY <1>1 DEF Aged
<1>2. CASE e.state # "empty" /\ (\/ e.ctime + 1 >= MaxAge
                                 \/ e.state = "pending" /\ e.ctime + 1 >= MaxPending)
  <2>1. Aged(e) = [[e EXCEPT !.state = "empty", !.q = NULL] EXCEPT !.ctime = @ + 1]
    BY <1>2 DEF Aged, FreeEntry
  <2>2. e.ctime + 1 \in Ages
    BY <1>2, AgeAssumption DEF Entry, Ages
  <2> QED
    BY <2>1, <2>2 DEF Entry, States
<1>3. CASE e.state # "empty" /\ ~(\/ e.ctime + 1 >= MaxAge
                                  \/ e.state = "pending" /\ e.ctime + 1 >= MaxPending)
  <2>1. Aged(e) = [e EXCEPT !.ctime = @ + 1,
                            !.state = IF @ = "rerequesting" THEN "stable" ELSE @]
    BY <1>3 DEF Aged
  <2>2. e.ctime + 1 \in Ages /\ e.ctime + 1 < MaxAge
        /\ (e.state = "pending" => e.ctime + 1 < MaxPending)
    BY <1>3, AgeAssumption DEF Entry, Ages
  <2> QED
    BY <1>3, <2>1, <2>2 DEF Entry, States
<1> QED
  BY <1>1, <1>2, <1>3

\* etharp_tmr preserves the invariants.
LEMMA TmrInv ==
  ASSUME Inv, Tmr
  PROVE  Inv'
<1>1. /\ arp_table \in [Entries -> Entry]
      /\ \A i \in Entries :
           /\ arp_table[i] \in Entry
           /\ arp_table[i].state # "empty" => arp_table[i].ctime < MaxAge
           /\ arp_table[i].state = "pending" => arp_table[i].ctime < MaxPending
  BY DEF Inv, TypeOK, Empty, Pending
<1>2. /\ \A i \in Entries : arp_table'[i] = Aged(arp_table[i])
      /\ arp_table' \in [Entries -> Entry]
      /\ out' = {} /\ asked' = {} /\ announced' = announced /\ up' = up
      /\ etharp_cached_entry' = etharp_cached_entry
  BY <1>1, AgedFacts DEF Tmr
<1>3. TypeOK'
  BY <1>1, <1>2, AgedFacts DEF Inv, TypeOK, Empty, Pending
<1>4. UniqueEntries'
  BY <1>1, <1>2, AgedFacts DEF Inv, UniqueEntries, Empty
<1>5. HeldByNextHop'
  BY <1>1, <1>2, AgedFacts DEF Inv, HeldByNextHop, NextHop
<1>6. ResolvedIsCurrent'
  BY <1>1, <1>2, AgedFacts DEF Inv, ResolvedIsCurrent, Stable
<1>7. FramesToCurrentMac' /\ NotAskedYet'
  BY <1>2 DEF FramesToCurrentMac, NotAskedYet
<1> QED
  BY <1>3, <1>4, <1>5, <1>6, <1>7 DEF Inv

\* netif_set_down preserves the invariants.
LEMMA SetDownInv ==
  ASSUME Inv, NetifSetDown
  PROVE  Inv'
<1>1. arp_table \in [Entries -> Entry]
  BY DEF Inv, TypeOK
<1>2. /\ arp_table' \in [Entries -> Entry]
      /\ \A i \in Entries :
           \/ arp_table'[i] = arp_table[i]
           \/ /\ arp_table'[i].state = "empty"
              /\ arp_table'[i].q = NULL
  <2>1. /\ arp_table' \in [Entries -> Entry]
    BY <1>1 DEF NetifSetDown, FreeEntry, Entry, States
  <2>2. ASSUME NEW i \in Entries
        PROVE  \/ arp_table'[i] = arp_table[i]
               \/ arp_table'[i].state = "empty" /\ arp_table'[i].q = NULL
    BY <1>1, <2>2 DEF NetifSetDown, FreeEntry, Entry
  <2> QED
    BY <2>1, <2>2
<1>3. /\ out' = {} /\ asked' = asked /\ announced' = announced /\ up' = FALSE
      /\ etharp_cached_entry' = etharp_cached_entry
  BY DEF NetifSetDown
<1>4. TypeOK'
  BY <1>2, <1>3 DEF Inv, TypeOK, Empty, Pending
<1>5. UniqueEntries' /\ HeldByNextHop' /\ ResolvedIsCurrent'
  BY <1>2, <1>3 DEF Inv, UniqueEntries, HeldByNextHop, ResolvedIsCurrent, Empty,
                    Stable, NextHop
<1>6. FramesToCurrentMac' /\ NotAskedYet'
  BY <1>2, <1>3 DEF Inv, FramesToCurrentMac, NotAskedYet
<1> QED
  BY <1>4, <1>5, <1>6 DEF Inv

\* Steps that leave the table alone.
LEMMA SameTableInv ==
  ASSUME Inv, UNCHANGED <<arp_table, etharp_cached_entry, announced, asked>>,
         up' \in BOOLEAN, out' \subseteq Frame, FramesToCurrentMac'
  PROVE  Inv'
<1>1. TypeOK'
  BY DEF Inv, TypeOK, Empty, Pending
<1>2. UniqueEntries' /\ HeldByNextHop' /\ ResolvedIsCurrent' /\ NotAskedYet'
  BY DEF Inv, UniqueEntries, HeldByNextHop, NotAskedYet, ResolvedIsCurrent, Empty,
         Stable, NextHop
<1> QED
  BY <1>1, <1>2 DEF Inv

\* Inv is inductive.
LEMMA InvStep ==
  ASSUME Inv, [Next]_vars
  PROVE  Inv'
<1>1. ASSUME NEW d \in NonUnicast, OutputNonUnicast(d)
      PROVE  Inv'
  <2>1. out' \subseteq Frame /\ FramesToCurrentMac'
    BY <1>1, AddrAssumption DEF OutputNonUnicast, IpFrame, Frame, FramesToCurrentMac
  <2> QED
    BY <1>1, <2>1, SameTableInv DEF OutputNonUnicast, Inv, TypeOK
<1>2. CASE NetifSetUp
  <2>1. out' \subseteq Frame /\ FramesToCurrentMac'
    BY <1>2 DEF NetifSetUp, FramesToCurrentMac
  <2> QED
    BY <1>2, <2>1, SameTableInv DEF NetifSetUp
<1>3. CASE UNCHANGED vars
  BY <1>3 DEF vars, Inv, TypeOK, UniqueEntries, HeldByNextHop, NotAskedYet,
       ResolvedIsCurrent, FramesToCurrentMac, Empty, Pending, Stable, NextHop
<1> QED
  BY <1>1, <1>2, <1>3, ArpInputInv, OutputResolvedInv, OutputQueryInv, TmrInv,
     SetDownInv
  DEF Next

\* The empty table satisfies the invariants.
LEMMA InitInv ==
  ASSUME Init
  PROVE  Inv
<1>1. 0 \in Entries /\ 0 \in Ages
  BY AgeAssumption DEF Entries, Ages
<1>2. arp_table \in [Entries -> Entry] /\ \A i \in Entries : arp_table[i].state = "empty"
  BY <1>1 DEF Init, Entry, States
<1>3. TypeOK
  BY <1>1, <1>2 DEF Init, TypeOK, Empty, Pending
<1>4. HeldByNextHop
  BY DEF Init, HeldByNextHop
<1> QED
  BY <1>2, <1>3, <1>4 DEF Init, Inv, UniqueEntries, ResolvedIsCurrent, Empty,
     FramesToCurrentMac, NotAskedYet, Stable

\* Inv holds in every reachable state.
LEMMA InvAlways == Spec => []Inv
<1>1. Init => Inv
  BY InitInv
<1>2. Inv /\ [Next]_vars => Inv'
  BY InvStep
<1> QED
  BY <1>1, <1>2, PTL DEF Spec

-----------------------------------------------------------------------------
\* Types and ages.
THEOREM TypeCorrect == Spec => []TypeOK
<1>1. Inv => TypeOK
  BY DEF Inv
<1> QED
  BY <1>1, InvAlways, PTL

\* An address never has two entries, so an answer completes the entry that asked.
THEOREM OneEntryPerAddress == Spec => []UniqueEntries
<1>1. Inv => UniqueEntries
  BY DEF Inv
<1> QED
  BY <1>1, InvAlways, PTL

\* A packet is held only by the pending entry of its next hop.
THEOREM HeldForNextHop == Spec => []HeldByNextHop
<1>1. Inv => HeldByNextHop
  BY DEF Inv
<1> QED
  BY <1>1, InvAlways, PTL

\* A resolved entry has the MAC its address announced last.
THEOREM ResolvedHaveCurrentMac == Spec => []ResolvedIsCurrent
<1>1. Inv => ResolvedIsCurrent
  BY DEF Inv
<1> QED
  BY <1>1, InvAlways, PTL

\* No IP packet leaves with the MAC of another host or an outdated one.
THEOREM PacketsToCurrentMac == Spec => []FramesToCurrentMac
<1>1. Inv => FramesToCurrentMac
  BY DEF Inv
<1> QED
  BY <1>1, InvAlways, PTL

-----------------------------------------------------------------------------
\* Steps that keep all addresses keep them in the entries that hold packets.
LEMMA SameAddresses ==
  ASSUME Inv, Next,
         ~(\E h \in Addrs, i \in Entries, e \in Entry :
             /\ FindEntry(h, i)
             /\ e.ipaddr = h
             /\ arp_table' = [arp_table EXCEPT ![i] = e]),
         NEW j \in Entries
  PROVE  arp_table'[j].ipaddr = arp_table[j].ipaddr
<1>1. arp_table \in [Entries -> Entry] /\ arp_table[j] \in Entry
  BY DEF Inv, TypeOK
<1>2. ASSUME NEW h \in Addrs \cup NonUnicast, NEW m \in Macs,
             NEW for_us \in BOOLEAN, NEW is_request \in BOOLEAN,
             ArpInput(h, m, for_us, is_request)
      PROVE  arp_table' = arp_table
  <2>1. ASSUME h \in Addrs, NEW i \in Entries
        PROVE  Updated(h, m, i) \in Entry /\ Updated(h, m, i).ipaddr = h
    <3>1. 0 \in Ages
      BY AgeAssumption DEF Ages
    <3>2. FoundEntry(h, i) \in Entry /\ FoundEntry(h, i).ipaddr = h
      BY <2>1, FoundFacts DEF Inv
    <3> QED
      BY <3>1, <3>2 DEF Updated, Entry, States
  <2> QED
    BY <1>2, <2>1 DEF ArpInput
<1>3. ASSUME NEW d \in Addrs, NEW requested \in BOOLEAN, NEW copied \in BOOLEAN
      PROVE  ~OutputQuery(d, requested, copied)
  <2> SUFFICES ASSUME OutputQuery(d, requested, copied)
               PROVE  FALSE
    OBVIOUS
  <2>1. PICK i \in Entries :
          /\ FindEntry(NextHop(d), i)
          /\ arp_table' = [arp_table EXCEPT ![i] = Queried(d, i, copied)]
    BY DEF OutputQuery
  <2>2. FoundEntry(NextHop(d), i) \in Entry /\ FoundEntry(NextHop(d), i).ipaddr = NextHop(d)
    BY FoundFacts, NextHopType DEF Inv
  <2>3. Queried(d, i, copied) \in Entry /\ Queried(d, i, copied).ipaddr = NextHop(d)
    BY <2>2 DEF Queried, Entry, States
  <2> QED
    BY <2>1, <2>3, NextHopType
<1>4. ASSUME NEW i \in Entries, NEW requested \in BOOLEAN, ReRequest(i, requested)
      PROVE  arp_table'[j].ipaddr = arp_table[j].ipaddr
  BY <1>1, <1>4 DEF ReRequest, Entry
<1>5. ASSUME NEW d \in Addrs, NEW requested \in BOOLEAN,
             OutputCached(d, requested) \/ OutputResolved(d, requested)
      PROVE  arp_table'[j].ipaddr = arp_table[j].ipaddr
  BY <1>4, <1>5 DEF OutputCached, OutputResolved, OutputToArpIndex, CachedHit, Stable
<1>6. CASE Tmr
  <2>1. arp_table'[j] = Aged(arp_table[j])
    BY <1>6 DEF Tmr
  <2> QED
    BY <1>1, <2>1, AgedFacts DEF Inv, TypeOK, Empty, Pending
<1>7. CASE NetifSetDown
  BY <1>1, <1>7 DEF NetifSetDown, FreeEntry, Entry
<1>8. ASSUME NEW d \in NonUnicast, OutputNonUnicast(d)
      PROVE  arp_table' = arp_table
  BY <1>8 DEF OutputNonUnicast
<1>9. CASE NetifSetUp
  BY <1>9 DEF NetifSetUp
<1> QED
  BY <1>2, <1>3, <1>5, <1>6, <1>7, <1>8, <1>9 DEF Next

\* Recycling spares a held packet as long as any entry holds none.
THEOREM RecyclingSparesPackets == Spec => LeastDestructive
<1> DEFINE Spares ==
      \A i \in Holding :
        arp_table'[i].ipaddr # arp_table[i].ipaddr => Holding = Entries
<1>1. Inv /\ [Next]_vars => [Spares]_vars
  <2> SUFFICES ASSUME Inv, Next, NEW j \in Holding,
                      arp_table'[j].ipaddr # arp_table[j].ipaddr
               PROVE  Holding = Entries
    OBVIOUS
  <2>1. j \in Entries /\ j \in Pending /\ arp_table \in [Entries -> Entry]
    BY DEF Holding, Pending, Inv, TypeOK
  <2>2. PICK h \in Addrs, i \in Entries, e \in Entry :
          /\ FindEntry(h, i)
          /\ e.ipaddr = h
          /\ arp_table' = [arp_table EXCEPT ![i] = e]
    BY <2>1, SameAddresses
  <2>3. i = j /\ arp_table[i].ipaddr # h
    BY <2>1, <2>2
  <2>4. Recycle(j)
    BY <2>2, <2>3 DEF FindEntry, FirstOf, Matches
  <2>5. j \notin Empty /\ j \notin Stable
    BY <2>1 DEF Empty, Stable, Pending
  <2>6. Empty = {} /\ Stable = {} /\ Pending \ Holding = {}
    BY <2>4, <2>5 DEF Recycle, FirstOf, OldestOf
  <2>7. Entries \subseteq Empty \cup Stable \cup Pending
    BY <2>1 DEF Empty, Stable, Pending, Entry, States
  <2> QED
    BY <2>6, <2>7 DEF Holding, Pending
<1> QED
  BY <1>1, InvAlways, PTL DEF Spec, LeastDestructive

\* A resolved address is requested at most once between two ticks.
THEOREM RequestsDoNotFlood == Spec => NoFlood
<1> DEFINE Once ==
      \A i \in Stable :
        Request(arp_table[i].ipaddr) \in out' => arp_table[i].ipaddr \notin asked
<1>1. Inv /\ [Next]_vars => [Once]_vars
  <2> SUFFICES ASSUME Inv, Next, NEW j \in Stable,
                      Request(arp_table[j].ipaddr) \in out'
               PROVE  arp_table[j].ipaddr \notin asked
    OBVIOUS
  <2> DEFINE h == arp_table[j].ipaddr
  <2>1. ASSUME NEW d \in Addrs, NEW requested \in BOOLEAN, NEW i \in Stable,
               OutputToArpIndex(d, i, requested)
        PROVE  h \notin asked
    <3>1. /\ arp_table[i].state = "stable"
          /\ arp_table[i].ctime >= ReRequestAge
          /\ h = arp_table[i].ipaddr
      BY <2>1 DEF OutputToArpIndex, Request, IpFrame
    <3> QED
      BY <3>1 DEF Inv, NotAskedYet, Stable
  <2>2. ASSUME NEW g \in Addrs \cup NonUnicast, NEW m \in Macs,
               NEW for_us \in BOOLEAN, NEW is_request \in BOOLEAN
        PROVE  ~ArpInput(g, m, for_us, is_request)
    <3>1. ASSUME ArpInput(g, m, for_us, is_request), NEW f \in out'
          PROVE  f.type # "request"
      BY <3>1 DEF ArpInput, Reply, IpFrame
    <3> QED
      BY <3>1 DEF Request
  <2>3. ASSUME NEW d \in Addrs, NEW requested \in BOOLEAN, NEW copied \in BOOLEAN
        PROVE  ~OutputQuery(d, requested, copied)
    <3>1. ASSUME OutputQuery(d, requested, copied)
          PROVE  h = NextHop(d) /\ \A i \in Stable : arp_table[i].ipaddr # NextHop(d)
      BY <3>1 DEF OutputQuery, Request
    <3> QED
      BY <3>1
  <2>4. ASSUME NEW d \in NonUnicast
        PROVE  ~OutputNonUnicast(d)
    BY DEF OutputNonUnicast, IpFrame, Request
  <2>5. ~Tmr /\ ~NetifSetDown /\ ~NetifSetUp
    BY DEF Tmr, NetifSetDown, NetifSetUp
  <2> QED
    BY <2>1, <2>2, <2>3, <2>4, <2>5
    DEF Next, OutputCached, OutputResolved, CachedHit, FirstOf
<1> QED
  BY <1>1, InvAlways, PTL DEF Spec, NoFlood

=============================================================================
