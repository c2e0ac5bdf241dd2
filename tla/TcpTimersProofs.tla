--------------------------- MODULE TcpTimersProofs ---------------------------
(***************************************************************************)
(* The walk of tcp_slowtmr is safe for any number of blocks and any number *)
(* of restarts: it never follows a block that has left the list, and it    *)
(* handles each connection once.                                           *)
(*                                                                         *)
(* The inductive invariant says where on the list the walk is and what is  *)
(* known of the blocks it has passed.  A callback may change the list in   *)
(* any way, after which nothing is known of pcb and prev until the walk    *)
(* starts again; that is why changed is part of it.  That each block is    *)
(* handled once rests on the fast timer: it leaves its own number in all   *)
(* listed blocks, and the slow timer's number is the next one.             *)
(***************************************************************************)
EXTENDS TcpTimers, SequenceTheorems, TLAPS

Numbers == 0 .. CounterMod - 1

TypeOK ==
  /\ state \in [Pcbs -> {"FREE", "CLOSED", "ACTIVE"}]
  /\ active \in Seq(Pcbs)
  /\ last_timer \in [Pcbs -> Numbers]
  /\ tcp_timer_ctr \in Numbers
  /\ changed \in BOOLEAN
  /\ walk \in [at : {"idle", "fast", "slow", "callback"},
               pcb : Pcbs \cup {NULL}, prev : Pcbs \cup {NULL}]
  /\ due \subseteq Pcbs
  /\ handled \in [Pcbs -> {0, 1}]

\* A block is on the list once, and only while it is in use.
Listing ==
  /\ \A i, j \in 1 .. Len(active) : active[i] = active[j] => i = j
  /\ \A i \in 1 .. Len(active) : state[active[i]] = "ACTIVE"

\* The block at place j; the end of the list is one place behind the last block.
At(j) == IF j = Len(active) + 1 THEN NULL ELSE active[j]

\* pcb is at place j, prev is before it, and what has been passed is done.
SlowAt(j) ==
  /\ walk.pcb = At(j)
  /\ walk.prev = NULL \/ \E i \in 1 .. j - 1 : active[i] = walk.prev
  /\ \A i \in 1 .. j - 1 : active[i] \notin due

FastAt(j) ==
  /\ walk.pcb = At(j)
  /\ \A i \in 1 .. j - 1 : last_timer[active[i]] = tcp_timer_ctr

Undisturbed == walk.at = "slow" \/ (walk.at = "callback" /\ ~changed)

WalkPlace ==
  /\ Undisturbed => \E j \in 1 .. Len(active) + 1 : SlowAt(j)
  /\ walk.at = "fast" => \E j \in 1 .. Len(active) + 1 : FastAt(j)

\* The number of this call tells the blocks it has handled from those still due.
Marked ==
  walk.at \in {"slow", "callback"} =>
    \A p \in Pcbs : /\ handled[p] = 1 => last_timer[p] = tcp_timer_ctr
                    /\ p \in due => last_timer[p] # tcp_timer_ctr /\ state[p] = "ACTIVE"

Inv == TypeOK /\ Listing /\ WalkPlace /\ Marked

-----------------------------------------------------------------------------
(* The list                                                                *)

\* Two neighbouring numbers of a counter differ.
LEMMA IncrementFacts ==
  ASSUME NEW n \in Numbers
  PROVE  Increment(n) \in Numbers /\ Increment(n) # n
<1>1. CASE n + 1 < CounterMod
  BY <1>1, CounterAssumption DEF Increment, Numbers
<1>2. CASE n + 1 = CounterMod
  BY <1>2, CounterAssumption DEF Increment, Numbers
<1> QED
  BY <1>1, <1>2, CounterAssumption DEF Numbers

\* Concatenation, element by element.
LEMMA ConcatFacts ==
  ASSUME NEW S, NEW a \in Seq(S), NEW b \in Seq(S)
  PROVE  /\ a \o b \in Seq(S)
         /\ Len(a \o b) = Len(a) + Len(b)
         /\ \A k \in 1 .. Len(a) : (a \o b)[k] = a[k]
         /\ \A k \in 1 .. Len(b) : (a \o b)[Len(a) + k] = b[k]
OBVIOUS

\* A block in front of a list.
LEMMA FrontFacts ==
  ASSUME NEW S, NEW s \in Seq(S), NEW e \in S
  PROVE  /\ <<e>> \o s \in Seq(S)
         /\ Head(<<e>> \o s) = e /\ <<e>> \o s # <<>>
         /\ Len(<<e>> \o s) = Len(s) + 1
         /\ (<<e>> \o s)[1] = e
         /\ \A k \in 1 .. Len(s) : (<<e>> \o s)[k + 1] = s[k]
OBVIOUS

\* What is left of a list when the places from i + 1 to j are cut out of it.
LEMMA Cut ==
  ASSUME NEW S, NEW s \in Seq(S), NEW j \in 1 .. Len(s), NEW i \in 0 .. j - 1
  PROVE  LET t == SubSeq(s, 1, i) \o SubSeq(s, j + 1, Len(s))
         IN  /\ t \in Seq(S)
             /\ Len(t) = i + Len(s) - j
             /\ \A k \in 1 .. i : t[k] = s[k]
             /\ \A k \in 1 .. Len(s) - j : t[i + k] = s[j + k]
<1> DEFINE a == SubSeq(s, 1, i)
           b == SubSeq(s, j + 1, Len(s))
<1>1. Len(s) \in Nat /\ \A k \in 1 .. Len(s) : s[k] \in S
  BY LenProperties, ElementOfSeq
<1>2. a \in Seq(S) /\ Len(a) = i
  BY <1>1, SubSeqProperties
<1>3. b \in Seq(S) /\ Len(b) = Len(s) - j
  BY <1>1, SubSeqProperties
<1>4. ASSUME NEW k \in 1 .. i
      PROVE  a[k] = s[k]
  BY <1>1, <1>4, SubSeqProperties
<1>5. ASSUME NEW k \in 1 .. Len(s) - j
      PROVE  b[k] = s[j + k]
  BY <1>1, <1>5, SubSeqProperties
<1> HIDE DEF a, b
<1>6. /\ a \o b \in Seq(S)
      /\ Len(a \o b) = Len(a) + Len(b)
      /\ \A k \in 1 .. Len(a) : (a \o b)[k] = a[k]
      /\ \A k \in 1 .. Len(b) : (a \o b)[Len(a) + k] = b[k]
  <2>1. a \in Seq(S) /\ b \in Seq(S)
    BY <1>2, <1>3
  <2> QED
    BY <2>1, ConcatFacts
<1>7. /\ a \o b \in Seq(S)
      /\ Len(a \o b) = i + Len(s) - j
      /\ \A k \in 1 .. i : (a \o b)[k] = s[k]
      /\ \A k \in 1 .. Len(s) - j : (a \o b)[i + k] = s[j + k]
  <2>1. a \o b \in Seq(S) /\ Len(a \o b) = i + Len(b)
    BY <1>2, <1>6
  <2>2. i + Len(b) = i + Len(s) - j
    BY <1>1, <1>3
  <2>3. \A k \in 1 .. i : (a \o b)[k] = s[k]
    BY <1>2, <1>4, <1>6, Zenon
  <2>4. \A k \in 1 .. Len(s) - j : (a \o b)[i + k] = s[j + k]
    BY <1>2, <1>3, <1>5, <1>6, Zenon
  <2> QED
    BY <2>1, <2>2, <2>3, <2>4, Zenon
<1> QED
  BY <1>7 DEF a, b

\* The search for a block finds its place.
LEMMA PlaceFacts ==
  ASSUME TypeOK, Listing, NEW k \in 1 .. Len(active)
  PROVE  /\ Place(active[k]) = k
         /\ active[k] \in Pcbs /\ active[k] # NULL
         /\ active[k] \in Listed
         /\ FirstOf(After(active[k])) = At(k + 1)
<1>1. DOMAIN active = 1 .. Len(active)
  BY DEF TypeOK
<1>2. Place(active[k]) = k
  BY <1>1 DEF Place, Listing
<1>3. active[k] \in Pcbs /\ active[k] # NULL
  BY PcbAssumption DEF TypeOK
<1>4. active[k] \in Listed
  BY <1>1 DEF Listed, Range
<1>5. After(active[k]) = SubSeq(active, k + 1, Len(active))
  BY <1>2 DEF After
<1>6. FirstOf(After(active[k])) = At(k + 1)
  <2>1. CASE k = Len(active)
    BY <1>5, <2>1, SubSeqEmpty DEF FirstOf, At, TypeOK
  <2>2. CASE k < Len(active)
    <3>1. SubSeq(active, k + 1, Len(active)) = <<active[k + 1]>> \o SubSeq(active, k + 2, Len(active))
      BY <2>2, SubSeqRecursiveFirst DEF TypeOK
    <3>2. SubSeq(active, k + 2, Len(active)) \in Seq(Pcbs) /\ active[k + 1] \in Pcbs
      BY <2>2 DEF TypeOK
    <3>3. Head(After(active[k])) = active[k + 1] /\ After(active[k]) # <<>>
      <4>1. /\ Head(<<active[k + 1]>> \o SubSeq(active, k + 2, Len(active))) = active[k + 1]
            /\ <<active[k + 1]>> \o SubSeq(active, k + 2, Len(active)) # <<>>
        BY <3>2, FrontFacts
      <4> QED
        BY <1>5, <3>1, <4>1, Zenon
    <3> QED
      BY <2>2, <3>3 DEF FirstOf, At, TypeOK
  <2> QED
    BY <2>1, <2>2
<1> QED
  BY <1>2, <1>3, <1>4, <1>6

\* The walk starts at the first place.
LEMMA FirstPlace ==
  ASSUME TypeOK
  PROVE  FirstOf(active) = At(1)
BY DEF TypeOK, FirstOf, At

\* A block that the walk has reached is at the walk's place.
LEMMA AtFacts ==
  ASSUME TypeOK, Listing, NEW j \in 1 .. Len(active) + 1
  PROVE  /\ At(j) \in Pcbs \cup {NULL}
         /\ At(j) # NULL => j \in 1 .. Len(active) /\ active[j] = At(j)
         /\ At(j) = NULL => j = Len(active) + 1
BY PlaceFacts DEF At, TypeOK

\* t is the list without the places from i + 1 to j.
IsCut(t, i, j) ==
  /\ t \in Seq(Pcbs)
  /\ Len(t) = i + Len(active) - j
  /\ \A k \in 1 .. i : t[k] = active[k]
  /\ \A k \in 1 .. Len(active) - j : t[i + k] = active[j + k]

LEMMA CutIs ==
  ASSUME TypeOK, NEW j \in 1 .. Len(active), NEW i \in 0 .. j - 1
  PROVE  IsCut(SubSeq(active, 1, i) \o SubSeq(active, j + 1, Len(active)), i, j)
<1>1. active \in Seq(Pcbs)
  BY DEF TypeOK
<1> QED
  BY <1>1, Cut, Zenon DEF IsCut

\* Cutting places out of the list leaves each other block on it once.
LEMMA CutKeeps ==
  ASSUME TypeOK, Listing, NEW j \in 1 .. Len(active), NEW i \in 0 .. j - 1, NEW t,
         IsCut(t, i, j)
  PROVE  /\ t \in Seq(Pcbs)
         /\ \A k, m \in 1 .. Len(t) : t[k] = t[m] => k = m
         /\ \A k \in 1 .. Len(t) : \E m \in 1 .. Len(active) : t[k] = active[m] /\ m # j
         /\ i <= Len(t) /\ \A k \in 1 .. i : t[k] = active[k]
         /\ (IF i + 1 = Len(t) + 1 THEN NULL ELSE t[i + 1]) = At(j + 1)
<1> DEFINE Old(k) == IF k <= i THEN k ELSE k + (j - i)
<1>0. active \in Seq(Pcbs) /\ Len(active) \in Nat
  BY DEF TypeOK
<1>1. /\ t \in Seq(Pcbs)
      /\ Len(t) = i + Len(active) - j
      /\ \A k \in 1 .. i : t[k] = active[k]
      /\ \A k \in 1 .. Len(active) - j : t[i + k] = active[j + k]
  BY DEF IsCut
<1>2. ASSUME NEW k \in 1 .. Len(t)
      PROVE  Old(k) \in 1 .. Len(active) /\ Old(k) # j /\ t[k] = active[Old(k)]
  <2>1. CASE k <= i
    BY <1>0, <1>1, <2>1
  <2>2. CASE k > i
    <3>1. k - i \in 1 .. Len(active) - j /\ i + (k - i) = k /\ j + (k - i) = Old(k)
      BY <1>0, <1>1, <2>2
    <3>2. t[i + (k - i)] = active[j + (k - i)]
      BY <1>1, <3>1
    <3>3. Old(k) \in 1 .. Len(active) /\ Old(k) # j
      BY <1>0, <1>1, <2>2
    <3> QED
      BY <3>1, <3>2, <3>3
  <2> QED
    BY <2>1, <2>2
<1> HIDE DEF Old
<1>3. ASSUME NEW k \in 1 .. Len(t), NEW m \in 1 .. Len(t), t[k] = t[m]
      PROVE  k = m
  <2>1. Old(k) = Old(m)
    BY <1>2, <1>3 DEF Listing
  <2> QED
    BY <1>0, <1>1, <2>1 DEF Old
<1>4. (IF i + 1 = Len(t) + 1 THEN NULL ELSE t[i + 1]) = At(j + 1)
  <2>1. CASE j = Len(active)
    BY <1>0, <1>1, <2>1 DEF At
  <2>2. CASE j < Len(active)
    <3>1. 1 \in 1 .. Len(active) - j
      BY <1>0, <2>2
    <3>2. t[i + 1] = active[j + 1]
      BY <1>1, <3>1
    <3>3. Len(t) # i /\ j + 1 # Len(active) + 1
      BY <1>0, <1>1, <2>2
    <3> QED
      BY <1>0, <1>1, <3>2, <3>3 DEF At
  <2> QED
    BY <1>0, <2>1, <2>2
<1>5. \A k \in 1 .. Len(t) : \E m \in 1 .. Len(active) : t[k] = active[m] /\ m # j
  BY <1>2
<1>6. i <= Len(t)
  BY <1>0, <1>1
<1> QED
  BY <1>1, <1>3, <1>4, <1>5, <1>6

\* TCP_RMV takes the block off the list and no other.
LEMMA WithoutFacts ==
  ASSUME TypeOK, Listing, NEW p \in Pcbs
  PROVE  /\ Without(p) \in Seq(Pcbs)
         /\ \A k, m \in 1 .. Len(Without(p)) : Without(p)[k] = Without(p)[m] => k = m
         /\ \A k \in 1 .. Len(Without(p)) :
               \E m \in 1 .. Len(active) : Without(p)[k] = active[m] /\ active[m] # p
<1>1. CASE p \in Listed
  <2>1. PICK j \in 1 .. Len(active) : active[j] = p
    BY <1>1 DEF Listed, Range, TypeOK
  <2>2. Place(p) = j
    BY <2>1, PlaceFacts
  <2>3. j - 1 \in 0 .. j - 1
    BY <2>1 DEF TypeOK
  <2>4. Without(p) = SubSeq(active, 1, j - 1) \o SubSeq(active, j + 1, Len(active))
    BY <1>1, <2>2 DEF Without, After
  <2>5. IsCut(Without(p), j - 1, j)
    BY <2>3, <2>4, CutIs
  <2>6. /\ Without(p) \in Seq(Pcbs)
        /\ \A k, m \in 1 .. Len(Without(p)) : Without(p)[k] = Without(p)[m] => k = m
        /\ \A k \in 1 .. Len(Without(p)) :
              \E m \in 1 .. Len(active) : Without(p)[k] = active[m] /\ m # j
    BY <2>3, <2>5, CutKeeps
  <2> QED
    BY <2>1, <2>6 DEF Listing
<1>2. CASE p \notin Listed
  <2>1. Without(p) = active
    BY <1>2 DEF Without
  <2>2. \A k \in 1 .. Len(active) : active[k] # p
    BY <1>2, PlaceFacts
  <2> QED
    BY <2>1, <2>2 DEF TypeOK, Listing
<1> QED
  BY <1>1, <1>2

-----------------------------------------------------------------------------
(* The invariant                                                           *)

LEMMA InitInv == Init => Inv
<1> SUFFICES ASSUME Init PROVE Inv
  OBVIOUS
<1>1. active \in Seq(Pcbs) /\ Len(active) = 0
  BY DEF Init
<1>2. TypeOK
  <2>1. 0 \in Numbers
    BY CounterAssumption DEF Numbers
  <2>2. walk \in [at : {"idle", "fast", "slow", "callback"},
                 pcb : Pcbs \cup {NULL}, prev : Pcbs \cup {NULL}]
    BY DEF Init, Idle
  <2> QED
    BY <1>1, <2>1, <2>2 DEF Init, TypeOK
<1>3. Listing
  BY <1>1 DEF Listing
<1> QED
  BY <1>2, <1>3 DEF Init, Inv, Idle, WalkPlace, Undisturbed, Marked

\* The walk moves on from place j to the next one; it leaves prev, or sets it to the block.
LEMMA MoveOn ==
  ASSUME TypeOK, Listing, NEW j \in 1 .. Len(active) + 1, SlowAt(j), walk.pcb # NULL,
         active' = active, active[j] \notin due', due' \subseteq due,
         walk'.pcb = FirstOf(After(walk.pcb)), walk'.prev \in {walk.prev, walk.pcb}
  PROVE  j \in 1 .. Len(active) /\ walk.pcb = active[j] /\ SlowAt(j + 1)'
<1>1. j \in 1 .. Len(active) /\ walk.pcb = active[j]
  BY AtFacts DEF SlowAt
<1>2. walk'.pcb = At(j + 1)'
  BY <1>1, PlaceFacts DEF At
<1>3. Len(active) \in Nat
  BY DEF TypeOK
<1>4. \A i \in 1 .. j : active[i] \notin due'
  BY <1>1, <1>3 DEF SlowAt
<1>5. walk'.prev = NULL \/ \E i \in 1 .. j : active[i] = walk'.prev
  BY <1>1, <1>3 DEF SlowAt
<1>6. (j + 1) - 1 = j
  BY <1>3
<1> QED
  BY <1>1, <1>2, <1>4, <1>5, <1>6 DEF SlowAt

LEMMA NextInv == Inv /\ [Next]_vars => Inv'
<1> SUFFICES ASSUME Inv, [Next]_vars PROVE Inv'
  OBVIOUS
<1> USE PcbAssumption
<1>t. TypeOK /\ Listing /\ active \in Seq(Pcbs) /\ Len(active) \in Nat
  BY DEF Inv, TypeOK
<1>1. ASSUME NEW p \in Pcbs, Alloc(p)
      PROVE  Inv'
  <2>1. TypeOK'
    BY <1>1 DEF Inv, TypeOK, Alloc
  <2>2. Listing'
    BY <1>1, <1>t DEF Listing, TypeOK, Alloc
  <2>3. WalkPlace'
    <3>1. walk.at # "fast"
      BY <1>1 DEF Alloc, MayRun
    <3>2. ASSUME NEW j \in 1 .. Len(active) + 1, SlowAt(j)
          PROVE  SlowAt(j)'
      BY <1>1, <3>2 DEF Alloc, SlowAt, At
    <3> QED
      BY <1>1, <3>1, <3>2 DEF Inv, Alloc, WalkPlace, Undisturbed
  <2>4. Marked'
    BY <1>1 DEF Inv, TypeOK, Alloc, Marked
  <2> QED
    BY <2>1, <2>2, <2>3, <2>4 DEF Inv
<1>2. ASSUME NEW p \in Pcbs, Register(p)
      PROVE  Inv'
  <2>0. /\ active' \in Seq(Pcbs)
        /\ Len(active') = Len(active) + 1
        /\ active'[1] = p
        /\ \A k \in 1 .. Len(active) : active'[k + 1] = active[k]
    <3> DEFINE q == <<p>> \o active
    <3>1. active' = q
      BY <1>2 DEF Register
    <3>2. active \in Seq(Pcbs)
      BY <1>t DEF TypeOK
    <3>3. /\ q \in Seq(Pcbs) /\ Len(q) = Len(active) + 1 /\ q[1] = p
          /\ \A k \in 1 .. Len(active) : q[k + 1] = active[k]
      BY <3>2, FrontFacts
    <3> HIDE DEF q
    <3> QED
      BY <3>1, <3>3, Zenon
  <2>1. TypeOK'
    BY <1>2, <2>0 DEF Inv, TypeOK, Register
  <2>2. Listing'
    <3>1. \A k \in 1 .. Len(active) : active[k] # p /\ state'[active[k]] = "ACTIVE"
      <4>1. state[p] = "CLOSED" /\ state' = [state EXCEPT ![p] = "ACTIVE"]
        BY <1>2 DEF Register
      <4>2. \A k \in 1 .. Len(active) : state[active[k]] = "ACTIVE" /\ active[k] \in Pcbs
        BY <1>t DEF Listing
      <4> QED
        BY <1>t, <4>1, <4>2 DEF TypeOK
    <3>2. ASSUME NEW i \in 1 .. Len(active')
          PROVE  \/ i = 1 /\ active'[i] = p
                 \/ i - 1 \in 1 .. Len(active) /\ active'[i] = active[i - 1]
      <4>1. CASE i = 1
        BY <2>0, <4>1
      <4>2. CASE i # 1
        <5>1. i - 1 \in 1 .. Len(active) /\ (i - 1) + 1 = i
          BY <1>t, <2>0, <4>2
        <5> QED
          BY <2>0, <5>1
      <4> QED
        BY <4>1, <4>2
    <3>3. ASSUME NEW i \in 1 .. Len(active'), NEW j \in 1 .. Len(active'), active'[i] = active'[j]
          PROVE  i = j
      <4>1. CASE i = 1 \/ j = 1
        BY <3>1, <3>2, <3>3, <4>1
      <4>2. CASE i # 1 /\ j # 1
        <5>1. i - 1 = j - 1
          BY <1>t, <3>2, <3>3, <4>2 DEF Listing
        <5> QED
          BY <5>1, <2>0, <1>t
      <4> QED
        BY <4>1, <4>2
    <3>4. state'[p] = "ACTIVE"
      BY <1>2, <1>t DEF Register, TypeOK
    <3> QED
      BY <3>1, <3>2, <3>3, <3>4 DEF Listing
  <2>3. WalkPlace'
    BY <1>2 DEF Register, MayRun, WalkPlace, Undisturbed
  <2>4. Marked'
    BY <1>2 DEF Inv, TypeOK, Register, Marked
  <2> QED
    BY <2>1, <2>2, <2>3, <2>4 DEF Inv
<1>3. ASSUME NEW p \in Pcbs, GiveBack(p)
      PROVE  Inv'
  <2>1. TypeOK'
    BY <1>3, <1>t, WithoutFacts DEF TypeOK, GiveBack
  <2>2. Listing'
    <3>1. active' = Without(p)
      BY <1>3 DEF GiveBack
    <3>2. ASSUME NEW k \in 1 .. Len(active')
          PROVE  state'[active'[k]] = "ACTIVE"
      <4>1. PICK m \in 1 .. Len(active) : active'[k] = active[m] /\ active[m] # p
        BY <1>t, <3>1, WithoutFacts
      <4> QED
        BY <1>3, <1>t, <4>1 DEF Listing, TypeOK, GiveBack
    <3>3. \A k, m \in 1 .. Len(active') : active'[k] = active'[m] => k = m
      <4>1. \A k, m \in 1 .. Len(Without(p)) : Without(p)[k] = Without(p)[m] => k = m
        BY <1>t, WithoutFacts
      <4> QED
        BY <3>1, <4>1
    <3> QED
      BY <3>2, <3>3 DEF Listing
  <2>3. WalkPlace'
    <3>1. CASE state[p] = "ACTIVE"
      BY <1>3, <3>1 DEF GiveBack, MayRun, WalkPlace, Undisturbed
    <3>2. CASE state[p] # "ACTIVE"
      <4>1. active' = active
        <5>1. p \notin Listed
          BY <1>t, <3>2 DEF Listing, Listed, Range
        <5> QED
          BY <1>3, <5>1 DEF GiveBack, Without
      <4>2. ASSUME NEW j \in 1 .. Len(active) + 1, SlowAt(j)
            PROVE  SlowAt(j)'
        BY <1>3, <4>1, <4>2 DEF GiveBack, SlowAt, At
      <4> QED
        BY <1>3, <3>2, <4>1, <4>2 DEF Inv, GiveBack, MayRun, WalkPlace, Undisturbed
    <3> QED
      BY <3>1, <3>2
  <2>4. Marked'
    BY <1>3 DEF Inv, TypeOK, GiveBack, Marked
  <2> QED
    BY <2>1, <2>2, <2>3, <2>4 DEF Inv
<1>4. CASE Tick
  <2>1. TypeOK'
    BY <1>4, <1>t, IncrementFacts, FirstPlace, AtFacts DEF TypeOK, Tick, Starting
  <2>2. Listing'
    BY <1>4, <1>t DEF Listing, Tick
  <2>3. WalkPlace'
    <3>1. FastAt(1)'
      BY <1>4, <1>t, FirstPlace DEF Tick, FastAt, At, Starting
    <3> QED
      BY <1>4, <1>t, <3>1 DEF Tick, WalkPlace, Undisturbed, Starting
  <2>4. Marked'
    BY <1>4 DEF Tick, Marked, Starting
  <2> QED
    BY <2>1, <2>2, <2>3, <2>4 DEF Inv
<1>5. CASE FastHandle
  <2>1. PICK j \in 1 .. Len(active) + 1 : FastAt(j)
    BY <1>5 DEF FastHandle, Inv, WalkPlace
  <2>2. j \in 1 .. Len(active) /\ walk.pcb = active[j] /\ active[j] \in Pcbs
    BY <1>5, <1>t, <2>1, AtFacts, PlaceFacts DEF FastHandle, FastAt
  <2>3. walk' = [walk EXCEPT !.pcb = At(j + 1)] /\ j + 1 \in 1 .. Len(active) + 1
    <3>1. FirstOf(After(walk.pcb)) = At(j + 1)
      BY <1>t, <2>2, PlaceFacts
    <3>2. j + 1 \in 1 .. Len(active) + 1
      BY <1>t, <2>2
    <3> QED
      BY <1>5, <3>1, <3>2, Zenon DEF FastHandle
  <2>4. At(j + 1) \in Pcbs \cup {NULL}
    BY <1>t, <2>3, AtFacts
  <2>5. TypeOK'
    BY <1>5, <1>t, <2>2, <2>3, <2>4 DEF TypeOK, FastHandle
  <2>6. Listing'
    BY <1>5, <1>t DEF Listing, FastHandle
  <2>7. WalkPlace'
    <3>1. ASSUME NEW i \in 1 .. j
          PROVE  last_timer'[active[i]] = tcp_timer_ctr
      BY <1>5, <1>t, <2>1, <2>2 DEF TypeOK, FastHandle, FastAt
    <3>2. (j + 1) - 1 = j
      BY <2>2, <1>t
    <3>3. FastAt(j + 1)'
      BY <1>5, <1>t, <2>3, <3>1, <3>2 DEF TypeOK, FastHandle, FastAt, At
    <3> QED
      BY <1>5, <1>t, <2>3, <3>3 DEF TypeOK, FastHandle, WalkPlace, Undisturbed
  <2>8. Marked'
    BY <1>5, <1>t, <2>3 DEF TypeOK, FastHandle, Marked
  <2> QED
    BY <2>5, <2>6, <2>7, <2>8 DEF Inv
<1>6. CASE FastEnd
  <2>1. PICK j \in 1 .. Len(active) + 1 : FastAt(j)
    BY <1>6 DEF FastEnd, Inv, WalkPlace
  <2>2. \A i \in 1 .. Len(active) : last_timer[active[i]] = tcp_timer_ctr
    BY <1>6, <1>t, <2>1, AtFacts DEF FastEnd, FastAt
  <2>3. Listed = {active[i] : i \in 1 .. Len(active)}
    BY <1>t DEF Listed, Range
  <2>4. Listing'
    BY <1>6, <1>t DEF Listing, FastEnd
  <2>5. CASE tcp_timer' = 1
    <3>1. /\ tcp_timer_ctr' = Increment(tcp_timer_ctr)
          /\ walk' = Starting("slow", active)
          /\ due' = Listed
          /\ handled' = [p \in Pcbs |-> 0]
          /\ UNCHANGED <<usage, state, active, last_timer, changed>>
      BY <1>6, <2>5 DEF FastEnd
    <3>2. TypeOK'
      <4>1. FirstOf(active) \in Pcbs \cup {NULL}
        BY <1>t, FirstPlace, AtFacts
      <4>2. Listed \subseteq Pcbs
        BY <1>t, <2>3
      <4> QED
        BY <1>t, <3>1, <4>1, <4>2, IncrementFacts DEF TypeOK, Starting
    <3>3. WalkPlace'
      <4>1. SlowAt(1)'
        BY <1>t, <3>1, FirstPlace DEF SlowAt, At, Starting
      <4> QED
        BY <1>t, <3>1, <4>1 DEF WalkPlace, Undisturbed, Starting
    <3>4. Marked'
      <4>1. tcp_timer_ctr' # tcp_timer_ctr
        BY <1>t, <3>1, IncrementFacts DEF TypeOK
      <4> QED
        BY <1>t, <2>2, <2>3, <3>1, <4>1 DEF Marked, Listing
    <3> QED
      BY <2>4, <3>2, <3>3, <3>4 DEF Inv
  <2>6. CASE tcp_timer' # 1
    <3>1. walk' = Idle /\ UNCHANGED <<tcp_timer_ctr, due, handled, usage, state, active, last_timer, changed>>
      BY <1>6, <2>6 DEF FastEnd
    <3>2. TypeOK'
      BY <1>t, <3>1 DEF TypeOK, Idle
    <3>3. WalkPlace' /\ Marked'
      BY <3>1 DEF WalkPlace, Undisturbed, Marked, Idle
    <3> QED
      BY <2>4, <3>2, <3>3 DEF Inv
  <2> QED
    BY <2>5, <2>6
<1>7. CASE SlowSkip
  <2>1. PICK j \in 1 .. Len(active) + 1 : SlowAt(j)
    BY <1>7 DEF SlowSkip, Inv, WalkPlace, Undisturbed
  <2>2. j \in 1 .. Len(active) /\ walk.pcb = active[j] /\ active[j] \in Pcbs
    BY <1>7, <1>t, <2>1, AtFacts, PlaceFacts DEF SlowSkip, SlowAt
  <2>3. walk' = [walk EXCEPT !.pcb = At(j + 1)] /\ j + 1 \in 1 .. Len(active) + 1
    <3>1. FirstOf(After(walk.pcb)) = At(j + 1)
      BY <1>t, <2>2, PlaceFacts
    <3>2. j + 1 \in 1 .. Len(active) + 1
      BY <1>t, <2>2
    <3> QED
      BY <1>7, <3>1, <3>2, Zenon DEF SlowSkip
  <2>4. TypeOK'
    BY <1>7, <1>t, <2>3, AtFacts DEF TypeOK, SlowSkip
  <2>5. Listing'
    BY <1>7, <1>t DEF Listing, SlowSkip
  <2>6. WalkPlace'
    <3>1. active[j] \notin due
      BY <1>7, <2>2 DEF Inv, Marked, SlowSkip
    <3>2. SlowAt(j + 1)'
      BY <1>7, <1>t, <2>1, <3>1, MoveOn DEF SlowSkip, TypeOK
    <3> QED
      BY <1>7, <1>t, <2>3, <3>2 DEF SlowSkip, TypeOK, WalkPlace, Undisturbed
  <2>7. Marked'
    BY <1>7, <1>t DEF Inv, Marked, SlowSkip
  <2> QED
    BY <2>4, <2>5, <2>6, <2>7 DEF Inv
<1>8. ASSUME NEW p \in Pcbs, SlowMeets(p)
      PROVE  /\ p \notin due' /\ due' \subseteq due
             /\ last_timer' \in [Pcbs -> Numbers] /\ handled' \in [Pcbs -> {0, 1}]
             /\ \A q \in Pcbs : /\ handled'[q] = 1 => last_timer'[q] = tcp_timer_ctr'
                                /\ q \in due' => /\ q # p /\ state[q] = "ACTIVE"
                                                /\ last_timer'[q] # tcp_timer_ctr'
             /\ tcp_timer_ctr' = tcp_timer_ctr
  <2>1. handled[p] = 0
    BY <1>8, <1>t DEF Inv, Marked, SlowMeets, TypeOK
  <2>2. handled' = [handled EXCEPT ![p] = 1]
    BY <1>8, <1>t, <2>1 DEF SlowMeets, Marks, TypeOK
  <2> QED
    BY <1>8, <1>t, <2>2 DEF Inv, Marked, SlowMeets, Marks, TypeOK
<1>9. ASSUME NEW p \in Pcbs, SlowKeep(p)
      PROVE  Inv'
  <2>0. SlowMeets(p)
    BY <1>9 DEF SlowKeep
  <2>1. PICK j \in 1 .. Len(active) + 1 : SlowAt(j)
    BY <2>0 DEF SlowMeets, Inv, WalkPlace, Undisturbed
  <2>2. j \in 1 .. Len(active) /\ walk.pcb = active[j] /\ active[j] = p
    BY <2>0, <1>t, <2>1, AtFacts DEF SlowMeets, SlowAt
  <2>3. walk' = [walk EXCEPT !.pcb = At(j + 1), !.prev = p] /\ j + 1 \in 1 .. Len(active) + 1
    <3>1. FirstOf(After(p)) = At(j + 1)
      BY <1>t, <2>2, PlaceFacts
    <3>2. j + 1 \in 1 .. Len(active) + 1
      BY <1>t, <2>2
    <3> QED
      BY <1>9, <3>1, <3>2, Zenon DEF SlowKeep
  <2>4. TypeOK'
    <3>1. At(j + 1) \in Pcbs \cup {NULL}
      BY <1>t, <2>3, AtFacts
    <3>2. walk' \in [at : {"idle", "fast", "slow", "callback"},
                     pcb : Pcbs \cup {NULL}, prev : Pcbs \cup {NULL}]
      BY <1>t, <2>3, <3>1 DEF TypeOK
    <3> QED
      BY <1>8, <1>9, <1>t, <2>0, <3>2 DEF TypeOK, SlowKeep
  <2>5. Listing'
    BY <1>9, <1>t DEF Listing, SlowKeep
  <2>6. WalkPlace'
    <3>1. walk'.pcb = FirstOf(After(walk.pcb)) /\ walk'.prev = walk.pcb /\ walk'.at = "slow"
      BY <1>9, <1>t, <2>2 DEF SlowKeep, SlowMeets, TypeOK
    <3>2. SlowAt(j + 1)'
      BY <1>8, <1>9, <1>t, <2>0, <2>1, <2>2, <3>1, MoveOn DEF SlowKeep
    <3> QED
      BY <1>9, <1>t, <2>3, <3>1, <3>2 DEF SlowKeep, WalkPlace, Undisturbed
  <2>7. Marked'
    BY <1>8, <1>9, <2>0 DEF SlowKeep, Marked
  <2> QED
    BY <2>4, <2>5, <2>6, <2>7 DEF Inv
<1>10. ASSUME NEW p \in Pcbs, SlowGiveUp(p)
       PROVE  Inv'
  <2>0. SlowMeets(p)
    BY <1>10 DEF SlowGiveUp
  <2>1. PICK j \in 1 .. Len(active) + 1 : SlowAt(j)
    BY <2>0 DEF SlowMeets, Inv, WalkPlace, Undisturbed
  <2>2. j \in 1 .. Len(active) /\ walk.pcb = active[j] /\ active[j] = p
    BY <2>0, <1>t, <2>1, AtFacts DEF SlowMeets, SlowAt
  <2>3. \E i \in 0 .. j - 1 : /\ UpTo(walk.prev) = SubSeq(active, 1, i)
                              /\ walk.prev = NULL \/ (i > 0 /\ active[i] = walk.prev)
    <3>1. CASE walk.prev = NULL
      <4>1. UpTo(walk.prev) = SubSeq(active, 1, 0)
        BY <1>t, <3>1, SubSeqEmpty DEF UpTo
      <4> QED
        BY <1>t, <2>2, <3>1, <4>1
    <3>2. CASE walk.prev # NULL
      <4>1. PICK i \in 1 .. j - 1 : active[i] = walk.prev
        BY <2>1, <3>2 DEF SlowAt
      <4>2. i \in 1 .. Len(active) /\ i \in 0 .. j - 1
        BY <1>t, <2>2
      <4>3. UpTo(walk.prev) = SubSeq(active, 1, i)
        BY <1>t, <3>2, <4>1, <4>2, PlaceFacts DEF UpTo
      <4> QED
        BY <4>1, <4>2, <4>3
    <3> QED
      BY <3>1, <3>2
  <2>4. PICK i \in 0 .. j - 1 : /\ UpTo(walk.prev) = SubSeq(active, 1, i)
                                /\ walk.prev = NULL \/ (i > 0 /\ active[i] = walk.prev)
    BY <2>3
  <2>5. After(p) = SubSeq(active, j + 1, Len(active))
    BY <1>t, <2>2, PlaceFacts DEF After
  <2>6. active' = SubSeq(active, 1, i) \o SubSeq(active, j + 1, Len(active))
    <3>1. active' = UpTo(walk.prev) \o After(p)
      BY <1>10 DEF SlowGiveUp
    <3>2. UpTo(walk.prev) = SubSeq(active, 1, i)
      BY <2>4
    <3> QED
      BY <2>5, <3>1, <3>2, Zenon
  <2>7. IsCut(active', i, j)
    BY <1>t, <2>2, <2>6, CutIs
  <2>8. /\ active' \in Seq(Pcbs)
        /\ \A k, m \in 1 .. Len(active') : active'[k] = active'[m] => k = m
        /\ \A k \in 1 .. Len(active') : \E m \in 1 .. Len(active) : active'[k] = active[m] /\ m # j
        /\ i <= Len(active') /\ \A k \in 1 .. i : active'[k] = active[k]
        /\ (IF i + 1 = Len(active') + 1 THEN NULL ELSE active'[i + 1]) = At(j + 1)
    BY <1>t, <2>2, <2>7, CutKeeps
  <2>9. /\ walk'.at = "callback" /\ walk'.pcb = At(j + 1) /\ walk'.prev = walk.prev
        /\ changed' = FALSE /\ state' = [state EXCEPT ![p] = "FREE"]
    BY <1>10, <1>t, <2>2, PlaceFacts DEF SlowGiveUp, TypeOK
  <2>10. TypeOK'
    <3>1. At(j + 1) \in Pcbs \cup {NULL}
      BY <1>t, <2>2, AtFacts
    <3>2. walk' = [walk EXCEPT !.at = "callback", !.pcb = At(j + 1)]
      BY <1>10, <1>t, <2>2, PlaceFacts DEF SlowGiveUp
    <3>3. walk' \in [at : {"idle", "fast", "slow", "callback"},
                     pcb : Pcbs \cup {NULL}, prev : Pcbs \cup {NULL}]
      BY <1>t, <3>1, <3>2 DEF TypeOK
    <3> QED
      BY <1>8, <1>t, <2>0, <2>8, <2>9, <3>3 DEF TypeOK
  <2>11. Listing'
    <3>1. ASSUME NEW k \in 1 .. Len(active')
          PROVE  state'[active'[k]] = "ACTIVE"
      <4>1. PICK m \in 1 .. Len(active) : active'[k] = active[m] /\ m # j
        BY <2>8
      <4>2. active[m] # p /\ active[m] \in Pcbs /\ state[active[m]] = "ACTIVE"
        BY <1>t, <2>2, <4>1 DEF Listing
      <4> QED
        BY <1>t, <2>9, <4>1, <4>2 DEF TypeOK
    <3> QED
      BY <2>8, <3>1 DEF Listing
  <2>12. WalkPlace'
    <3>1. i + 1 \in 1 .. Len(active') + 1 /\ (i + 1) - 1 = i
      BY <2>8
    <3>2. \A k \in 1 .. i : active'[k] \notin due'
      <4>1. \A k \in 1 .. i : k \in 1 .. j - 1
        BY <1>t, <2>2
      <4> QED
        BY <1>8, <2>0, <2>1, <2>8, <4>1 DEF SlowAt
    <3>3. walk'.prev = NULL \/ \E k \in 1 .. i : active'[k] = walk'.prev
      <4>1. walk'.prev = walk.prev
        BY <2>9
      <4>2. CASE i > 0 /\ active[i] = walk.prev
        <5>1. i \in 1 .. i
          BY <4>2, <2>4
        <5>2. active'[i] = active[i]
          BY <2>8, <5>1
        <5> QED
          BY <4>1, <4>2, <5>1, <5>2, Zenon
      <4> QED
        BY <2>4, <4>1, <4>2, Zenon
    <3>4. SlowAt(i + 1)'
      BY <2>8, <2>9, <3>1, <3>2, <3>3 DEF SlowAt, At
    <3> QED
      BY <2>9, <3>1, <3>4 DEF WalkPlace
  <2>13. Marked'
    BY <1>8, <1>t, <2>0, <2>9 DEF Marked, TypeOK
  <2> QED
    BY <2>10, <2>11, <2>12, <2>13 DEF Inv
<1>11. CASE CallbackEnds
  <2>0. UNCHANGED <<usage, state, active, last_timer, tcp_timer_ctr, tcp_timer, changed, due, handled>>
    BY <1>11 DEF CallbackEnds
  <2>1. CASE changed
    <3>1. walk' = Starting("slow", active)
      BY <1>11, <2>1 DEF CallbackEnds
    <3>2. TypeOK'
      BY <1>t, <2>0, <3>1, FirstPlace, AtFacts DEF TypeOK, Starting
    <3>3. SlowAt(1)'
      BY <1>t, <2>0, <3>1, FirstPlace DEF SlowAt, At, Starting
    <3>4. Listing' /\ Marked'
      BY <1>11, <1>t, <2>0 DEF CallbackEnds, Inv, Listing, Marked
    <3> QED
      BY <1>t, <2>0, <3>1, <3>2, <3>3, <3>4 DEF Inv, WalkPlace, Undisturbed, Starting
  <2>2. CASE ~changed
    <3>1. walk' = [walk EXCEPT !.at = "slow"]
      BY <1>11, <2>2 DEF CallbackEnds
    <3>2. walk'.pcb = walk.pcb /\ walk'.prev = walk.prev /\ walk'.at = "slow"
      BY <1>t, <3>1 DEF TypeOK
    <3>3. TypeOK'
      BY <1>t, <2>0, <3>1 DEF TypeOK
    <3>4. PICK j \in 1 .. Len(active) + 1 : SlowAt(j)
      BY <1>11, <2>2 DEF CallbackEnds, Inv, WalkPlace, Undisturbed
    <3>5. SlowAt(j)'
      BY <2>0, <3>2, <3>4 DEF SlowAt, At
    <3>6. Listing' /\ Marked'
      BY <1>11, <1>t, <2>0 DEF CallbackEnds, Inv, Listing, Marked
    <3> QED
      BY <2>0, <3>2, <3>3, <3>5, <3>6 DEF Inv, WalkPlace
  <2> QED
    BY <2>1, <2>2
<1>12. CASE SlowEnd
  <2>1. TypeOK'
    BY <1>12, <1>t DEF TypeOK, SlowEnd, Idle
  <2>2. Listing'
    BY <1>12, <1>t DEF Listing, SlowEnd
  <2> QED
    BY <1>12, <2>1, <2>2 DEF Inv, SlowEnd, Idle, WalkPlace, Undisturbed, Marked
<1>13. CASE UNCHANGED vars
  <2>1. TypeOK' /\ Listing' /\ Marked'
    BY <1>13 DEF Inv, vars, TypeOK, Listing, Marked
  <2>2. WalkPlace'
    <3>1. ASSUME NEW j \in 1 .. Len(active) + 1
          PROVE  (SlowAt(j) => SlowAt(j)') /\ (FastAt(j) => FastAt(j)')
      BY <1>13 DEF vars, SlowAt, FastAt, At
    <3> QED
      BY <1>13, <3>1 DEF Inv, vars, WalkPlace, Undisturbed
  <2> QED
    BY <2>1, <2>2 DEF Inv
<1> QED
  BY <1>1, <1>2, <1>3, <1>4, <1>5, <1>6, <1>7, <1>9, <1>10, <1>11, <1>12, <1>13
  DEF Next, Timers, FastSpin

-----------------------------------------------------------------------------
(* The theorems                                                            *)

THEOREM InvHolds == Spec => []Inv
BY InitInv, NextInv, PTL DEF Spec

\* Whatever the error callbacks do to the list, tcp_slowtmr looks only at blocks that are on
\* it, and prev is one of the blocks before pcb when it unlinks.
THEOREM WalkSafe == Spec => []WalkListed
<1>1. Inv => WalkListed
  <2> SUFFICES ASSUME Inv, walk.at = "slow", walk.pcb # NULL
               PROVE  /\ walk.pcb \in Listed
                      /\ walk.prev # NULL => \E i, j \in DOMAIN active :
                             i < j /\ active[i] = walk.prev /\ active[j] = walk.pcb
    BY DEF WalkListed
  <2>1. TypeOK /\ Listing /\ DOMAIN active = 1 .. Len(active) /\ Len(active) \in Nat
    BY DEF Inv, TypeOK
  <2>2. PICK j \in 1 .. Len(active) + 1 : SlowAt(j)
    BY DEF Inv, WalkPlace, Undisturbed
  <2>3. j \in 1 .. Len(active) /\ walk.pcb = active[j] /\ active[j] \in Listed
    BY <2>1, <2>2, AtFacts, PlaceFacts DEF SlowAt
  <2>4. ASSUME walk.prev # NULL
        PROVE  \E i \in DOMAIN active : i < j /\ active[i] = walk.prev
    BY <2>1, <2>2, <2>3, <2>4 DEF SlowAt
  <2> QED
    BY <2>1, <2>3, <2>4
<1> QED
  BY <1>1, InvHolds, PTL

\* A slow timer counts the ticks of each connection once, restarts included.
THEOREM HandledOnceEach == Spec => []HandledOnce
<1>1. Inv => HandledOnce
  <2> SUFFICES ASSUME Inv PROVE HandledOnce
    OBVIOUS
  <2>1. TypeOK /\ Listing /\ DOMAIN active = 1 .. Len(active) /\ Len(active) \in Nat
    BY DEF Inv, TypeOK
  <2>2. ASSUME NEW p \in Pcbs
        PROVE  handled[p] <= 1
    <3>1. handled[p] \in {0, 1}
      BY <2>1 DEF TypeOK
    <3> QED
      BY <3>1
  <2>3. ASSUME walk.at = "slow", walk.pcb = NULL
        PROVE  due \cap Listed = {}
    <3>1. PICK j \in 1 .. Len(active) + 1 : SlowAt(j)
      BY <2>3 DEF Inv, WalkPlace, Undisturbed
    <3>2. j = Len(active) + 1
      BY <2>1, <2>3, <3>1, AtFacts DEF SlowAt
    <3>3. \A i \in 1 .. Len(active) : active[i] \notin due
      BY <2>1, <3>1, <3>2 DEF SlowAt
    <3> QED
      BY <2>1, <3>3 DEF Listed, Range
  <2> QED
    BY <2>2, <2>3 DEF HandledOnce
<1> QED
  BY <1>1, InvHolds, PTL

=============================================================================
