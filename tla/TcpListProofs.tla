---------------------------- MODULE TcpListProofs ----------------------------
(***************************************************************************)
(* The linked lists of TcpPcbs, for any number of blocks.                  *)
(*                                                                         *)
(* Reach, the set of the blocks a walk along the next fields meets, is the *)
(* least set that holds the first block and the successors of its members. *)
(* That it is the least one is the induction principle of this module: to  *)
(* show that all blocks of a walk have a property, show that the first has *)
(* it and that each one hands it to its successor.                         *)
(*                                                                         *)
(* The second half says what TCP_REG, TCP_RMV, the reordering of tcp_input *)
(* and the unlinking of tcp_slowtmr do to a list without a circle.         *)
(***************************************************************************)
EXTENDS TcpPcbs, FiniteSetTheorems, WellFoundedInduction, TLAPS

\* The walk along the function n; Reach(t, r) is the walk along t.next.
Walk(n, r) ==
  {p \in Pcbs : \A S \in SUBSET Pcbs :
     (r \in S \cup {NULL} /\ \A q \in S : n[q] \in S \cup {NULL}) => p \in S}

Links == [Pcbs -> Pointer]

\* No block of the walk is met again behind itself.
NoCircle(n, r) == \A q \in Walk(n, r) : q \notin Walk(n, n[q])

LEMMA ReachIsWalk == \A t, r : Reach(t, r) = Walk(t.next, r)
BY DEF Reach, Walk

\* A walk holds its first block and with each block the next one.
LEMMA WalkStable ==
  ASSUME NEW n \in Links, NEW r \in Pointer
  PROVE  /\ Walk(n, r) \subseteq Pcbs
         /\ r \in Walk(n, r) \cup {NULL}
         /\ \A q \in Walk(n, r) : n[q] \in Walk(n, r) \cup {NULL}
<1>1. Walk(n, r) \subseteq Pcbs
  BY DEF Walk
<1>2. r \in Walk(n, r) \cup {NULL}
  BY DEF Walk, Pointer
<1>3. ASSUME NEW q \in Walk(n, r), n[q] # NULL
      PROVE  n[q] \in Walk(n, r)
  <2>1. q \in Pcbs /\ n[q] \in Pcbs
    BY <1>1, <1>3 DEF Links, Pointer
  <2>2. ASSUME NEW S \in SUBSET Pcbs,
               r \in S \cup {NULL}, \A x \in S : n[x] \in S \cup {NULL}
        PROVE  n[q] \in S
    <3>1. q \in S
      BY <2>2 DEF Walk
    <3> QED
      BY <1>3, <2>2, <3>1
  <2> QED
    BY <2>1, <2>2 DEF Walk
<1> QED
  BY <1>1, <1>2, <1>3

\* It is the least such set.
LEMMA WalkLeast ==
  ASSUME NEW n, NEW r, NEW S \in SUBSET Pcbs,
         r \in S \cup {NULL}, \A q \in S : n[q] \in S \cup {NULL}
  PROVE  Walk(n, r) \subseteq S
BY DEF Walk

LEMMA WalkNull ==
  ASSUME NEW n
  PROVE  Walk(n, NULL) = {}
<1> DEFINE S == {}
<1>1. S \in SUBSET Pcbs /\ NULL \in S \cup {NULL} /\ \A q \in S : n[q] \in S \cup {NULL}
  OBVIOUS
<1> HIDE DEF S
<1>2. Walk(n, NULL) \subseteq S
  BY <1>1, WalkLeast
<1> QED
  BY <1>2 DEF S

\* From any of its blocks a walk meets only blocks it meets anyway.
LEMMA WalkOn ==
  ASSUME NEW n \in Links, NEW r \in Pointer, NEW q, q \in Walk(n, r) \cup {NULL}
  PROVE  Walk(n, q) \subseteq Walk(n, r)
BY WalkStable, WalkLeast

\* A walk is its first block and the walk from the next one.
LEMMA WalkUnfold ==
  ASSUME NEW n \in Links, NEW r \in Pcbs
  PROVE  Walk(n, r) = {r} \cup Walk(n, n[r])
<1> DEFINE S == {r} \cup Walk(n, n[r])
<1>0. r \in Pointer /\ n[r] \in Pointer /\ r # NULL
  BY PoolAssumption DEF Links, Pointer
<1>1. S \subseteq Walk(n, r)
  <2>1. r \in Walk(n, r) /\ n[r] \in Walk(n, r) \cup {NULL}
    BY <1>0, WalkStable
  <2>2. Walk(n, n[r]) \subseteq Walk(n, r)
    BY <1>0, <2>1, WalkOn
  <2> QED
    BY <2>1, <2>2
<1>2. Walk(n, r) \subseteq S
  <2>1. S \in SUBSET Pcbs
    BY <1>0, WalkStable
  <2>2. ASSUME NEW q \in S
        PROVE  n[q] \in S \cup {NULL}
    BY <1>0, WalkStable
  <2>3. r \in S \cup {NULL}
    OBVIOUS
  <2> HIDE DEF S
  <2> QED
    BY <2>1, <2>2, <2>3, WalkLeast
<1> QED
  BY <1>1, <1>2

\* A walk depends only on the next fields of the blocks it meets.
LEMMA WalkFrame ==
  ASSUME NEW n \in Links, NEW m \in Links, NEW r \in Pointer,
         \A q \in Walk(n, r) : m[q] = n[q]
  PROVE  Walk(m, r) = Walk(n, r)
<1>1. Walk(m, r) \subseteq Walk(n, r)
  <2>1. /\ Walk(n, r) \in SUBSET Pcbs /\ r \in Walk(n, r) \cup {NULL}
        /\ \A q \in Walk(n, r) : m[q] \in Walk(n, r) \cup {NULL}
    BY WalkStable
  <2> QED
    BY <2>1, WalkLeast
<1>2. Walk(n, r) \subseteq Walk(m, r)
  <2>1. /\ Walk(m, r) \in SUBSET Pcbs /\ r \in Walk(m, r) \cup {NULL}
        /\ \A q \in Walk(m, r) : n[q] \in Walk(m, r) \cup {NULL}
    BY <1>1, WalkStable
  <2> QED
    BY <2>1, WalkLeast
<1> QED
  BY <1>1, <1>2

\* The same for the absence of circles.
LEMMA CircleFrame ==
  ASSUME NEW n \in Links, NEW m \in Links, NEW r \in Pointer,
         \A q \in Walk(n, r) : m[q] = n[q], NoCircle(n, r)
  PROVE  NoCircle(m, r)
<1> SUFFICES ASSUME NEW q \in Walk(m, r) PROVE q \notin Walk(m, m[q])
  BY DEF NoCircle
<1>1. q \in Walk(n, r) /\ m[q] = n[q] /\ n[q] \in Walk(n, r) \cup {NULL} /\ n[q] \in Pointer
  BY WalkFrame, WalkStable DEF Pointer
<1>2. Walk(n, n[q]) \subseteq Walk(n, r)
  BY <1>1, WalkOn
<1>3. Walk(m, n[q]) = Walk(n, n[q])
  BY <1>1, <1>2, WalkFrame
<1> QED
  BY <1>1, <1>3 DEF NoCircle

\* Part of a walk without a circle has none.
LEMMA CircleOn ==
  ASSUME NEW n \in Links, NEW r \in Pointer, NEW q, q \in Walk(n, r) \cup {NULL}, NoCircle(n, r)
  PROVE  NoCircle(n, q)
BY WalkOn DEF NoCircle

\* A walk without a circle comes to an end: the block from which the fewest are met is the
\* last one.
LEMMA WalkEnds ==
  ASSUME NEW n \in Links, NEW r \in Pcbs, NoCircle(n, r)
  PROVE  \E p \in Walk(n, r) : n[p] = NULL
<1> DEFINE Length(p) == Cardinality(Walk(n, p))
           Lengths == {Length(p) : p \in Walk(n, r)}
<1>0. r \in Pointer /\ r # NULL /\ r \in Walk(n, r) /\ Walk(n, r) \subseteq Pcbs /\ Pcbs \subseteq Pointer
  BY PoolAssumption, WalkStable DEF Pointer
<1>1. ASSUME NEW p \in Pointer
      PROVE  IsFiniteSet(Walk(n, p)) /\ Length(p) \in Nat
  <2>1. Walk(n, p) \subseteq Pcbs
    BY WalkStable
  <2> QED
    BY <2>1, PoolAssumption, FS_Subset, FS_CardinalityType
<1>2. Lengths \subseteq Nat /\ Lengths # {}
  BY <1>0, <1>1
<1>3. PICK k \in Lengths : \A i \in Lengths : ~(i < k)
  <2>1. PICK k \in Lengths : \A i \in Lengths : ~(<<i, k>> \in OpToRel(<, Nat))
    <3> HIDE DEF Lengths
    <3> QED
      BY <1>2, NatLessThanWellFounded, WFMin
  <2> QED
    BY <1>2, <2>1 DEF OpToRel
<1>4. PICK p \in Walk(n, r) : k = Length(p)
  BY <1>3
<1>5. ASSUME n[p] # NULL
      PROVE  FALSE
  <2>1. p \in Pcbs /\ n[p] \in Walk(n, r) /\ n[p] \in Pointer
    BY <1>0, <1>5, WalkStable DEF Links
  <2>2. Walk(n, p) = {p} \cup Walk(n, n[p]) /\ p \notin Walk(n, n[p])
    BY <2>1, WalkUnfold DEF NoCircle
  <2>3. Length(n[p]) < Length(p)
    <3>1. /\ IsFiniteSet(Walk(n, p)) /\ Walk(n, n[p]) \subseteq Walk(n, p)
          /\ Walk(n, n[p]) # Walk(n, p)
      BY <1>0, <1>1, <2>1, <2>2
    <3>2. /\ Length(n[p]) <= Length(p)
          /\ Length(p) = Length(n[p]) => Walk(n, p) = Walk(n, n[p])
      BY <3>1, FS_Subset
    <3>3. Length(p) \in Nat /\ Length(n[p]) \in Nat
      BY <1>0, <1>1, <2>1
    <3> QED
      BY <3>1, <3>2, <3>3
  <2> QED
    BY <1>3, <1>4, <2>1, <2>3
<1> QED
  BY <1>5

-----------------------------------------------------------------------------
(* Registering and removing                                                *)

\* TCP_REG puts a block that is not met in front of those that are.
LEMMA WalkReg ==
  ASSUME NEW n \in Links, NEW h \in Pointer, NEW p \in Pcbs, p \notin Walk(n, h),
         NEW m, m = [n EXCEPT ![p] = h]
  PROVE  /\ m \in Links
         /\ Walk(m, p) = {p} \cup Walk(n, h)
         /\ NoCircle(n, h) => NoCircle(m, p)
<1>1. m \in Links /\ m[p] = h /\ \A q \in Pcbs : q # p => m[q] = n[q]
  BY DEF Links
<1>2. \A q \in Walk(n, h) : m[q] = n[q]
  BY <1>1, WalkStable
<1>3. Walk(m, h) = Walk(n, h)
  BY <1>1, <1>2, WalkFrame
<1>4. Walk(m, p) = {p} \cup Walk(n, h)
  <2>1. Walk(m, p) = {p} \cup Walk(m, m[p])
    BY <1>1, WalkUnfold
  <2>2. m[p] = h
    BY <1>1
  <2> QED
    BY <1>3, <2>1, <2>2, Zenon
<1>5. ASSUME NoCircle(n, h)
      PROVE  NoCircle(m, p)
  <2>1. NoCircle(m, h)
    BY <1>1, <1>2, <1>5, CircleFrame
  <2> QED
    BY <1>1, <1>3, <1>4, <2>1 DEF NoCircle
<1> QED
  BY <1>1, <1>4, <1>5

\* The next fields and the head after TCP_RMV of block p from the list at h.
NextWithout(n, h, p) ==
  LET before == IF h = p THEN {} ELSE {q \in Walk(n, h) : n[q] = p}
  IN  [q \in Pcbs |-> IF q = p THEN NULL ELSE IF q \in before THEN n[p] ELSE n[q]]

HeadWithout(n, h, p) == IF h = p THEN n[p] ELSE h

\* TCP_RMV takes its block off the list and no other.
LEMMA WalkRmv ==
  ASSUME NEW n \in Links, NEW h \in Pointer, NEW p \in Walk(n, h), NoCircle(n, h),
         NEW m, m = NextWithout(n, h, p), NEW k, k = HeadWithout(n, h, p)
  PROVE  /\ m \in Links /\ k \in Pointer
         /\ Walk(m, k) = Walk(n, h) \ {p}
         /\ NoCircle(m, k)
         /\ \A q \in Pcbs \ Walk(n, h) : m[q] = n[q]
<1> DEFINE W == Walk(n, h)
<1>0. /\ W \subseteq Pcbs /\ p \in Pcbs /\ n[p] \in Pointer /\ n[p] \in W \cup {NULL}
      /\ h \in W /\ NULL \notin Pcbs /\ Pcbs \subseteq Pointer /\ p \in Pointer
  BY PoolAssumption, WalkStable, WalkNull DEF Pointer
<1>1. Walk(n, p) = {p} \cup Walk(n, n[p]) /\ p \notin Walk(n, n[p])
  BY <1>0, WalkUnfold DEF NoCircle
<1>2. n[p] # p
  BY <1>0, <1>1, WalkStable
<1>3. m \in Links /\ k \in Pointer /\ m[p] = NULL
  BY <1>0 DEF NextWithout, HeadWithout, Links, Pointer
<1>4. \A q \in Pcbs \ W : m[q] = n[q]
  BY <1>0 DEF NextWithout
<1>5. CASE h = p
  <2>1. k = n[p] /\ \A q \in Pcbs : q # p => m[q] = n[q]
    BY <1>5 DEF NextWithout, HeadWithout
  <2>2. \A q \in Walk(n, k) : m[q] = n[q]
    BY <1>0, <1>1, <2>1, WalkStable
  <2>3. Walk(m, k) = Walk(n, k)
    BY <1>3, <2>2, WalkFrame
  <2>4. NoCircle(n, k)
    BY <1>0, <2>1, CircleOn
  <2>5. NoCircle(m, k)
    BY <1>3, <2>2, <2>4, CircleFrame
  <2> QED
    BY <1>1, <1>3, <1>4, <1>5, <2>1, <2>3, <2>5
<1>6. CASE h # p
  <2>1. /\ k = h
        /\ \A q \in W : n[q] = p /\ q # p => m[q] = n[p]
        /\ \A q \in Pcbs : n[q] # p /\ q # p => m[q] = n[q]
    BY <1>0, <1>6 DEF NextWithout, HeadWithout
  <2>2. ASSUME NEW r \in Pointer, r \in W \cup {NULL}, r # p
        PROVE  Walk(m, r) \subseteq Walk(n, r) \ {p}
    <3> DEFINE S == Walk(n, r) \ {p}
    <3>1. S \in SUBSET Pcbs /\ r \in S \cup {NULL} /\ S \subseteq W
      BY <2>2, WalkStable, WalkOn
    <3>2. ASSUME NEW q \in S
          PROVE  m[q] \in S \cup {NULL}
      <4>1. n[q] \in Walk(n, r) \cup {NULL}
        BY WalkStable
      <4>2. CASE n[q] = p
        <5>1. n[p] \in Walk(n, r) \cup {NULL}
          BY <1>0, <4>1, <4>2, WalkStable
        <5> QED
          BY <1>2, <2>1, <3>1, <4>2, <5>1
      <4>3. CASE n[q] # p
        BY <2>1, <3>1, <4>1, <4>3
      <4> QED
        BY <4>2, <4>3
    <3> HIDE DEF S
    <3>3. Walk(m, r) \subseteq S
      BY <3>1, <3>2, WalkLeast
    <3> QED
      BY <3>3 DEF S
  <2>3. Walk(m, h) \subseteq W \ {p}
    BY <1>0, <1>6, <2>2
  <2>4. W \subseteq Walk(m, h) \cup {p}
    <3> DEFINE V == Walk(m, h)
               S == V \cup (IF \E q \in V : n[q] = p THEN {p} ELSE {})
    <3>0. V \subseteq Pcbs /\ h \in V /\ \A q \in V : m[q] \in V \cup {NULL}
      BY <1>0, <1>3, WalkStable
    <3>1. S \in SUBSET Pcbs /\ h \in S \cup {NULL}
      BY <1>0, <3>0
    <3>2. ASSUME NEW q \in V
          PROVE  n[q] \in S \cup {NULL}
      <4>1. q # p /\ q \in Pcbs
        BY <2>3, <3>0
      <4>2. CASE n[q] = p
        BY <4>2
      <4>3. CASE n[q] # p
        BY <2>1, <3>0, <4>1, <4>3
      <4> QED
        BY <4>2, <4>3
    <3>3. ASSUME NEW q \in V, n[q] = p
          PROVE  n[p] \in S \cup {NULL}
      <4>1. m[q] = n[p]
        BY <2>1, <2>3, <3>3
      <4> QED
        BY <3>0, <3>3, <4>1
    <3>4. \A q \in S : n[q] \in S \cup {NULL}
      BY <3>2, <3>3
    <3>5. S \subseteq V \cup {p}
      OBVIOUS
    <3> HIDE DEF S
    <3>6. W \subseteq S
      BY <3>1, <3>4, WalkLeast
    <3> QED
      BY <3>5, <3>6
  <2>5. ASSUME NEW q \in Walk(m, h)
        PROVE  q \notin Walk(m, m[q])
    <3>0. q \in W /\ q # p /\ q \notin Walk(n, n[q]) /\ n[q] \in W \cup {NULL} /\ n[q] \in Pointer
      BY <1>0, <2>3, WalkStable DEF NoCircle, Links
    <3>1. CASE n[q] = p
      <4>1. m[q] = n[p]
        BY <2>1, <3>0, <3>1
      <4>2. Walk(m, n[p]) \subseteq Walk(n, n[p])
        BY <1>0, <1>2, <2>2
      <4> QED
        BY <1>1, <3>0, <3>1, <4>1, <4>2
    <3>2. CASE n[q] # p
      <4>1. m[q] = n[q]
        BY <1>0, <2>1, <3>0, <3>2
      <4>2. Walk(m, n[q]) \subseteq Walk(n, n[q])
        BY <2>2, <3>0, <3>2
      <4> QED
        BY <3>0, <4>1, <4>2
    <3> QED
      BY <3>1, <3>2
  <2> QED
    BY <1>3, <1>4, <2>1, <2>3, <2>4, <2>5 DEF NoCircle
<1> QED
  BY <1>5, <1>6

-----------------------------------------------------------------------------
(* Unlinking several blocks at once                                        *)

\* FirstKept by the walk it looks at.
Kept(n, r, R) == Walk(n, r) \ R
First(n, r, R) ==
  IF Kept(n, r, R) = {} THEN NULL
  ELSE CHOOSE p \in Kept(n, r, R) : Kept(n, r, R) \subseteq Walk(n, p)

LEMMA FirstKeptIsFirst ==
  ASSUME NEW t, NEW r, NEW R
  PROVE  FirstKept(t, r, R) = First(t.next, r, R)
BY DEF FirstKept, First, Kept, Reach, Walk

\* There is a first block that stays, whether the walk runs in a circle or not.
LEMMA FirstExists ==
  ASSUME NEW n \in Links, NEW r \in Pointer, NEW R
  PROVE  \/ Kept(n, r, R) = {} /\ First(n, r, R) = NULL
         \/ /\ First(n, r, R) \in Kept(n, r, R)
            /\ Kept(n, r, R) \subseteq Walk(n, First(n, r, R))
<1> DEFINE K == Kept(n, r, R)
           S == {q \in Walk(n, r) : K \subseteq Walk(n, q)}
<1>0. Walk(n, r) \subseteq Pcbs /\ r \in Walk(n, r) \cup {NULL}
  BY WalkStable
<1>1. CASE K = {}
  BY <1>1 DEF First
<1>2. CASE K # {}
  <2>1. \E p \in K : K \subseteq Walk(n, p)
    <3> SUFFICES ASSUME \A p \in K : ~(K \subseteq Walk(n, p)) PROVE FALSE
      OBVIOUS
    <3>1. S \in SUBSET Pcbs /\ r \in S \cup {NULL}
      BY <1>0 DEF Kept
    <3>2. ASSUME NEW q \in S
          PROVE  n[q] \in S \cup {NULL}
      <4>1. q \in R /\ q \in Pcbs
        BY <1>0 DEF Kept
      <4>2. K \subseteq Walk(n, n[q])
        <5>1. Walk(n, q) = {q} \cup Walk(n, n[q])
          BY <4>1, WalkUnfold
        <5> QED
          BY <4>1, <5>1 DEF Kept
      <4>3. n[q] \in Walk(n, r) \cup {NULL}
        BY WalkStable
      <4> QED
        BY <4>2, <4>3
    <3>3. \A q \in S : q \in R
      BY DEF Kept
    <3> HIDE DEF S
    <3>4. Walk(n, r) \subseteq S
      BY <3>1, <3>2, WalkLeast
    <3> QED
      BY <1>2, <3>3, <3>4 DEF Kept
  <2>2. First(n, r, R) = CHOOSE p \in K : K \subseteq Walk(n, p)
    BY <1>2 DEF First
  <2> HIDE DEF K
  <2>3. First(n, r, R) \in K /\ K \subseteq Walk(n, First(n, r, R))
    BY <2>1, <2>2
  <2> QED
    BY <2>3 DEF K
<1> QED
  BY <1>1, <1>2

\* A block that stays is the first one from itself on.
LEMMA FirstSelf ==
  ASSUME NEW n \in Links, NEW r \in Pcbs, NEW R, r \notin R, NoCircle(n, r)
  PROVE  First(n, r, R) = r
<1> DEFINE f == First(n, r, R)
<1>0. r \in Pointer /\ Walk(n, r) = {r} \cup Walk(n, n[r]) /\ r \notin Walk(n, n[r]) /\ n[r] \in Pointer
  BY WalkUnfold DEF Pointer, NoCircle, Links
<1>1. r \in Kept(n, r, R)
  BY <1>0 DEF Kept
<1>2. f \in Walk(n, r) /\ r \in Walk(n, f)
  BY <1>0, <1>1, FirstExists DEF Kept
<1>3. CASE f \in Walk(n, n[r])
  <2>1. Walk(n, f) \subseteq Walk(n, n[r])
    BY <1>0, <1>3, WalkOn
  <2> QED
    BY <1>0, <1>2, <2>1
<1> QED
  BY <1>0, <1>2, <1>3

\* The next fields after tcp_slowtmr has unlinked the blocks in R from the list at h.
NextUnlinked(n, h, R) ==
  [q \in Pcbs |-> IF q \in Walk(n, h) /\ q \notin R THEN First(n, n[q], R) ELSE n[q]]

\* tcp_slowtmr takes exactly the blocks in R off the list.
LEMMA WalkUnlink ==
  ASSUME NEW n \in Links, NEW h \in Pointer, NEW R, NoCircle(n, h),
         NEW m, m = NextUnlinked(n, h, R), NEW k, k = First(n, h, R)
  PROVE  /\ m \in Links /\ k \in Pointer
         /\ Walk(m, k) = Walk(n, h) \ R
         /\ NoCircle(m, k)
         /\ \A q \in Pcbs \ Walk(n, h) : m[q] = n[q]
<1> DEFINE W == Walk(n, h)
<1>0. /\ W \subseteq Pcbs /\ h \in W \cup {NULL} /\ NULL \notin Pcbs
      /\ \A q \in W : n[q] \in W \cup {NULL} /\ n[q] \in Pointer /\ q \in Pointer
  BY PoolAssumption, WalkStable DEF Pointer, Links
<1>1. ASSUME NEW r \in W \cup {NULL}
      PROVE  /\ First(n, r, R) \in (Walk(n, r) \ R) \cup {NULL}
             /\ Walk(n, r) \subseteq W
  <2>1. r \in Pointer
    BY <1>0 DEF Pointer
  <2> QED
    BY <2>1, FirstExists, WalkOn DEF Kept
<1>2. /\ m \in Links /\ k \in Pointer
      /\ \A q \in W \ R : m[q] = First(n, n[q], R)
      /\ \A q \in Pcbs \ W : m[q] = n[q]
  <2>1. ASSUME NEW q \in Pcbs
        PROVE  (IF q \in W /\ q \notin R THEN First(n, n[q], R) ELSE n[q]) \in Pointer
    BY <1>0, <1>1 DEF Pointer, Links
  <2>2. k \in Pointer
    BY <1>0, <1>1 DEF Pointer
  <2> QED
    BY <1>0, <2>1, <2>2 DEF NextUnlinked, Links
<1>3. ASSUME NEW r \in (W \ R) \cup {NULL}
      PROVE  Walk(m, r) \subseteq Walk(n, r) \ R
  <2> DEFINE S == Walk(n, r) \ R
  <2>0. r \in Pointer
    BY <1>0 DEF Pointer
  <2>1. S \in SUBSET Pcbs /\ r \in S \cup {NULL} /\ S \subseteq W \ R
    BY <1>0, <1>1, <2>0, WalkStable
  <2>2. ASSUME NEW q \in S
        PROVE  m[q] \in S \cup {NULL}
    <3>1. m[q] = First(n, n[q], R) /\ n[q] \in W \cup {NULL}
      BY <1>0, <1>2, <2>1
    <3>2. Walk(n, n[q]) \subseteq Walk(n, r)
      BY <2>0, WalkStable, WalkOn
    <3> QED
      BY <1>1, <3>1, <3>2
  <2> HIDE DEF S
  <2>3. Walk(m, r) \subseteq S
    BY <2>1, <2>2, WalkLeast
  <2> QED
    BY <2>3 DEF S
<1>4. Walk(m, k) \subseteq W \ R
  <2>1. k \in (W \ R) \cup {NULL}
    BY <1>0, <1>1
  <2> QED
    BY <1>1, <1>3, <2>1
<1>5. W \ R \subseteq Walk(m, k)
  <2> DEFINE V == Walk(m, k)
             S == {q \in W : First(n, q, R) \in V \cup {NULL}}
  <2>0. \A q \in V : m[q] \in V \cup {NULL}
    BY <1>2, WalkStable
  <2>1. S \in SUBSET Pcbs /\ h \in S \cup {NULL}
    BY <1>0, <1>2, WalkStable
  <2>2. \A q \in W \ R : First(n, q, R) = q
    BY <1>0, CircleOn, FirstSelf
  <2>3. ASSUME NEW q \in S
        PROVE  n[q] \in S \cup {NULL}
    <3>1. CASE q \in R
      <4>1. Walk(n, q) = {q} \cup Walk(n, n[q])
        BY <1>0, WalkUnfold
      <4>2. Kept(n, q, R) = Kept(n, n[q], R)
        BY <3>1, <4>1 DEF Kept
      <4>3. First(n, q, R) = First(n, n[q], R)
        BY <4>2 DEF First
      <4> QED
        BY <1>0, <4>3
    <3>2. CASE q \notin R
      <4>1. q \in V
        BY <1>0, <2>2, <3>2
      <4>2. First(n, n[q], R) \in V \cup {NULL}
        BY <1>2, <2>0, <3>2, <4>1
      <4> QED
        BY <1>0, <4>2
    <3> QED
      BY <3>1, <3>2
  <2>4. \A q \in S : First(n, q, R) \in V \cup {NULL}
    OBVIOUS
  <2> HIDE DEF S
  <2>5. W \subseteq S
    BY <2>1, <2>3, WalkLeast
  <2> QED
    BY <1>0, <2>2, <2>4, <2>5
<1>6. ASSUME NEW q \in Walk(m, k)
      PROVE  q \notin Walk(m, m[q])
  <2>1. q \in W \ R /\ n[q] \in W \cup {NULL} /\ q \notin Walk(n, n[q])
    BY <1>0, <1>4 DEF NoCircle
  <2>2. m[q] \in (Walk(n, n[q]) \ R) \cup {NULL}
    BY <1>1, <1>2, <2>1
  <2>3. m[q] \in (W \ R) \cup {NULL} /\ n[q] \in Pointer
    BY <1>0, <1>1, <2>1, <2>2
  <2>4. Walk(m, m[q]) \subseteq Walk(n, m[q]) /\ Walk(n, m[q]) \subseteq Walk(n, n[q])
    BY <1>3, <2>2, <2>3, WalkOn
  <2> QED
    BY <2>1, <2>4
<1> QED
  BY <1>2, <1>4, <1>5, <1>6 DEF NoCircle

-----------------------------------------------------------------------------
(* The operations of TcpPcbs, field by field                               *)

Tcp == [pcb : [Pcbs -> Pcb], next : Links, head : [Lists -> Pointer], pool : SUBSET Pcbs]

LEMMA RegFields ==
  ASSUME NEW t \in Tcp, NEW l \in Lists, NEW p \in Pcbs
  PROVE  /\ Reg(t, l, p) \in Tcp
         /\ Reg(t, l, p).pcb = t.pcb /\ Reg(t, l, p).pool = t.pool
         /\ Reg(t, l, p).next = [t.next EXCEPT ![p] = t.head[l]]
         /\ Reg(t, l, p).head = [t.head EXCEPT ![l] = p]
BY DEF Tcp, Reg, Links, Pointer

LEMMA RmvFields ==
  ASSUME NEW t \in Tcp, NEW l \in Lists, NEW p \in Pcbs
  PROVE  /\ Rmv(t, l, p) \in Tcp
         /\ Rmv(t, l, p).pcb = t.pcb /\ Rmv(t, l, p).pool = t.pool
         /\ Rmv(t, l, p).next = NextWithout(t.next, t.head[l], p)
         /\ Rmv(t, l, p).head = [t.head EXCEPT ![l] = HeadWithout(t.next, t.head[l], p)]
<1>1. Rmv(t, l, p) = [t EXCEPT !.head = [@ EXCEPT ![l] = HeadWithout(t.next, t.head[l], p)],
                               !.next = NextWithout(t.next, t.head[l], p)]
  BY ReachIsWalk DEF Rmv, HeadWithout, NextWithout, Chain, Tcp
<1>2. NextWithout(t.next, t.head[l], p) \in Links /\ HeadWithout(t.next, t.head[l], p) \in Pointer
  BY DEF NextWithout, HeadWithout, Links, Pointer, Tcp
<1> QED
  BY <1>1, <1>2 DEF Tcp

\* What the list operations leave alone.
LEMMA RegKeeps ==
  ASSUME NEW t \in Tcp, NEW l \in Lists, NEW p \in Pcbs
  PROVE  /\ Reg(t, l, p) \in Tcp
         /\ Reg(t, l, p).pcb = t.pcb /\ Reg(t, l, p).pool = t.pool
BY DEF Tcp, Reg, Links, Pointer

LEMMA RmvKeeps ==
  ASSUME NEW t \in Tcp, NEW l \in Lists, NEW p \in Pcbs
  PROVE  /\ Rmv(t, l, p) \in Tcp
         /\ Rmv(t, l, p).pcb = t.pcb /\ Rmv(t, l, p).pool = t.pool
BY RmvFields

\* The reordering of tcp_input is a removal and a registration.
LEMMA MoveToFrontIs ==
  ASSUME NEW t \in Tcp, NEW l \in Lists, NEW p \in Pcbs
  PROVE  MoveToFront(t, l, p) = IF t.head[l] = p THEN t ELSE Reg(Rmv(t, l, p), l, p)
<1> SUFFICES ASSUME t.head[l] # p
             PROVE  MoveToFront(t, l, p) = Reg(Rmv(t, l, p), l, p)
  BY DEF MoveToFront
<1> DEFINE n == [q \in Pcbs |-> CASE q = p -> t.head[l]
                                 [] q # p /\ q \in Walk(t.next, t.head[l]) /\ t.next[q] = p -> t.next[p]
                                 [] OTHER -> t.next[q]]
           m == [t EXCEPT !.head = [@ EXCEPT ![l] = p], !.next = n]
<1>1. MoveToFront(t, l, p) = m
  BY ReachIsWalk DEF MoveToFront, Chain, Tcp
<1>2. Reg(Rmv(t, l, p), l, p) = m
  <2>1. /\ Rmv(t, l, p) \in Tcp
        /\ Rmv(t, l, p).pcb = t.pcb /\ Rmv(t, l, p).pool = t.pool
        /\ Rmv(t, l, p).next = NextWithout(t.next, t.head[l], p)
        /\ Rmv(t, l, p).head = t.head
    BY RmvFields DEF HeadWithout, Tcp
  <2>2. /\ Reg(Rmv(t, l, p), l, p) \in Tcp
        /\ Reg(Rmv(t, l, p), l, p).pcb = t.pcb /\ Reg(Rmv(t, l, p), l, p).pool = t.pool
        /\ Reg(Rmv(t, l, p), l, p).next = [NextWithout(t.next, t.head[l], p) EXCEPT ![p] = t.head[l]]
        /\ Reg(Rmv(t, l, p), l, p).head = [t.head EXCEPT ![l] = p]
    BY <2>1, RegFields
  <2>3. [NextWithout(t.next, t.head[l], p) EXCEPT ![p] = t.head[l]] = n
    BY DEF NextWithout
  <2>4. m \in [pcb : {t.pcb}, next : {n}, head : {[t.head EXCEPT ![l] = p]}, pool : {t.pool}]
    BY DEF Tcp
  <2>5. Reg(Rmv(t, l, p), l, p) \in [pcb : {t.pcb}, next : {n}, head : {[t.head EXCEPT ![l] = p]}, pool : {t.pool}]
    BY <2>2, <2>3 DEF Tcp
  <2> QED
    BY <2>4, <2>5
<1> QED
  BY <1>1, <1>2

LEMMA UnlinkFields ==
  ASSUME NEW t \in Tcp, NEW l \in Lists, NEW R
  PROVE  /\ Unlink(t, l, R) \in Tcp
         /\ Unlink(t, l, R).pcb = t.pcb /\ Unlink(t, l, R).pool = t.pool
         /\ Unlink(t, l, R).next = NextUnlinked(t.next, t.head[l], R)
         /\ Unlink(t, l, R).head = [t.head EXCEPT ![l] = First(t.next, t.head[l], R)]
<1>1. Unlink(t, l, R) = [t EXCEPT !.head = [@ EXCEPT ![l] = First(t.next, t.head[l], R)],
                                  !.next = NextUnlinked(t.next, t.head[l], R)]
  BY ReachIsWalk, FirstKeptIsFirst DEF Unlink, NextUnlinked, Chain, Tcp
<1>2. ASSUME NEW r \in Pointer
      PROVE  First(t.next, r, R) \in Pointer
  BY FirstExists, WalkStable DEF Kept, Pointer, Tcp
<1>3. NextUnlinked(t.next, t.head[l], R) \in Links
  BY <1>2 DEF NextUnlinked, Links, Tcp
<1>4. First(t.next, t.head[l], R) \in Pointer
  BY <1>2 DEF Tcp
<1> QED
  BY <1>1, <1>3, <1>4 DEF Tcp

LEMMA UnlinkKeeps ==
  ASSUME NEW t \in Tcp, NEW l \in Lists, NEW R
  PROVE  /\ Unlink(t, l, R) \in Tcp
         /\ Unlink(t, l, R).pcb = t.pcb /\ Unlink(t, l, R).pool = t.pool
BY UnlinkFields

\* memp_free leaves the lists alone.
LEMMA ReleaseFields ==
  ASSUME NEW t \in Tcp, NEW R \in SUBSET Pcbs
  PROVE  /\ Release(t, R) \in Tcp
         /\ Release(t, R).next = t.next /\ Release(t, R).head = t.head
         /\ Release(t, R).pool = t.pool \cup R
         /\ \A q \in Pcbs \ R : Release(t, R).pcb[q] = t.pcb[q]
<1>1. ASSUME NEW q \in Pcbs
      PROVE  [Fresh EXCEPT !.state = t.pcb[q].state, !.local = t.pcb[q].local,
                           !.remote = t.pcb[q].remote] \in Pcb
  <2>1. 0 \in 0 .. MaxRtx /\ 0 \in 0 .. MaxAge
    BY TimerAssumption
  <2>2. /\ t.pcb[q].state \in States /\ t.pcb[q].local \in Locals \cup {NULL}
        /\ t.pcb[q].remote \in Peers \cup {NULL}
    BY DEF Pcb, Tcp
  <2> QED
    BY <2>1, <2>2 DEF Fresh, Pcb
<1>2. [q \in Pcbs |-> IF q \in R
                        THEN [Fresh EXCEPT !.state = t.pcb[q].state, !.local = t.pcb[q].local,
                                           !.remote = t.pcb[q].remote]
                        ELSE t.pcb[q]] \in [Pcbs -> Pcb]
  BY <1>1 DEF Tcp
<1> QED
  BY <1>2 DEF Release, Tcp

-----------------------------------------------------------------------------
(* What they do to the lists                                               *)

\* No list runs in a circle and no block is on two lists.
Shape(t) ==
  /\ t \in Tcp
  /\ \A l \in Lists : NoCircle(t.next, t.head[l])
  /\ \A l, m \in Lists : l # m => Chain(t, l) \cap Chain(t, m) = {}

LEMMA ChainIs == \A t, l : Chain(t, l) = Walk(t.next, t.head[l])
BY ReachIsWalk DEF Chain

LEMMA ChainType ==
  ASSUME NEW t \in Tcp, NEW l \in Lists
  PROVE  Chain(t, l) \subseteq Pcbs
BY ChainIs DEF Walk

\* The same next fields and heads make the same lists.
LEMMA SameLists ==
  ASSUME NEW t, Shape(t), NEW u \in Tcp, u.next = t.next, u.head = t.head
  PROVE  Shape(u) /\ \A l \in Lists : Chain(u, l) = Chain(t, l)
BY ChainIs DEF Shape

\* Only list l changes, to the blocks in D.
LEMMA OneListChanges ==
  ASSUME NEW t, Shape(t), NEW l \in Lists, NEW u \in Tcp, NEW D, NEW k,
         u.head = [t.head EXCEPT ![l] = k],
         \A m \in Lists \ {l} : \A q \in Chain(t, m) : u.next[q] = t.next[q] /\ q \notin D,
         Walk(u.next, k) = D, NoCircle(u.next, k)
  PROVE  Shape(u) /\ \A m \in Lists : Chain(u, m) = IF m = l THEN D ELSE Chain(t, m)
<1>0. /\ t \in Tcp /\ t.next \in Links /\ u.next \in Links
      /\ \A m \in Lists : t.head[m] \in Pointer /\ u.head[m] = IF m = l THEN k ELSE t.head[m]
  BY DEF Shape, Tcp
<1>1. Chain(u, l) = D /\ NoCircle(u.next, u.head[l])
  BY <1>0, ChainIs
<1>2. ASSUME NEW m \in Lists, m # l
      PROVE  Chain(u, m) = Chain(t, m) /\ NoCircle(u.next, u.head[m])
  <2>1. u.head[m] = t.head[m] /\ t.head[m] \in Pointer /\ NoCircle(t.next, t.head[m])
    BY <1>0, <1>2 DEF Shape
  <2>2. \A q \in Walk(t.next, t.head[m]) : u.next[q] = t.next[q]
    BY <1>2, ChainIs
  <2>3. Walk(u.next, t.head[m]) = Walk(t.next, t.head[m])
    BY <1>0, <2>1, <2>2, WalkFrame
  <2>4. NoCircle(u.next, t.head[m])
    BY <1>0, <2>1, <2>2, CircleFrame
  <2> QED
    BY <2>1, <2>3, <2>4, ChainIs
<1>3. ASSUME NEW i \in Lists, NEW j \in Lists, i # j
      PROVE  Chain(u, i) \cap Chain(u, j) = {}
  BY <1>1, <1>2, <1>3 DEF Shape
<1> QED
  BY <1>1, <1>2, <1>3 DEF Shape

LEMMA RegShape ==
  ASSUME NEW t, Shape(t), NEW l \in Lists, NEW p \in Pcbs, p \notin OnSomeList(t)
  PROVE  /\ Shape(Reg(t, l, p))
         /\ \A m \in Lists : Chain(Reg(t, l, p), m) =
                               IF m = l THEN {p} \cup Chain(t, l) ELSE Chain(t, m)
<1> DEFINE u == Reg(t, l, p)
           D == {p} \cup Chain(t, l)
<1>0. t \in Tcp /\ t.next \in Links /\ t.head[l] \in Pointer /\ NoCircle(t.next, t.head[l])
  BY DEF Shape, Tcp
<1>1. u \in Tcp /\ u.next = [t.next EXCEPT ![p] = t.head[l]] /\ u.head = [t.head EXCEPT ![l] = p]
  BY <1>0, RegFields
<1>2. \A m \in Lists : p \notin Chain(t, m)
  BY DEF OnSomeList
<1>3. p \notin Walk(t.next, t.head[l])
  BY <1>2, ChainIs
<1>4. Walk(u.next, p) = {p} \cup Walk(t.next, t.head[l]) /\ NoCircle(u.next, p)
  BY <1>0, <1>1, <1>3, WalkReg
<1>5. Walk(u.next, p) = D
  BY <1>4, ChainIs
<1>6. \A m \in Lists \ {l} : \A q \in Chain(t, m) : u.next[q] = t.next[q] /\ q \notin D
  <2>1. ASSUME NEW m \in Lists \ {l}, NEW q \in Chain(t, m)
        PROVE  u.next[q] = t.next[q] /\ q \notin D
    <3>1. q # p /\ q \in Pcbs /\ q \notin Chain(t, l)
      BY <1>0, <1>2, ChainType DEF Shape
    <3> QED
      BY <1>0, <1>1, <3>1 DEF Links
  <2> QED
    BY <2>1
<1> HIDE DEF u, D
<1>7. Shape(u) /\ \A m \in Lists : Chain(u, m) = IF m = l THEN D ELSE Chain(t, m)
  <2>1. NoCircle(u.next, p) /\ u \in Tcp /\ u.head = [t.head EXCEPT ![l] = p]
    BY <1>1, <1>4
  <2> QED
    BY <1>5, <1>6, <2>1, OneListChanges
<1> QED
  BY <1>7 DEF u, D

LEMMA RmvShape ==
  ASSUME NEW t, Shape(t), NEW l \in Lists, NEW p \in Chain(t, l)
  PROVE  /\ Shape(Rmv(t, l, p))
         /\ \A m \in Lists : Chain(Rmv(t, l, p), m) =
                               IF m = l THEN Chain(t, l) \ {p} ELSE Chain(t, m)
<1> DEFINE u == Rmv(t, l, p)
           k == HeadWithout(t.next, t.head[l], p)
<1>0. /\ t \in Tcp /\ t.next \in Links /\ t.head[l] \in Pointer /\ NoCircle(t.next, t.head[l])
      /\ p \in Pcbs /\ p \in Walk(t.next, t.head[l])
  BY ChainIs, ChainType DEF Shape, Tcp
<1>1. u \in Tcp /\ u.next = NextWithout(t.next, t.head[l], p) /\ u.head = [t.head EXCEPT ![l] = k]
  BY <1>0, RmvFields
<1>2. /\ Walk(u.next, k) = Walk(t.next, t.head[l]) \ {p} /\ NoCircle(u.next, k)
      /\ \A q \in Pcbs \ Walk(t.next, t.head[l]) : u.next[q] = t.next[q]
  <2> HIDE DEF u
  <2> QED
    BY <1>0, <1>1, WalkRmv
<1>3. Walk(u.next, k) = Chain(t, l) \ {p}
  BY <1>2, ChainIs
<1>4. \A m \in Lists \ {l} : \A q \in Chain(t, m) : u.next[q] = t.next[q] /\ q \notin Chain(t, l) \ {p}
  <2>1. ASSUME NEW m \in Lists \ {l}, NEW q \in Chain(t, m)
        PROVE  u.next[q] = t.next[q] /\ q \notin Chain(t, l) \ {p}
    <3>1. q \in Pcbs /\ q \notin Chain(t, l)
      BY <1>0, ChainType DEF Shape
    <3> QED
      BY <1>2, <3>1, ChainIs
  <2> QED
    BY <2>1
<1> HIDE DEF u, k
<1>5. Shape(u) /\ \A m \in Lists : Chain(u, m) = IF m = l THEN Chain(t, l) \ {p} ELSE Chain(t, m)
  BY <1>1, <1>2, <1>3, <1>4, OneListChanges
<1> QED
  BY <1>5 DEF u

LEMMA UnlinkShape ==
  ASSUME NEW t, Shape(t), NEW l \in Lists, NEW R
  PROVE  /\ Shape(Unlink(t, l, R))
         /\ \A m \in Lists : Chain(Unlink(t, l, R), m) =
                               IF m = l THEN Chain(t, l) \ R ELSE Chain(t, m)
<1> DEFINE u == Unlink(t, l, R)
           k == First(t.next, t.head[l], R)
<1>0. t \in Tcp /\ t.next \in Links /\ t.head[l] \in Pointer /\ NoCircle(t.next, t.head[l])
  BY DEF Shape, Tcp
<1>1. u \in Tcp /\ u.next = NextUnlinked(t.next, t.head[l], R) /\ u.head = [t.head EXCEPT ![l] = k]
  BY <1>0, UnlinkFields
<1>2. /\ Walk(u.next, k) = Walk(t.next, t.head[l]) \ R /\ NoCircle(u.next, k)
      /\ \A q \in Pcbs \ Walk(t.next, t.head[l]) : u.next[q] = t.next[q]
  <2> HIDE DEF u
  <2> QED
    BY <1>0, <1>1, WalkUnlink
<1>3. Walk(u.next, k) = Chain(t, l) \ R
  BY <1>2, ChainIs
<1>4. \A m \in Lists \ {l} : \A q \in Chain(t, m) : u.next[q] = t.next[q] /\ q \notin Chain(t, l) \ R
  <2>1. ASSUME NEW m \in Lists \ {l}, NEW q \in Chain(t, m)
        PROVE  u.next[q] = t.next[q] /\ q \notin Chain(t, l) \ R
    <3>1. q \in Pcbs /\ q \notin Chain(t, l)
      BY <1>0, ChainType DEF Shape
    <3> QED
      BY <1>2, <3>1, ChainIs
  <2> QED
    BY <2>1
<1> HIDE DEF u, k
<1>5. Shape(u) /\ \A m \in Lists : Chain(u, m) = IF m = l THEN Chain(t, l) \ R ELSE Chain(t, m)
  BY <1>1, <1>2, <1>3, <1>4, OneListChanges
<1> QED
  BY <1>5 DEF u

\* tcp_input only reorders the list.
LEMMA MoveToFrontShape ==
  ASSUME NEW t, Shape(t), NEW l \in Lists, NEW p \in Chain(t, l)
  PROVE  /\ Shape(MoveToFront(t, l, p))
         /\ \A m \in Lists : Chain(MoveToFront(t, l, p), m) = Chain(t, m)
<1>0. t \in Tcp /\ p \in Pcbs
  BY ChainType DEF Shape
<1>1. CASE t.head[l] = p
  BY <1>1 DEF MoveToFront
<1>2. CASE t.head[l] # p
  <2> DEFINE u == Rmv(t, l, p)
             v == Reg(u, l, p)
  <2>1. MoveToFront(t, l, p) = v
    BY <1>0, <1>2, MoveToFrontIs
  <2>2. Shape(u) /\ \A m \in Lists : Chain(u, m) = IF m = l THEN Chain(t, l) \ {p} ELSE Chain(t, m)
    BY RmvShape
  <2> HIDE DEF u
  <2>3. p \notin OnSomeList(u)
    BY <2>2 DEF Shape, OnSomeList
  <2>4. Shape(v) /\ \A m \in Lists : Chain(v, m) = IF m = l THEN {p} \cup Chain(u, l) ELSE Chain(u, m)
    BY <1>0, <2>2, <2>3, RegShape
  <2> HIDE DEF v
  <2>5. \A m \in Lists : Chain(v, m) = Chain(t, m)
    BY <2>2, <2>4
  <2> QED
    BY <2>1, <2>4, <2>5
<1> QED
  BY <1>1, <1>2

LEMMA MoveToFrontFields ==
  ASSUME NEW t \in Tcp, NEW l \in Lists, NEW p \in Pcbs
  PROVE  /\ MoveToFront(t, l, p) \in Tcp
         /\ MoveToFront(t, l, p).pcb = t.pcb /\ MoveToFront(t, l, p).pool = t.pool
<1> DEFINE u == Rmv(t, l, p)
<1>1. u \in Tcp /\ u.pcb = t.pcb /\ u.pool = t.pool
  BY RmvKeeps
<1> HIDE DEF u
<1>2. Reg(u, l, p) \in Tcp /\ Reg(u, l, p).pcb = u.pcb /\ Reg(u, l, p).pool = u.pool
  <2>1. u \in Tcp
    BY <1>1
  <2> QED
    BY <2>1, RegKeeps
<1>3. MoveToFront(t, l, p) = IF t.head[l] = p THEN t ELSE Reg(u, l, p)
  BY MoveToFrontIs DEF u
<1> QED
  BY <1>1, <1>2, <1>3

=============================================================================
