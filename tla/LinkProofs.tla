----------------------------- MODULE LinkProofs -----------------------------
(***************************************************************************)
(* Proofs about the two modules that have lists by their links: RunQueue,  *)
(* the run queue, and DeviceScan, the list of devices, and about Boot,     *)
(* which composes them.                                                    *)
(*                                                                         *)
(* The links say where each node leads to; what the properties say is what *)
(* a walk along them visits, and walks are defined by recursion.  The      *)
(* first part is about walks, by induction: of the numbers for which a     *)
(* claim fails, there would be a least one (LeastNumber).                  *)
(***************************************************************************)
EXTENDS Boot, SequenceTheorems, WellFoundedInduction, TLAPS

-----------------------------------------------------------------------------
(* Walks along links (Walk of LinkedList).                                 *)

\* A set of natural numbers has a least member.
LEMMA LeastNumber ==
    ASSUME NEW T, T \subseteq Nat, T # {}
    PROVE  \E m \in T : \A k \in T : m <= k
<1>1. IsWellFoundedOn(OpToRel(<, Nat), Nat)
    BY NatLessThanWellFounded
<1>2. \E x \in T : \A y \in T : ~ (<<y, x>> \in OpToRel(<, Nat))
    BY <1>1, WFMin
<1>3. PICK x \in T : \A y \in T : ~ (<<y, x>> \in OpToRel(<, Nat))
    BY <1>2
<1>4. ASSUME NEW y \in T PROVE ~(y < x)
  <2>1. ~ (<<y, x>> \in OpToRel(<, Nat)) /\ y \in Nat /\ x \in Nat
      BY <1>3
  <2> QED BY <2>1, Zenon DEF OpToRel
<1>5. \E m \in T : \A y \in T : ~(y < m)
    BY <1>3, <1>4, Zenon
<1> QED BY <1>5

\* The equation of Walk.
IsWalk(w, h, head, k) ==
    w = [i \in 0..k |->
            IF i = 0 THEN head
            ELSE IF w[i - 1] = Poison THEN Poison ELSE h.next[w[i - 1]]]

\* Walks of every length exist.
LEMMA WalkExists ==
    ASSUME NEW h, NEW head, NEW k \in Nat
    PROVE  \E w : IsWalk(w, h, head, k)
<1> DEFINE T == {n \in Nat : ~ \E w : IsWalk(w, h, head, n)}
<1>1. SUFFICES ASSUME T # {} PROVE FALSE
    OBVIOUS
<1>2. PICK m \in T : \A n \in T : m <= n
    BY <1>1, LeastNumber
<1>3. CASE m = 0
  <2> DEFINE w == [i \in 0..0 |-> head]
  <2>1. IsWalk(w, h, head, 0)
      BY DEF IsWalk
  <2> QED BY <1>3, <2>1
<1>4. CASE m # 0
  <2>1. m \in Nat /\ m - 1 \in Nat /\ m - 1 \notin T
      BY <1>2, <1>4
  <2>2. PICK g : IsWalk(g, h, head, m - 1)
      BY <2>1
  <2> DEFINE w == [i \in 0..m |->
                     IF i < m THEN g[i]
                     ELSE IF g[m - 1] = Poison THEN Poison ELSE h.next[g[m - 1]]]
  <2>3. ASSUME NEW i \in 0..m
        PROVE  w[i] = IF i = 0 THEN head
                      ELSE IF w[i - 1] = Poison THEN Poison ELSE h.next[w[i - 1]]
    <3>1. CASE i = 0
        BY <3>1, <2>1, <2>2, <1>4 DEF IsWalk
    <3>2. CASE i # 0
      <4>1. i - 1 \in 0..m /\ i - 1 < m /\ i - 1 \in 0..(m - 1)
          BY <3>2, <2>1
      <4>2. w[i - 1] = g[i - 1]
          BY <4>1
      <4>3. CASE i < m
        <5>1. i \in 0..(m - 1) /\ w[i] = g[i]
            BY <4>3, <2>1
        <5>2. g[i] = IF g[i - 1] = Poison THEN Poison ELSE h.next[g[i - 1]]
            BY <5>1, <3>2, <2>2 DEF IsWalk
        <5> QED BY <5>1, <5>2, <4>2, <3>2
      <4>4. CASE i = m
          BY <4>4, <4>2, <3>2, <2>1
      <4> QED BY <4>3, <4>4, <2>1
    <3> QED BY <3>1, <3>2
  <2>4. IsWalk(w, h, head, m)
    <3>1. PICK v : v = w
        OBVIOUS
    <3>2. v = [i \in 0..m |-> v[i]]
        BY <3>1
    <3> HIDE DEF w
    <3>3. \A i \in 0..m : v[i] = IF i = 0 THEN head
                      ELSE IF v[i - 1] = Poison THEN Poison ELSE h.next[v[i - 1]]
        BY <3>1, <2>3, Zenon
    <3>4. v = [i \in 0..m |-> IF i = 0 THEN head
                      ELSE IF v[i - 1] = Poison THEN Poison ELSE h.next[v[i - 1]]]
        BY <3>2, <3>3
    <3> QED BY <3>1, <3>4 DEF IsWalk
  <2> QED BY <2>4, <1>2
<1> QED BY <1>3, <1>4

\* Walk is one.
LEMMA WalkIsWalk ==
    ASSUME NEW h, NEW head, NEW k \in Nat
    PROVE  IsWalk(Walk(h, head, k), h, head, k)
<1>1. Walk(h, head, k) = CHOOSE w : IsWalk(w, h, head, k)
    BY DEF Walk, IsWalk
<1> QED BY <1>1, WalkExists

\* f is a way along the links, up to n.
IsWay(f, h, n) == \A i \in 0..(n - 1) : f[i] # Poison /\ h.next[f[i]] = f[i + 1]

\* A walk stays on the way along the links.
LEMMA WalkFollows ==
    ASSUME NEW h, NEW head, NEW k \in Nat, NEW w, IsWalk(w, h, head, k),
           NEW n \in 0..k, NEW f, f[0] = head, IsWay(f, h, n)
    PROVE  \A i \in 0..n : w[i] = f[i]
<1> DEFINE T == {i \in 0..n : w[i] # f[i]}
<1>1. SUFFICES ASSUME T # {} PROVE FALSE
    OBVIOUS
<1>2. PICK m \in T : \A i \in T : m <= i
  <2>1. T \subseteq Nat
      OBVIOUS
  <2> QED BY <1>1, <2>1, LeastNumber
<1>3. m \in 0..n /\ m \in 0..k /\ w[m] # f[m]
    BY <1>2
<1>4. m # 0
    BY <1>3 DEF IsWalk
<1>5. m - 1 \in 0..(n - 1) /\ m - 1 \in 0..n /\ (m - 1) + 1 = m /\ m - 1 \notin T
    BY <1>2, <1>3, <1>4
<1>6. w[m - 1] = f[m - 1] /\ f[m - 1] # Poison /\ h.next[f[m - 1]] = f[m]
    BY <1>5 DEF IsWay
<1>7. w[m] = IF w[m - 1] = Poison THEN Poison ELSE h.next[w[m - 1]]
    BY <1>3, <1>4 DEF IsWalk
<1> QED BY <1>3, <1>6, <1>7

-----------------------------------------------------------------------------
(* The operations on links (ListAddTail and ListDel of LinkedList).        *)

\* The links of nodes D.
Links(D) == [next : [D -> D \cup {Poison}], prev : [D -> D \cup {Poison}]]

\* What list_add_tail stores.
Added(h, x, head) ==
    [next |-> [[h.next EXCEPT ![x] = head] EXCEPT ![h.prev[head]] = x],
     prev |-> [[h.prev EXCEPT ![head] = x] EXCEPT ![x] = h.prev[head]]]

\* What list_del stores.
Deleted(h, x) ==
    [next |-> [[h.next EXCEPT ![h.prev[x]] = h.next[x]] EXCEPT ![x] = Poison],
     prev |-> [[h.prev EXCEPT ![h.next[x]] = h.prev[x]] EXCEPT ![x] = Poison]]

\* A store to a link.
LEMMA StoreFacts ==
    ASSUME NEW r, NEW c, NEW d, r = [next |-> c, prev |-> d], NEW p, NEW v
    PROVE  /\ [r EXCEPT !.next[p] = v] = [next |-> [c EXCEPT ![p] = v], prev |-> d]
           /\ [r EXCEPT !.prev[p] = v] = [next |-> c, prev |-> [d EXCEPT ![p] = v]]
OBVIOUS

\* The operations on lists are these.
LEMMA ListOps ==
    ASSUME NEW D, NEW h \in Links(D), NEW x \in D, NEW head \in D
    PROVE  /\ ListAddTail(h, x, head) = Added(h, x, head)
           /\ ListDel(h, x) = Deleted(h, x)
<1> DEFINE a == h.next
           b == h.prev
<1>1. h = [next |-> a, prev |-> b] /\ a \in [D -> D \cup {Poison}] /\ b \in [D -> D \cup {Poison}]
    BY DEF Links
<1> HIDE DEF a, b
<1>2. ListAddTail(h, x, head) = Added(h, x, head)
  <2>1. PICK h1 : h1 = [h EXCEPT !.prev[head] = x]
      OBVIOUS
  <2>2. PICK h2 : h2 = [h1 EXCEPT !.next[x] = head]
      OBVIOUS
  <2>3. PICK h3 : h3 = [h2 EXCEPT !.prev[x] = b[head]]
      OBVIOUS
  <2>4. PICK h4 : h4 = [h3 EXCEPT !.next[b[head]] = x]
      OBVIOUS
  <2>5. h4 = [next |-> [[a EXCEPT ![x] = head] EXCEPT ![b[head]] = x],
              prev |-> [[b EXCEPT ![head] = x] EXCEPT ![x] = b[head]]]
      BY <1>1, <2>1, <2>2, <2>3, <2>4, StoreFacts, Zenon
  <2>6. ListAddTail(h, x, head) = h4
      BY <2>1, <2>2, <2>3, <2>4, Zenon DEF ListAddTail, b
  <2> QED BY <2>5, <2>6 DEF Added, a, b
<1>3. ListDel(h, x) = Deleted(h, x)
  <2>1. PICK h1 : h1 = [h EXCEPT !.prev[a[x]] = b[x]]
      OBVIOUS
  <2>2. PICK h2 : h2 = [h1 EXCEPT !.next[b[x]] = a[x]]
      OBVIOUS
  <2>3. PICK h3 : h3 = [h2 EXCEPT !.next[x] = Poison]
      OBVIOUS
  <2>4. PICK h4 : h4 = [h3 EXCEPT !.prev[x] = Poison]
      OBVIOUS
  <2>5. h4 = [next |-> [[a EXCEPT ![b[x]] = a[x]] EXCEPT ![x] = Poison],
              prev |-> [[b EXCEPT ![a[x]] = b[x]] EXCEPT ![x] = Poison]]
      BY <1>1, <2>1, <2>2, <2>3, <2>4, StoreFacts, Zenon
  <2>6. ListDel(h, x) = h4
      BY <2>1, <2>2, <2>3, <2>4, Zenon DEF ListDel, a, b
  <2> QED BY <2>5, <2>6 DEF Deleted, a, b
<1> QED BY <1>2, <1>3

\* The links g after list_add_tail of x, one by one; l was the last node.
AddLinks(g, h, D, x, head, l) ==
    /\ g \in Links(D)
    /\ \A d \in D :
          /\ g.next[d] = IF d = l THEN x ELSE IF d = x THEN head ELSE h.next[d]
          /\ g.prev[d] = IF d = x THEN l ELSE IF d = head THEN x ELSE h.prev[d]

\* Where the links lead after list_add_tail.
LEMMA AddFacts ==
    ASSUME NEW D, NEW h \in Links(D), NEW x \in D, NEW head \in D, NEW l \in D,
           h.prev[head] = l
    PROVE  AddLinks(Added(h, x, head), h, D, x, head, l)
BY DEF Links, Added, AddLinks

\* The links g after list_del of x, one by one; x was between p and s.
DelLinks(g, h, D, x, p, s) ==
    /\ g \in Links(D)
    /\ \A d \in D :
          /\ g.next[d] = IF d = x THEN Poison ELSE IF d = p THEN s ELSE h.next[d]
          /\ g.prev[d] = IF d = x THEN Poison ELSE IF d = s THEN p ELSE h.prev[d]

\* Where the links lead after list_del.
LEMMA DelFacts ==
    ASSUME NEW D, NEW h \in Links(D), NEW x \in D, NEW p \in D, NEW s \in D,
           h.prev[x] = p, h.next[x] = s
    PROVE  DelLinks(Deleted(h, x), h, D, x, p, s)
BY DEF Links, Deleted, DelLinks

\* Links that lead to the same nodes are the same.
LeadAlike(g, h, D) == \A d \in D : g.next[d] = h.next[d] /\ g.prev[d] = h.prev[d]

\* Two sets of links are equal when they lead to the same nodes.
LEMMA SameLinks ==
    ASSUME NEW D, NEW g \in Links(D), NEW h \in Links(D), LeadAlike(g, h, D)
    PROVE  g = h
BY DEF Links, LeadAlike

-----------------------------------------------------------------------------
(* The list of devices (DeviceScan).                                       *)

\* Subchannel sch is being looked at, and its device struct is in hand.
InHand == pc \in {"fake", "sense", "real", "disable"}

\* The device structs are used in the order of their allocation, each until a
\* device answers: the n-th device that was sensed has the n-th struct.
StructInv ==
    /\ sch \in 1..(N + 1)
    /\ pc \in {"next", "fake", "sense", "real", "disable", "done"}
    /\ alloc \in 0..N
    /\ dev = NULL \/ (dev = alloc /\ alloc >= 1)
    /\ IF InHand THEN dev # NULL /\ alloc <= sch /\ sch <= N ELSE alloc < sch
    /\ answered \in Seq(1..N)
    /\ Len(answered) = IF dev = NULL \/ pc \in {"real", "disable"} THEN alloc ELSE alloc - 1
    /\ \A i \in 1..Len(answered) : answered[i] = i

\* The devices that were sensed have subchannels of their own, in this order.
SubchannelInv ==
    /\ devsch \in [1..N -> 0..N]
    /\ \A i \in 1..Len(answered) :
          /\ 1 <= devsch[i]
          /\ IF pc \in {"real", "disable"} /\ i = alloc THEN devsch[i] = sch
             ELSE devsch[i] < sch
    /\ \A i, j \in 1..Len(answered) : i < j => devsch[i] < devsch[j]
    /\ InHand => devsch[alloc] = sch

\* How many structs the list has: those of the devices that were sensed, and the
\* one in hand once it was registered.
Listed ==
    IF dev # NULL /\ pc \notin {"real", "disable"} /\ devices.next[alloc] # Poison
    THEN Len(answered) + 1
    ELSE Len(answered)

\* The links: from the head through the structs in their order.  A struct that is
\* registered again when it is the last one leads to itself.
LinkInv ==
    LET next == devices.next
        prev == devices.prev
        n == Listed
    IN  /\ devices \in Links(0..N)
        /\ \A i \in 0..(n - 1) : next[i] = i + 1
        /\ prev[0] = n
        /\ next[n] = 0 \/ (next[n] = n /\ mute # {})
        /\ \A i \in (n + 1)..N : next[i] = Poison
        /\ pc = "sense" => n = alloc
        /\ pc \in {"sense", "real"} => prev[n] = IF next[n] = 0 THEN n - 1 ELSE n
        /\ mute = {} => \A i \in 1..n : prev[i] = i - 1
        /\ n = Len(answered) \/ pc = "sense" \/ mute # {}

\* A subchannel that may interrupt has a driver, unless it is being looked at or
\* a step failed.
UseInv ==
    /\ type \in [1..N -> {NULL, "fake", "driver"}]
    /\ \A i \in 1..Len(answered) : type[i] # "fake"
    /\ \A s \in enabled \ (mute \cup stuck) :
          \/ InHand /\ s = sch
          \/ \E i \in 1..Len(answered) : devsch[i] = s /\ type[i] = "driver"

ScanInv == StructInv /\ SubchannelInv /\ LinkInv /\ UseInv

\* Before the first subchannel the invariant holds.
LEMMA ScanStarts == ScanInit => ScanInv
<1> SUFFICES ASSUME ScanInit PROVE ScanInv
    OBVIOUS
<1>1. N \in Nat /\ NULL \notin 0..N /\ Poison \notin 0..N
    BY NAssumption
<1>2. /\ sch = 1 /\ pc = "next" /\ dev = NULL /\ alloc = 0 /\ answered = <<>> /\ mute = {}
      /\ devsch = [d \in 1..N |-> 0] /\ type = [d \in 1..N |-> NULL] /\ enabled = {}
    BY DEF ScanInit, Devs
<1>3. Len(answered) = 0 /\ answered \in Seq(1..N)
    BY <1>2, EmptySeq
<1>4. StructInv
    BY <1>1, <1>2, <1>3 DEF StructInv, InHand
<1>5. SubchannelInv
    BY <1>1, <1>2, <1>3 DEF SubchannelInv, InHand
<1>6. LinkInv
  <2>1. Listed = 0
      BY <1>2, <1>3 DEF Listed
  <2>2. devices = [next |-> [n \in 0..N |-> IF n = 0 THEN 0 ELSE Poison],
                   prev |-> [n \in 0..N |-> IF n = 0 THEN 0 ELSE Poison]]
      BY DEF ScanInit, Head0
  <2>3. devices \in Links(0..N)
      BY <1>1, <2>2 DEF Links
  <2> QED BY <1>1, <1>2, <1>3, <2>1, <2>2, <2>3 DEF LinkInv
<1>7. UseInv
    BY <1>2, <1>3 DEF UseInv
<1> QED BY <1>4, <1>5, <1>6, <1>7 DEF ScanInv

\* The types that the invariant implies.
ScanTypes ==
    /\ N \in Nat /\ NULL \notin 0..N /\ Poison \notin 0..N
    /\ NULL # "fake" /\ NULL # "driver"
    /\ alloc \in 0..N /\ sch \in 1..(N + 1) /\ Len(answered) \in 0..N
    /\ Listed \in 0..N
    /\ dev # NULL => dev = alloc /\ alloc \in 1..N

\* The invariant gives the types of what the scan keeps.
LEMMA ScanFacts ==
    ASSUME ScanInv
    PROVE  /\ ScanTypes
           /\ devices \in Links(0..N)
           /\ devices.next \in [0..N -> (0..N) \cup {Poison}]
           /\ devices.prev \in [0..N -> (0..N) \cup {Poison}]
           /\ devsch \in [1..N -> 0..N]
           /\ \A i \in 1..Len(answered) : i \in 1..N /\ devsch[i] \in 0..N
<1>1. /\ N \in Nat /\ NULL \notin 0..N /\ Poison \notin 0..N
      /\ NULL # "fake" /\ NULL # "driver"
    BY NAssumption
<1>2. /\ alloc \in 0..N /\ sch \in 1..(N + 1)
      /\ dev # NULL => dev = alloc /\ alloc \in 1..N
    BY <1>1 DEF ScanInv, StructInv
<1>3. Len(answered) \in 0..N
    BY <1>1, <1>2 DEF ScanInv, StructInv
<1>4. Listed \in 0..N
    BY <1>1, <1>2, <1>3 DEF Listed, ScanInv, StructInv
<1>5. devices \in Links(0..N)
    BY DEF ScanInv, LinkInv
<1>6. \A i \in 1..Len(answered) : i \in 1..N /\ devsch[i] \in 0..N
    BY <1>1, <1>3 DEF ScanInv, SubchannelInv
<1>7. /\ devices.next \in [0..N -> (0..N) \cup {Poison}]
      /\ devices.prev \in [0..N -> (0..N) \cup {Poison}]
    BY <1>5 DEF Links
<1>8. devsch \in [1..N -> 0..N]
    BY DEF ScanInv, SubchannelInv
<1> QED BY <1>1, <1>2, <1>3, <1>4, <1>5, <1>6, <1>7, <1>8 DEF ScanTypes

\* A subchannel without a device (NoDevice).
LEMMA NoDeviceKeeps == ASSUME ScanInv, NoDevice PROVE ScanInv'
<1> ScanTypes
    BY ScanFacts
<1> USE DEF ScanInv, ScanTypes
<1>1. /\ pc = "next" /\ sch <= N /\ sch' = sch + 1 /\ pc' = pc /\ dev' = dev /\ alloc' = alloc
      /\ devices' = devices /\ devsch' = devsch /\ type' = type /\ enabled' = enabled
      /\ answered' = answered /\ mute' = mute /\ stuck' = stuck
    BY DEF NoDevice, faults
<1>2. StructInv'
    BY <1>1 DEF StructInv, InHand
<1>3. SubchannelInv'
    BY <1>1 DEF SubchannelInv, InHand
<1>4. LinkInv'
    BY <1>1 DEF LinkInv, Listed
<1>5. UseInv'
    BY <1>1 DEF UseInv, InHand
<1> QED BY <1>2, <1>3, <1>4, <1>5

\* A device struct is at hand (AllocDevice): the one that was, or the next one, which
\* was never linked.
LEMMA AllocFacts ==
    ASSUME ScanInv, pc = "next", sch <= N, AllocDevice,
           devices' = devices, answered' = answered
    PROVE  /\ dev' = alloc' /\ alloc' \in 1..N /\ alloc' <= sch
           /\ Len(answered) = alloc' - 1
           /\ type' \in [1..N -> {NULL, "fake", "driver"}]
           /\ \A i \in 1..Len(answered) : type'[i] = type[i]
           /\ pc' \notin {"real", "disable"} => Listed' = Listed
<1> ScanTypes
    BY ScanFacts
<1> USE DEF ScanInv, ScanTypes
<1>1. alloc < sch /\ Len(answered) = (IF dev = NULL THEN alloc ELSE alloc - 1)
    BY DEF StructInv, InHand
<1>2. CASE dev = NULL
  <2>1. dev' = alloc + 1 /\ alloc' = alloc + 1 /\ type' = [type EXCEPT ![alloc + 1] = "fake"]
      BY <1>2 DEF AllocDevice
  <2>2. Listed = alloc /\ alloc + 1 \in 1..N /\ alloc + 1 \in (Listed + 1)..N /\ alloc + 1 # NULL
      BY <1>1, <1>2 DEF Listed
  <2>3. devices.next[alloc + 1] = Poison
      BY <2>2 DEF LinkInv
  <2>4. pc' \notin {"real", "disable"} => Listed' = Listed
      BY <1>1, <1>2, <2>1, <2>2, <2>3 DEF Listed
  <2> QED BY <1>1, <1>2, <2>1, <2>2, <2>4 DEF UseInv
<1>3. CASE dev # NULL
  <2>1. dev' = dev /\ alloc' = alloc /\ type' = type /\ dev = alloc /\ alloc \in 1..N
      BY <1>3 DEF AllocDevice
  <2> QED BY <1>1, <1>3, <2>1 DEF UseInv, Listed
<1> QED BY <1>2, <1>3

\* A subchannel that cannot be enabled (NotEnabled).
LEMMA NotEnabledKeeps == ASSUME ScanInv, NotEnabled PROVE ScanInv'
<1> ScanTypes
    BY ScanFacts
<1> USE DEF ScanInv, ScanTypes
<1>1. /\ pc = "next" /\ sch <= N /\ sch' = sch + 1 /\ pc' = pc /\ AllocDevice
      /\ devices' = devices /\ devsch' = devsch /\ enabled' = enabled
      /\ answered' = answered /\ mute' = mute /\ stuck' = stuck
    BY DEF NotEnabled, faults
<1>2. /\ dev' = alloc' /\ alloc' \in 1..N /\ alloc' <= sch
      /\ Len(answered) = alloc' - 1
      /\ Listed' = Listed
    BY <1>1, AllocFacts
<1>0. /\ type' \in [1..N -> {NULL, "fake", "driver"}]
      /\ \A i \in 1..Len(answered) : type'[i] = type[i]
    BY <1>1, AllocFacts
<1>3. StructInv'
  <2>1. alloc' # NULL /\ dev' # NULL
    BY <1>2
  <2>2. Len(answered)' = alloc' - 1
    BY <1>1, <1>2
  <2>3. answered' \in Seq(1..N) /\ \A i \in 1..Len(answered') : answered'[i] = i
    BY <1>1 DEF StructInv
  <2>4. sch' \in 1..(N + 1)
    BY <1>1
  <2>5. pc' = "next" /\ alloc' < sch' /\ alloc' \in 0..N /\ alloc' >= 1
    BY <1>1, <1>2
  <2> QED BY <1>1, <1>2, <2>1, <2>2, <2>3, <2>4, <2>5 DEF StructInv, InHand
<1>4. SubchannelInv'
  <2>1. \A i \in 1..Len(answered) : 1 <= devsch[i] /\ devsch[i] < sch /\ devsch[i] \in Int
      BY <1>1, ScanFacts DEF SubchannelInv
  <2>2. \A i \in 1..Len(answered) : devsch[i] < sch + 1
      BY <2>1
  <2> QED BY <1>1, <2>1, <2>2 DEF SubchannelInv, InHand
<1>5. LinkInv'
    BY <1>1, <1>2 DEF LinkInv
<1>6. UseInv'
    BY <1>1, <1>0 DEF UseInv, InHand
<1> QED BY <1>3, <1>4, <1>5, <1>6

\* A subchannel is enabled (Enable).
LEMMA EnableKeeps == ASSUME ScanInv, Enable PROVE ScanInv'
<1> ScanTypes
    BY ScanFacts
<1> USE DEF ScanInv, ScanTypes
<1>1. /\ pc = "next" /\ sch <= N /\ sch' = sch /\ pc' = "fake" /\ AllocDevice
      /\ devices' = devices /\ devsch' = [devsch EXCEPT ![dev'] = sch]
      /\ enabled' = enabled \cup {sch}
      /\ answered' = answered /\ mute' = mute /\ stuck' = stuck
    BY DEF Enable, faults
<1>2. /\ dev' = alloc' /\ alloc' \in 1..N /\ alloc' <= sch
      /\ Len(answered) = alloc' - 1
      /\ Listed' = Listed
    BY <1>1, AllocFacts
<1>0. /\ type' \in [1..N -> {NULL, "fake", "driver"}]
      /\ \A i \in 1..Len(answered) : type'[i] = type[i]
    BY <1>1, AllocFacts
<1>3. StructInv'
  <2>1. dev' # NULL /\ Len(answered)' = alloc' - 1
    BY <1>1, <1>2
  <2>2. answered' \in Seq(1..N) /\ \A i \in 1..Len(answered') : answered'[i] = i
    BY <1>1 DEF StructInv
  <2>3. sch' \in 1..(N + 1) /\ pc' = "fake" /\ alloc' <= sch' /\ alloc' \in 0..N /\ alloc' >= 1
    BY <1>1, <1>2
  <2> QED BY <1>1, <1>2, <2>1, <2>2, <2>3 DEF StructInv, InHand
<1>4. devsch \in [1..N -> 0..N] /\ \A i \in 1..Len(answered) : devsch'[i] = devsch[i]
  <2>1. devsch \in [1..N -> 0..N]
      BY DEF SubchannelInv
  <2>2. ASSUME NEW i \in 1..Len(answered) PROVE i \in 1..N /\ i # dev'
    <3>1. PICK n \in 0..N : n = Len(answered)
        OBVIOUS
    <3>2. i \in 1..n /\ n = alloc' - 1 /\ alloc' \in 1..N /\ dev' = alloc'
        BY <1>2, <3>1
    <3>3. i \in 1..N
        BY ONLY <3>2, <3>1, N \in Nat
    <3>4. i # alloc'
        BY ONLY <3>2, <3>1, N \in Nat
    <3> QED BY <3>2, <3>3, <3>4
  <2> QED BY <1>1, <2>1, <2>2
<1>5. SubchannelInv'
  <2>1. devsch' \in [1..N -> 0..N] /\ devsch'[alloc'] = sch
      BY <1>1, <1>2, <1>4
  <2> QED BY <1>1, <1>2, <1>4, <2>1 DEF SubchannelInv, InHand
<1>6. LinkInv'
    BY <1>1, <1>2 DEF LinkInv
<1>7. UseInv'
  <2>1. \A i \in 1..Len(answered') : type'[i] # "fake"
      BY <1>1, <1>0 DEF UseInv
  <2>2. ASSUME NEW s \in enabled' \ (mute' \cup stuck')
        PROVE  s = sch \/ \E i \in 1..Len(answered') : devsch'[i] = s /\ type'[i] = "driver"
    <3>1. CASE s = sch
        BY <3>1
    <3>2. CASE s # sch
      <4>1. s \in enabled \ (mute \cup stuck) /\ ~InHand
          BY <3>2, <1>1 DEF InHand
      <4>2. PICK i \in 1..Len(answered) : devsch[i] = s /\ type[i] = "driver"
          BY <4>1 DEF UseInv
      <4> QED BY <4>2, <1>0, <1>1, <1>4
    <3> QED BY <3>1, <3>2
  <2> QED BY <1>0, <1>1, <2>1, <2>2, SMTT(40) DEF UseInv, InHand
<1> QED BY <1>3, <1>5, <1>6, <1>7

\* The device is registered for the sake of its first I/O (RegisterFake).  If its
\* struct is in the list already, then as the last one, and now leads to itself.
LEMMA RegisterFakeKeeps == ASSUME ScanInv, RegisterFake PROVE ScanInv'
<1>0. ScanTypes /\ StructInv /\ SubchannelInv /\ LinkInv /\ UseInv
    BY ScanFacts DEF ScanInv
<1>1. /\ pc = "fake" /\ sch' = sch /\ pc' = "sense" /\ dev' = dev /\ alloc' = alloc
      /\ devices' = ListAddTail(devices, dev, 0)
      /\ devsch' = devsch /\ type' = [type EXCEPT ![dev] = "fake"] /\ enabled' = enabled
      /\ answered' = answered /\ mute' = mute /\ stuck' = stuck
    BY DEF RegisterFake, faults, Head0
<1>2. PICK L \in 0..N : L = Len(answered)
    BY <1>0 DEF ScanTypes
<1>3. PICK n \in 0..N : n = Listed
    BY <1>0 DEF ScanTypes
<1>4. /\ N \in Nat /\ dev = alloc /\ alloc \in 1..N /\ alloc = L + 1 /\ dev # NULL
      /\ Poison \notin 0..N
    BY <1>0, <1>1, <1>2 DEF ScanTypes, StructInv, InHand
<1>5. /\ devices \in Links(0..N) /\ devices.prev[0] = n
      /\ \A i \in 0..(n - 1) : devices.next[i] = i + 1
      /\ devices.next[n] = 0 \/ (devices.next[n] = n /\ mute # {})
      /\ \A i \in (n + 1)..N : devices.next[i] = Poison
      /\ mute = {} => \A i \in 1..n : devices.prev[i] = i - 1
      /\ n = L \/ mute # {}
    BY <1>0, <1>1, <1>2, <1>3 DEF LinkInv
<1>6. n = L \/ n = alloc
    BY <1>2, <1>3, <1>4 DEF Listed
<1>7. /\ devices' \in Links(0..N)
      /\ \A d \in 0..N : devices'.next[d] =
            IF d = n THEN alloc ELSE IF d = alloc THEN 0 ELSE devices.next[d]
      /\ \A d \in 0..N : devices'.prev[d] =
            IF d = alloc THEN n ELSE IF d = 0 THEN alloc ELSE devices.prev[d]
  <2>1. 0 \in 0..N /\ alloc \in 0..N /\ dev = alloc
      BY <1>4
  <2>2. devices \in Links(0..N) /\ devices.prev[0] = n /\ n \in 0..N
      BY <1>5
  <2>3. devices' = Added(devices, alloc, 0)
    <3>1. ListAddTail(devices, alloc, 0) = Added(devices, alloc, 0)
        BY <2>1, <2>2, ListOps, Zenon
    <3> QED BY <3>1, <2>1, <1>1, Zenon
  <2>4. AddLinks(Added(devices, alloc, 0), devices, 0..N, alloc, 0, n)
      BY <2>1, <2>2, AddFacts, Zenon
  <2> QED BY <2>3, <2>4, Zenon DEF AddLinks
<1>8. StructInv'
    BY <1>0, <1>1 DEF StructInv, InHand
<1>9. SubchannelInv'
    BY <1>0, <1>1 DEF SubchannelInv, InHand
<1>10. LinkInv'
  <2>1. devices'.next[alloc] \in 0..N
      BY <1>4, <1>7
  <2>2. Listed' = alloc
      BY <1>1, <1>2, <1>4, <2>1 DEF Listed
  <2>3. \A i \in 0..(alloc - 1) : devices'.next[i] = i + 1
    <3> SUFFICES ASSUME NEW i \in 0..(alloc - 1) PROVE devices'.next[i] = i + 1
        OBVIOUS
    <3>1. i \in 0..N /\ i # alloc
        BY ONLY <1>4, i \in 0..(alloc - 1)
    <3>2. CASE i = n
      <4>1. n # alloc
          BY <3>1, <3>2
      <4>2. devices'.next[i] = alloc
          BY <3>1, <3>2, <1>7
      <4> QED BY ONLY <4>1, <4>2, <3>2, <1>4, <1>6
    <3>3. CASE i # n
      <4>1. devices'.next[i] = devices.next[i]
          BY <3>1, <3>3, <1>7
      <4>2. i \in 0..(n - 1)
          BY ONLY <3>1, <3>3, <1>4, <1>6, i \in 0..(alloc - 1), n \in 0..N, L \in 0..N
      <4> QED BY <4>1, <4>2, <1>5
    <3> QED BY <3>2, <3>3
  <2>4. devices'.prev[0] = alloc
      BY <1>4, <1>7
  <2>5. /\ n # alloc => devices'.next[alloc] = 0 /\ devices'.prev[alloc] = alloc - 1
        /\ n = alloc => devices'.next[alloc] = alloc /\ devices'.prev[alloc] = alloc /\ mute # {}
    <3>1. devices'.next[alloc] = (IF alloc = n THEN alloc ELSE 0) /\ devices'.prev[alloc] = n
        BY <1>4, <1>7
    <3>2. n # alloc => n = alloc - 1
        BY ONLY <1>4, <1>6, n \in 0..N, L \in 0..N
    <3>3. n = alloc => mute # {}
        BY ONLY <1>4, <1>5, n \in 0..N, L \in 0..N
    <3> QED BY <3>1, <3>2, <3>3
  <2>6. \A i \in (alloc + 1)..N : devices'.next[i] = Poison
    <3> SUFFICES ASSUME NEW i \in (alloc + 1)..N PROVE devices'.next[i] = Poison
        OBVIOUS
    <3>1. i \in 0..N /\ i # alloc /\ i # n /\ i \in (n + 1)..N
        BY ONLY <1>4, <1>6, n \in 0..N, L \in 0..N, i \in (alloc + 1)..N
    <3> QED BY <3>1, <1>5, <1>7
  <2>7. mute = {} => \A i \in 1..alloc : devices'.prev[i] = i - 1
    <3> SUFFICES ASSUME mute = {}, NEW i \in 1..alloc PROVE devices'.prev[i] = i - 1
        OBVIOUS
    <3>1. i \in 0..N /\ i # 0 /\ (i = alloc \/ i \in 1..n)
        BY ONLY <1>4, <1>6, n \in 0..N, L \in 0..N, i \in 1..alloc
    <3>2. CASE i = alloc
        BY <3>2, <2>5
    <3>3. CASE i # alloc
        BY <3>1, <3>3, <1>5, <1>7
    <3> QED BY <3>2, <3>3
  <2>8. alloc # 0
      BY <1>4
  <2> QED BY <1>1, <1>7, <2>2, <2>3, <2>4, <2>5, <2>6, <2>7, <2>8 DEF LinkInv
<1>11. UseInv'
  <2>1. type \in [1..N -> {NULL, "fake", "driver"}] /\ \A i \in 1..L : type[i] # "fake"
      BY <1>0, <1>2 DEF UseInv
  <2>2. \A i \in 1..L : i \in 1..N /\ i # dev
      BY ONLY <1>4, L \in 0..N
  <2>3. type' \in [1..N -> {NULL, "fake", "driver"}] /\ \A i \in 1..L : type'[i] = type[i]
      BY <1>1, <1>4, <2>1, <2>2
  <2> QED BY <1>0, <1>1, <1>2, <2>1, <2>3 DEF UseInv, InHand
<1> QED BY <1>8, <1>9, <1>10, <1>11 DEF ScanInv

\* The device does not answer (SenseIdFails): its struct stays in the list, and in
\* hand.
LEMMA SenseIdFailsKeeps == ASSUME ScanInv, SenseIdFails PROVE ScanInv'
<1>0. ScanTypes /\ StructInv /\ SubchannelInv /\ LinkInv /\ UseInv
    BY ScanFacts DEF ScanInv
<1>1. /\ pc = "sense" /\ sch' = sch + 1 /\ pc' = "next" /\ dev' = dev /\ alloc' = alloc
      /\ devices' = devices /\ devsch' = devsch /\ type' = type /\ enabled' = enabled
      /\ answered' = answered /\ mute' = mute \cup {sch} /\ stuck' = stuck
    BY DEF SenseIdFails
<1>2. /\ dev # NULL /\ alloc <= sch /\ sch <= N /\ N \in Nat /\ alloc \in 0..N /\ sch \in 1..(N + 1)
    BY <1>0, <1>1 DEF ScanTypes, StructInv, InHand
<1>3. StructInv'
    BY <1>0, <1>1, <1>2 DEF StructInv, InHand
<1>4. SubchannelInv'
  <2>1. \A i \in 1..Len(answered) : 1 <= devsch[i] /\ devsch[i] < sch /\ devsch[i] \in Int
      BY <1>1, ScanFacts, <1>0 DEF SubchannelInv
  <2>2. \A i \in 1..Len(answered) : devsch[i] < sch + 1
      BY <1>2, <2>1
  <2> QED BY <1>0, <1>1, <2>1, <2>2 DEF SubchannelInv, InHand
<1>5. Listed' = Listed /\ mute' # {}
    BY <1>1 DEF Listed
<1>6. LinkInv'
    BY <1>0, <1>1, <1>5 DEF LinkInv
<1>7. UseInv'
    BY <1>0, <1>1, <1>2 DEF UseInv, InHand
<1> QED BY <1>3, <1>4, <1>6, <1>7 DEF ScanInv

\* The device answers (SenseId), and a driver is looked for.
LEMMA SenseIdKeeps == ASSUME ScanInv, SenseId PROVE ScanInv'
<1>0. ScanTypes /\ StructInv /\ SubchannelInv /\ LinkInv /\ UseInv
    BY ScanFacts DEF ScanInv
<1>1. /\ pc = "sense" /\ sch' = sch /\ pc' = "real" /\ dev' = dev /\ alloc' = alloc
      /\ devices' = devices /\ devsch' = devsch /\ enabled' = enabled
      /\ answered' = Append(answered, dev) /\ mute' = mute /\ stuck' = stuck
      /\ \E t \in {NULL, "driver"} : type' = [type EXCEPT ![dev] = t]
    BY DEF SenseId, faults
<1>2. PICK L \in 0..N : L = Len(answered)
    BY <1>0 DEF ScanTypes
<1>3. /\ N \in Nat /\ dev = alloc /\ alloc \in 1..N /\ alloc = L + 1 /\ dev # NULL
      /\ alloc <= sch /\ sch <= N /\ sch \in 1..(N + 1)
    BY <1>0, <1>1, <1>2 DEF ScanTypes, StructInv, InHand
<1>4. /\ answered' \in Seq(1..N) /\ Len(answered') = L + 1 /\ Len(answered') = alloc
      /\ \A i \in 1..(L + 1) : answered'[i] = i
  <2>1. answered \in Seq(1..N) /\ \A i \in 1..L : answered[i] = i
      BY <1>0, <1>2 DEF StructInv
  <2>2. /\ answered' \in Seq(1..N) /\ Len(answered') = L + 1
        /\ answered'[L + 1] = dev /\ \A i \in 1..L : answered'[i] = answered[i]
      BY <1>1, <1>2, <1>3, <2>1, AppendProperties
  <2>3. ASSUME NEW i \in 1..(L + 1) PROVE answered'[i] = i
    <3>1. i \in 1..L \/ i = L + 1
        OBVIOUS
    <3> QED BY <3>1, <1>3, <2>1, <2>2
  <2> QED BY <1>3, <2>2, <2>3
<1>5. StructInv'
    BY <1>1, <1>3, <1>4 DEF StructInv, InHand
<1>6. SubchannelInv'
  <2>1. /\ devsch \in [1..N -> 0..N] /\ devsch[alloc] = sch
        /\ \A i \in 1..L : 1 <= devsch[i] /\ devsch[i] < sch
        /\ \A i, j \in 1..L : i < j => devsch[i] < devsch[j]
      BY <1>0, <1>1, <1>2 DEF SubchannelInv, InHand
  <2>2. \A i \in 1..(L + 1) : i \in 1..L \/ i = alloc
      BY <1>3
  <2>3. ASSUME NEW i \in 1..(L + 1)
        PROVE  1 <= devsch[i] /\ IF i = alloc THEN devsch[i] = sch ELSE devsch[i] < sch
      BY <1>3, <2>1, <2>2, SMTT(40)
  <2>4. ASSUME NEW i \in 1..(L + 1), NEW j \in 1..(L + 1), i < j
        PROVE  devsch[i] < devsch[j]
    <3>1. i \in 1..L /\ (j \in 1..L \/ j = alloc)
        BY <1>3, <2>4
    <3> QED BY <3>1, <2>1, <2>4
  <2> QED BY <1>1, <1>4, <2>1, <2>3, <2>4 DEF SubchannelInv, InHand
<1>7. LinkInv'
  <2>1. Listed = alloc
      BY <1>0, <1>1 DEF LinkInv
  <2>2. Listed' = alloc
      BY <1>1, <1>4 DEF Listed
  <2> QED BY <1>0, <1>1, <1>4, <2>1, <2>2 DEF LinkInv
<1>8. UseInv'
  <2>1. type \in [1..N -> {NULL, "fake", "driver"}] /\ \A i \in 1..L : type[i] # "fake"
      BY <1>0, <1>2 DEF UseInv
  <2>2. /\ type' \in [1..N -> {NULL, "fake", "driver"}] /\ type'[alloc] \in {NULL, "driver"}
        /\ \A i \in 1..L : type'[i] = type[i]
      BY <1>1, <1>3, <2>1
  <2>3. NULL # "fake" /\ \A i \in 1..(L + 1) : i \in 1..L \/ i = alloc
      BY <1>0, <1>3 DEF ScanTypes
  <2>4. \A i \in 1..(L + 1) : type'[i] # "fake"
      BY <2>1, <2>2, <2>3
  <2>5. ASSUME NEW s \in enabled \ (mute \cup stuck)
        PROVE  s = sch \/ \E i \in 1..(L + 1) : devsch[i] = s /\ type'[i] = "driver"
    <3>1. CASE s # sch
      <4>1. PICK i \in 1..L : devsch[i] = s /\ type[i] = "driver"
          BY <3>1, <1>0, <1>2 DEF UseInv
      <4>2. i \in 1..(L + 1) /\ type'[i] = "driver"
          BY <4>1, <2>2
      <4> QED BY <4>1, <4>2
    <3> QED BY <3>1
  <2> QED BY <1>1, <1>4, <2>2, <2>4, <2>5 DEF UseInv, InHand
<1> QED BY <1>5, <1>6, <1>7, <1>8 DEF ScanInv

\* The second registration removes the device from the list and adds it again
\* (RegisterReal): as it was the last one, the links are what they were, also those
\* of a device that leads to itself.
LEMMA RelistingKeepsLinks ==
    ASSUME ScanInv, pc = "real"
    PROVE  ListAddTail(ListDel(devices, dev), dev, 0) = devices
<1>0. ScanTypes /\ StructInv /\ LinkInv
    BY ScanFacts DEF ScanInv
<1>1. dev = alloc /\ alloc \in 1..N /\ Len(answered) = alloc /\ N \in Nat /\ Poison \notin 0..N
    BY <1>0 DEF StructInv, InHand, ScanTypes
<1>2. Listed = alloc
    BY <1>1 DEF Listed
<1>3. /\ devices \in Links(0..N) /\ devices.prev[0] = alloc
      /\ \A i \in 0..(alloc - 1) : devices.next[i] = i + 1
      /\ devices.next[alloc] = 0 \/ devices.next[alloc] = alloc
      /\ devices.prev[alloc] = IF devices.next[alloc] = 0 THEN alloc - 1 ELSE alloc
    BY <1>0, <1>2 DEF LinkInv
<1> DEFINE g == Deleted(devices, alloc)
           h == Added(g, alloc, 0)
<1>4. 0 \in 0..N /\ alloc \in 0..N /\ alloc - 1 \in 0..N /\ alloc # 0 /\ alloc # alloc - 1
    BY <1>1
<1>5. \E l \in 0..N :
        /\ DelLinks(g, devices, 0..N, alloc, l, devices.next[alloc])
        /\ l = devices.prev[alloc] /\ g.prev[0] = l
  <2>1. CASE devices.next[alloc] = 0
    <3>1. devices.prev[alloc] = alloc - 1
        BY <2>1, <1>3
    <3>2. DelLinks(g, devices, 0..N, alloc, alloc - 1, 0)
        BY <2>1, <3>1, <1>3, <1>4, DelFacts, Zenon
    <3>3. g.prev[0] = alloc - 1
        BY <3>2, <1>4 DEF DelLinks
    <3> QED BY <2>1, <3>1, <3>2, <3>3, <1>4
  <2>2. CASE devices.next[alloc] = alloc
    <3>1. devices.prev[alloc] = alloc
        BY <2>2, <1>3, <1>4
    <3>2. DelLinks(g, devices, 0..N, alloc, alloc, alloc)
        BY <2>2, <3>1, <1>3, <1>4, DelFacts, Zenon
    <3>3. g.prev[0] = alloc
        BY <3>2, <1>3, <1>4 DEF DelLinks
    <3> QED BY <2>2, <3>1, <3>2, <3>3, <1>4
  <2> QED BY <2>1, <2>2, <1>3
<1>6. PICK l \in 0..N :
        /\ DelLinks(g, devices, 0..N, alloc, l, devices.next[alloc])
        /\ l = devices.prev[alloc] /\ g.prev[0] = l
    BY <1>5
<1>7. g \in Links(0..N)
    BY <1>6 DEF DelLinks
<1>8. AddLinks(h, g, 0..N, alloc, 0, l)
    BY <1>4, <1>6, <1>7, AddFacts, Zenon
<1>9. h \in Links(0..N)
    BY <1>8 DEF AddLinks
<1>10. ASSUME NEW d \in 0..N
       PROVE  h.next[d] = devices.next[d] /\ h.prev[d] = devices.prev[d]
  <2>1. /\ g.next[d] = IF d = alloc THEN Poison ELSE IF d = l THEN devices.next[alloc]
                       ELSE devices.next[d]
        /\ g.prev[d] = IF d = alloc THEN Poison ELSE IF d = devices.next[alloc] THEN l
                       ELSE devices.prev[d]
      BY <1>6 DEF DelLinks
  <2>2. /\ h.next[d] = IF d = l THEN alloc ELSE IF d = alloc THEN 0 ELSE g.next[d]
        /\ h.prev[d] = IF d = alloc THEN l ELSE IF d = 0 THEN alloc ELSE g.prev[d]
      BY <1>8 DEF AddLinks
  <2> HIDE DEF g, h
  <2>3. CASE devices.next[alloc] = 0
    <3>1. l = alloc - 1 /\ devices.next[l] = alloc
        BY <2>3, <1>1, <1>3, <1>6
    <3> QED BY <2>1, <2>2, <2>3, <3>1, <1>3, <1>4, <1>6
  <2>4. CASE devices.next[alloc] = alloc
    <3>1. l = alloc
        BY <2>4, <1>3, <1>4, <1>6
    <3> QED BY <2>1, <2>2, <2>4, <3>1, <1>3, <1>4, <1>6
  <2> QED BY <2>3, <2>4, <1>3
<1>11. ListDel(devices, dev) = g
    BY <1>1, <1>3, <1>4, ListOps, Zenon
<1>12. ListAddTail(g, dev, 0) = h
    BY <1>1, <1>4, <1>7, ListOps, Zenon
<1> HIDE DEF g, h
<1>13. h = devices
  <2>1. devices \in Links(0..N) /\ h \in Links(0..N)
      BY <1>3, <1>9
  <2>2. LeadAlike(h, devices, 0..N)
      BY <1>10, Zenon DEF LeadAlike
  <2> QED BY <2>1, <2>2, SameLinks, Zenon
<1> QED BY <1>11, <1>12, <1>13, Zenon

\* The second registration (RegisterReal).
LEMMA RegisterRealKeeps == ASSUME ScanInv, RegisterReal PROVE ScanInv'
<1>0. ScanTypes /\ StructInv /\ SubchannelInv /\ LinkInv /\ UseInv
    BY ScanFacts DEF ScanInv
<1>1. /\ pc = "real" /\ alloc' = alloc /\ devsch' = devsch /\ enabled' = enabled
      /\ answered' = answered /\ mute' = mute /\ stuck' = stuck
      /\ devices' = ListAddTail(ListDel(devices, dev), dev, 0)
      /\ \/ /\ type[dev] # NULL /\ dev' = NULL /\ sch' = sch + 1 /\ pc' = "next"
            /\ type' = type
         \/ /\ type' = [type EXCEPT ![dev] = NULL] /\ pc' = "disable"
            /\ dev' = dev /\ sch' = sch
    BY DEF RegisterReal, Relist, faults, Head0
<1>2. devices' = devices
    BY <1>1, RelistingKeepsLinks
<1>3. PICK L \in 0..N : L = Len(answered)
    BY <1>0 DEF ScanTypes
<1>4. /\ N \in Nat /\ dev = alloc /\ alloc \in 1..N /\ alloc = L /\ dev # NULL
      /\ alloc <= sch /\ sch <= N /\ sch \in 1..(N + 1) /\ NULL # "fake"
    BY <1>0, <1>1, <1>3 DEF ScanTypes, StructInv, InHand
<1>5. /\ answered \in Seq(1..N) /\ \A i \in 1..Len(answered) : answered[i] = i
    BY <1>0 DEF StructInv
<1>6. /\ devsch \in [1..N -> 0..N] /\ devsch[alloc] = sch
      /\ \A i \in 1..L : 1 <= devsch[i] /\ devsch[i] <= sch /\ devsch[i] < sch + 1
      /\ \A i \in 1..L : i = alloc \/ devsch[i] < sch
      /\ \A i, j \in 1..L : i < j => devsch[i] < devsch[j]
  <2>1. /\ devsch \in [1..N -> 0..N] /\ devsch[alloc] = sch
        /\ \A i, j \in 1..L : i < j => devsch[i] < devsch[j]
        /\ \A i \in 1..L : 1 <= devsch[i] /\ IF i = alloc THEN devsch[i] = sch ELSE devsch[i] < sch
      BY <1>0, <1>1, <1>3 DEF SubchannelInv, InHand
  <2>2. \A i \in 1..L : devsch[i] \in 0..N
      BY <2>1, <1>4
  <2> QED BY <2>1, <2>2, <1>4, SMTT(40)
<1>7. Listed' = alloc /\ Listed = alloc
    BY <1>1, <1>2, <1>3, <1>4 DEF Listed
<1>8. LinkInv'
    BY <1>0, <1>1, <1>2, <1>3, <1>4, <1>7 DEF LinkInv
<1>9. /\ type \in [1..N -> {NULL, "fake", "driver"}]
      /\ \A i \in 1..L : type[i] # "fake"
      /\ \A s \in enabled \ (mute \cup stuck) :
            s = sch \/ \E i \in 1..L : devsch[i] = s /\ type[i] = "driver"
    BY <1>0, <1>3 DEF UseInv
<1>10. CASE type[dev] # NULL /\ dev' = NULL /\ sch' = sch + 1 /\ pc' = "next" /\ type' = type
  <2>1. StructInv'
      BY <1>1, <1>3, <1>4, <1>5, <1>10 DEF StructInv, InHand
  <2>2. SubchannelInv'
      BY <1>1, <1>3, <1>6, <1>10 DEF SubchannelInv, InHand
  <2>3. alloc \in 1..L /\ type[alloc] = "driver"
      BY <1>4, <1>9, <1>10
  <2>4. \A s \in enabled \ (mute \cup stuck) : \E i \in 1..L : devsch[i] = s /\ type[i] = "driver"
      BY <1>6, <1>9, <2>3
  <2>5. UseInv'
      BY <1>1, <1>3, <1>9, <1>10, <2>4 DEF UseInv, InHand
  <2> QED BY <2>1, <2>2, <2>5, <1>8 DEF ScanInv
<1>11. CASE type' = [type EXCEPT ![dev] = NULL] /\ pc' = "disable" /\ dev' = dev /\ sch' = sch
  <2>1. StructInv'
      BY <1>1, <1>3, <1>4, <1>5, <1>11 DEF StructInv, InHand
  <2>2. SubchannelInv'
      BY <1>0, <1>1, <1>11 DEF SubchannelInv, InHand
  <2>3. /\ type' \in [1..N -> {NULL, "fake", "driver"}]
        /\ \A i \in 1..L : type'[i] = IF i = alloc THEN NULL ELSE type[i]
      BY <1>4, <1>9, <1>11
  <2>4. ASSUME NEW s \in enabled \ (mute \cup stuck), s # sch
        PROVE  \E i \in 1..L : devsch[i] = s /\ type'[i] = "driver"
    <3>1. PICK i \in 1..L : devsch[i] = s /\ type[i] = "driver"
        BY <2>4, <1>9
    <3>2. i # alloc
        BY <3>1, <2>4, <1>6
    <3> QED BY <3>1, <3>2, <2>3
  <2>5. UseInv'
      BY <1>1, <1>3, <1>4, <1>9, <1>11, <2>3, <2>4 DEF UseInv, InHand
  <2> QED BY <2>1, <2>2, <2>5, <1>8 DEF ScanInv
<1> QED BY <1>1, <1>10, <1>11

\* A device that nobody wants is disabled again, or cannot be (Disable).
LEMMA DisableKeeps == ASSUME ScanInv, Disable PROVE ScanInv'
<1>0. ScanTypes /\ StructInv /\ SubchannelInv /\ LinkInv /\ UseInv
    BY ScanFacts DEF ScanInv
<1>1. /\ pc = "disable" /\ dev' = NULL /\ sch' = sch + 1 /\ pc' = "next" /\ alloc' = alloc
      /\ devices' = devices /\ devsch' = devsch /\ type' = type
      /\ answered' = answered /\ mute' = mute
      /\ \/ enabled' = enabled \ {sch} /\ stuck' = stuck
         \/ enabled' = enabled /\ stuck' = stuck \cup {sch}
    BY DEF Disable
<1>2. PICK L \in 0..N : L = Len(answered)
    BY <1>0 DEF ScanTypes
<1>3. /\ N \in Nat /\ dev = alloc /\ alloc \in 1..N /\ alloc = L /\ dev # NULL
      /\ alloc <= sch /\ sch <= N /\ sch \in 1..(N + 1)
    BY <1>0, <1>1, <1>2 DEF ScanTypes, StructInv, InHand
<1>4. StructInv'
    BY <1>0, <1>1, <1>2, <1>3 DEF StructInv, InHand
<1>5. SubchannelInv'
  <2>1. /\ devsch \in [1..N -> 0..N] /\ \A i, j \in 1..L : i < j => devsch[i] < devsch[j]
        /\ \A i \in 1..L : 1 <= devsch[i] /\ IF i = alloc THEN devsch[i] = sch ELSE devsch[i] < sch
      BY <1>0, <1>1, <1>2 DEF SubchannelInv
  <2>2. \A i \in 1..L : devsch[i] \in 0..N
      BY <2>1, <1>3
  <2>3. \A i \in 1..L : devsch[i] < sch + 1
      BY <2>1, <2>2, <1>3, SMTT(40)
  <2> QED BY <1>1, <1>2, <2>1, <2>3 DEF SubchannelInv, InHand
<1>6. Listed' = Listed
    BY <1>1 DEF Listed
<1>7. LinkInv'
    BY <1>0, <1>1, <1>6 DEF LinkInv
<1>8. UseInv'
  <2>1. \A s \in enabled' \ (mute' \cup stuck') : s \in enabled \ (mute \cup stuck) /\ s # sch
      BY <1>1
  <2> QED BY <1>0, <1>1, <2>1 DEF UseInv, InHand
<1> QED BY <1>4, <1>5, <1>7, <1>8 DEF ScanInv

\* The scan ends (Finish).
LEMMA FinishKeeps == ASSUME ScanInv, Finish PROVE ScanInv'
<1>0. StructInv /\ SubchannelInv /\ LinkInv /\ UseInv
    BY DEF ScanInv
<1>1. /\ pc = "next" /\ pc' = "done" /\ dev' = dev /\ sch' = sch /\ alloc' = alloc
      /\ devices' = devices /\ devsch' = devsch /\ type' = type /\ enabled' = enabled
      /\ answered' = answered /\ mute' = mute /\ stuck' = stuck
    BY DEF Finish, faults
<1>2. StructInv'
    BY <1>0, <1>1 DEF StructInv, InHand
<1>3. SubchannelInv'
    BY <1>0, <1>1 DEF SubchannelInv, InHand
<1>4. Listed' = Listed
    BY <1>1 DEF Listed
<1>5. LinkInv'
    BY <1>0, <1>1, <1>4 DEF LinkInv
<1>6. UseInv'
    BY <1>0, <1>1 DEF UseInv, InHand
<1> QED BY <1>2, <1>3, <1>5, <1>6 DEF ScanInv

\* Every step of the scan keeps the invariant.
LEMMA ScanStep == ScanInv /\ [ScanNext]_scanVars => ScanInv'
<1> SUFFICES ASSUME ScanInv, [ScanNext]_scanVars PROVE ScanInv'
    OBVIOUS
<1>1. CASE NoDevice
    BY <1>1, NoDeviceKeeps
<1>2. CASE NotEnabled
    BY <1>2, NotEnabledKeeps
<1>3. CASE Enable
    BY <1>3, EnableKeeps
<1>4. CASE RegisterFake
    BY <1>4, RegisterFakeKeeps
<1>5. CASE SenseIdFails
    BY <1>5, SenseIdFailsKeeps
<1>6. CASE SenseId
    BY <1>6, SenseIdKeeps
<1>7. CASE RegisterReal
    BY <1>7, RegisterRealKeeps
<1>8. CASE Disable
    BY <1>8, DisableKeeps
<1>9. CASE Finish
    BY <1>9, FinishKeeps
<1>10. CASE UNCHANGED scanVars
    BY <1>10, ZenonT(90) DEF scanVars, ScanInv, StructInv, SubchannelInv, LinkInv, UseInv, InHand, Listed
<1> QED BY <1>1, <1>2, <1>3, <1>4, <1>5, <1>6, <1>7, <1>8, <1>9, <1>10 DEF ScanNext

\* A walk from the head passes the devices in the list, in their order.
LEMMA WalkPasses ==
    ASSUME ScanInv, NEW k \in Nat, Listed <= k
    PROVE  \A i \in 0..Listed : Walk(devices, 0, k)[i] = i
<1>0. ScanTypes /\ LinkInv
    BY ScanFacts DEF ScanInv
<1>1. PICK n \in 0..N : n = Listed
    BY <1>0 DEF ScanTypes
<1>2. N \in Nat /\ Poison \notin 0..N /\ \A i \in 0..(n - 1) : devices.next[i] = i + 1
    BY <1>0, <1>1 DEF ScanTypes, LinkInv
<1>3. PICK w : w = Walk(devices, 0, k)
    OBVIOUS
<1>4. IsWalk(w, devices, 0, k)
    BY <1>3, WalkIsWalk
<1>5. PICK f : f = [i \in 0..n |-> i]
    OBVIOUS
<1>6. f[0] = 0 /\ n \in 0..k /\ \A i \in 0..n : f[i] = i
    BY <1>1, <1>5
<1>7. IsWay(f, devices, n)
  <2> SUFFICES ASSUME NEW i \in 0..(n - 1)
               PROVE  f[i] # Poison /\ devices.next[f[i]] = f[i + 1]
      BY DEF IsWay
  <2>1. i \in 0..n /\ i + 1 \in 0..n /\ i \in 0..N
      BY <1>2
  <2>2. f[i] = i /\ f[i + 1] = i + 1 /\ devices.next[i] = i + 1
      BY <2>1, <1>2, <1>6
  <2> QED BY <2>1, <2>2, <1>2
<1>8. \A i \in 0..n : w[i] = f[i]
    BY <1>4, <1>6, <1>7, WalkFollows
<1> QED BY <1>1, <1>3, <1>6, <1>8

\* find_device_by_sch finds the device that was sensed on a subchannel (Found).
LEMMA FoundIsOwn ==
    ASSUME ScanInv, NEW d \in 1..Len(answered)
    PROVE  Found(devsch[d]) = d
<1>0. ScanTypes /\ SubchannelInv
    BY ScanFacts DEF ScanInv
<1>1. PICK L \in 0..N : L = Len(answered)
    BY <1>0 DEF ScanTypes
<1>2. PICK w : w = Walk(devices, 0, N + 1)
    OBVIOUS
<1>3. N \in Nat /\ Poison \notin 0..N /\ N + 1 \in Nat /\ Listed \in 0..N /\ Listed >= L
    BY <1>0, <1>1 DEF ScanTypes, Listed
<1>4. \A i \in 0..Listed : w[i] = i
  <2>1. Listed <= N + 1
      BY <1>3
  <2> QED BY <1>2, <1>3, <2>1, WalkPasses
<1>5. \A i \in 1..L : w[i] = i /\ i # Poison /\ i # 0
  <2> SUFFICES ASSUME NEW i \in 1..L PROVE w[i] = i /\ i # Poison /\ i # 0
      OBVIOUS
  <2>1. i \in 0..Listed /\ i \in 0..N /\ i # 0
      BY <1>3
  <2> QED BY <2>1, <1>3, <1>4
<1>6. PICK hits : hits = {i \in 1..(N + 1) : w[i] # Poison
                            /\ (w[i] = 0 \/ devsch[w[i]] = devsch[d])}
    OBVIOUS
<1>7. d \in 1..L /\ d \in hits
  <2>1. d \in 1..L /\ d \in 1..(N + 1)
      BY <1>1, <1>3
  <2> QED BY <2>1, <1>5, <1>6
<1>8. ASSUME NEW i \in hits PROVE d <= i
  <2>1. i \in 1..(N + 1) /\ d \in 1..L
      BY <1>6, <1>7
  <2>2. CASE i < d
    <3>1. i \in 1..L
        BY <2>1, <2>2
    <3>2. w[i] = i /\ i # 0 /\ devsch[i] = devsch[d]
        BY <3>1, <1>5, <1>6, <1>8
    <3>3. devsch[i] < devsch[d] /\ devsch[d] \in Int
        BY <3>1, <2>1, <2>2, <1>0, <1>1, <1>3 DEF SubchannelInv
    <3> QED BY <3>2, <3>3
  <2> QED BY <2>1, <2>2
<1>9. (CHOOSE i \in hits : \A j \in hits : i <= j) = d
  <2>1. PICK c : c = CHOOSE i \in hits : \A j \in hits : i <= j
      OBVIOUS
  <2>2. c \in hits /\ \A j \in hits : c <= j
      BY <2>1, <1>7, <1>8
  <2>3. c <= d /\ d <= c /\ c \in Int /\ d \in Int
      BY <2>2, <1>6, <1>7, <1>8
  <2> QED BY <2>1, <2>3
<1>10. Found(devsch[d]) = IF hits = {} THEN Poison
           ELSE IF w[CHOOSE i \in hits : \A j \in hits : i <= j] = 0 THEN NULL
                ELSE w[CHOOSE i \in hits : \A j \in hits : i <= j]
    BY <1>2, <1>6 DEF Found, Head0
<1> QED BY <1>5, <1>7, <1>9, <1>10

\* The invariant of the scan (scan_devices) holds in every state.
THEOREM ScanInvariance == ScanSpec => []ScanInv
    BY ScanStarts, ScanStep, PTL DEF ScanSpec

\* Whatever fails, find_device_by_sch finds every device that was sensed by its
\* subchannel, and no other device in its place: for any number of subchannels.
THEOREM DevicesAreFound == ScanSpec => []OwnSubchannel
<1>1. ASSUME ScanInv PROVE OwnSubchannel
  <2>1. \A i \in 1..Len(answered) : answered[i] = i
      BY <1>1 DEF ScanInv, StructInv
  <2> QED BY <1>1, <2>1, FoundIsOwn DEF OwnSubchannel
<1> QED BY <1>1, ScanInvariance, PTL

\* After the scan every subchannel that may interrupt has a device with a driver,
\* unless SENSE ID or the resetting of its enabled bit failed, and no device that
\* was sensed is left with the fake type (scan_devices).
THEOREM ScannedDevicesAreUsable == ScanSpec => []ScannedIsUsable
<1>1. ASSUME ScanInv PROVE ScannedIsUsable
  <2> SUFFICES ASSUME pc = "done"
               PROVE  /\ \A s \in enabled \ (mute \cup stuck) :
                            Found(s) \in Devs /\ type[Found(s)] = "driver"
                      /\ \A i \in 1..Len(answered) : type[answered[i]] # "fake"
      BY DEF ScannedIsUsable
  <2>1. UseInv /\ ScanTypes /\ \A i \in 1..Len(answered) : answered[i] = i
      BY <1>1, ScanFacts DEF ScanInv, StructInv
  <2>2. \A i \in 1..Len(answered) : type[answered[i]] # "fake"
      BY <2>1 DEF UseInv
  <2>3. ASSUME NEW s \in enabled \ (mute \cup stuck)
        PROVE  Found(s) \in 1..N /\ type[Found(s)] = "driver"
    <3>1. PICK i \in 1..Len(answered) : devsch[i] = s /\ type[i] = "driver"
        BY <2>1 DEF UseInv, InHand
    <3>2. Found(s) = i
        BY <1>1, <3>1, FoundIsOwn
    <3>3. i \in 1..N
        BY <2>1 DEF ScanTypes
    <3> QED BY <3>1, <3>2, <3>3
  <2> QED BY <2>2, <2>3 DEF Devs
<1> QED BY <1>1, ScanInvariance, PTL

\* As long as every SENSE ID is answered, the list that __register_device keeps
\* holds the devices that were sensed, in the order of their subchannels, each once
\* and linked both ways, and the one that is being identified.
THEOREM DeviceListIsSound == ScanSpec => []ListIsSound
<1>1. ASSUME ScanInv PROVE ListIsSound
  <2> DEFINE q == IF pc = "sense" THEN Append(answered, dev) ELSE answered
  <2>1. SUFFICES ASSUME mute = {} PROVE IsList(devices, 0, q, Len(q))
      BY DEF ListIsSound, Head0
  <2>2. ScanTypes /\ StructInv /\ LinkInv
      BY <1>1, ScanFacts DEF ScanInv
  <2>3. PICK n \in 0..N : n = Listed
      BY <2>2 DEF ScanTypes
  <2>4. q \in Seq(1..N) /\ Len(q) = n /\ \A i \in 1..n : q[i] = i
    <3>1. answered \in Seq(1..N) /\ \A i \in 1..Len(answered) : answered[i] = i
        BY <2>2 DEF StructInv
    <3>2. CASE pc = "sense"
      <4>1. n = alloc /\ dev = alloc /\ alloc \in 1..N /\ Len(answered) = alloc - 1
          BY <3>2, <2>2, <2>3 DEF ScanTypes, StructInv, LinkInv, InHand
      <4>2. PICK L \in 0..N : L = Len(answered)
          BY <2>2 DEF ScanTypes
      <4>3. /\ q = Append(answered, dev) /\ q \in Seq(1..N) /\ Len(q) = L + 1
            /\ q[L + 1] = dev /\ \A i \in 1..L : q[i] = answered[i]
          BY <3>1, <3>2, <4>1, <4>2, AppendProperties
      <4>4. ASSUME NEW i \in 1..n PROVE q[i] = i
        <5>1. i \in 1..L \/ i = L + 1
            BY <4>1, <4>2
        <5> HIDE DEF q
        <5> QED BY <5>1, <3>1, <4>1, <4>2, <4>3
      <4> HIDE DEF q
      <4> QED BY <4>1, <4>2, <4>3, <4>4
    <3>3. CASE pc # "sense"
      <4>1. n = Len(answered)
          BY <3>3, <2>1, <2>2, <2>3 DEF LinkInv
      <4> QED BY <3>1, <3>3, <4>1
    <3> QED BY <3>2, <3>3
  <2> HIDE DEF q
  <2>5. /\ N \in Nat /\ Poison \notin 0..N
        /\ \A i \in 0..(n - 1) : devices.next[i] = i + 1
        /\ devices.next[n] = 0 /\ devices.prev[0] = n
        /\ \A i \in 1..n : devices.prev[i] = i - 1
      BY <2>1, <2>2, <2>3 DEF ScanTypes, LinkInv
  <2>6. PICK w : w = Walk(devices, 0, n + 1)
      OBVIOUS
  <2>7. n + 1 \in Nat /\ IsWalk(w, devices, 0, n + 1)
    <3>1. n + 1 \in Nat
        BY <2>5
    <3> QED BY <3>1, <2>6, WalkIsWalk
  <2>8. \A i \in 0..n : w[i] = i
    <3>1. Listed <= n + 1
        BY <2>3
    <3> QED BY <1>1, <2>3, <2>6, <2>7, <3>1, WalkPasses
  <2>9. w[n + 1] = 0
    <3>1. n + 1 \in 0..(n + 1) /\ n + 1 # 0 /\ (n + 1) - 1 = n /\ n \in 0..n /\ n \in 0..N
        BY <2>5
    <3>2. w[n + 1] = IF w[n] = Poison THEN Poison ELSE devices.next[w[n]]
        BY <3>1, <2>7 DEF IsWalk
    <3>3. w[n] = n /\ n # Poison
        BY <3>1, <2>5, <2>8
    <3> QED BY <3>2, <3>3, <2>5
  <2>10. Visits(devices, 0, q, n)
    <3>1. \A i \in 1..n : w[i] = q[i]
        BY <2>4, <2>8
    <3> QED BY <3>1, <2>6, <2>9 DEF Visits
  <2>11. devices.prev[0] = IF n = 0 THEN 0 ELSE q[n]
      BY <2>4, <2>5
  <2>12. \A i \in 1..n : devices.prev[q[i]] = IF i = 1 THEN 0 ELSE q[i - 1]
    <3> SUFFICES ASSUME NEW i \in 1..n
                 PROVE  devices.prev[q[i]] = IF i = 1 THEN 0 ELSE q[i - 1]
        OBVIOUS
    <3>1. q[i] = i /\ devices.prev[i] = i - 1
        BY <2>4, <2>5
    <3>2. i # 1 => i - 1 \in 1..n
        OBVIOUS
    <3> QED BY <3>1, <3>2, <2>4
  <2> QED BY <2>4, <2>10, <2>11, <2>12, Zenon DEF IsList
<1> QED BY <1>1, ScanInvariance, PTL

-----------------------------------------------------------------------------
(* The run queue (RunQueue).                                               *)

\* The i-th node of the queue q, with the head before the first and after the last.
At(q, i) == IF i \in 1..Len(q) THEN q[i] ELSE Queue

\* The links lead along the queue, from the head and back to it, and those of its
\* tasks lead back as well.
Chained(h, q) ==
    /\ \A i \in 0..Len(q) : h.next[At(q, i)] = At(q, i + 1)
    /\ \A i \in 1..Len(q) : h.prev[q[i]] = At(q, i - 1)

\* ... and the head leads to the last one.
Linked(h, q) == Chained(h, q) /\ h.prev[Queue] = At(q, Len(q))

\* The members of q are tasks, each once.
Distinct(q) ==
    /\ q \in Seq(Tasks)
    /\ \A i, j \in 1..Len(q) : q[i] = q[j] => i = j

QueueTypes ==
    /\ links \in Links(Tasks \cup {Queue})
    /\ current \in Tasks \cup {Idle}
    /\ exists \subseteq Tasks /\ blocked \subseteq exists
    /\ step \in [Tasks -> 0..5]
    /\ new \in [Tasks -> Tasks \cup {NULL}]
    /\ last \in [Tasks -> Tasks \cup {Queue, NULL}]
    /\ Distinct(fifo)
    /\ crashed = FALSE

\* Where tasks are: each that exists runs, waits, is queued or is being added, and
\* is one of these only.
PlaceInv ==
    /\ current \in Tasks => current \in exists \ blocked
    /\ \A i \in 1..Len(fifo) : fifo[i] \in exists \ (blocked \cup {current})
    /\ \A u \in Tasks : step[u] \in 3..5 => u = current
    /\ \A u \in Tasks : step[u] # 0 =>
          /\ new[u] \in exists \ (blocked \cup {current})
          /\ \A i \in 1..Len(fifo) : fifo[i] # new[u]
          /\ \A v \in Tasks : step[v] # 0 /\ new[v] = new[u] => v = u
    /\ \A t \in exists :
          \/ t \in blocked \cup {current}
          \/ \E i \in 1..Len(fifo) : fifo[i] = t
          \/ \E u \in Tasks : step[u] # 0 /\ new[u] = t

\* The links, also between the stores that add a task.
QueueLinkInv ==
    /\ Chained(links, fifo)
    /\ links.prev[Queue] = IF Storing THEN new[current] ELSE At(fifo, Len(fifo))
    /\ Storing => /\ last[current] = At(fifo, Len(fifo))
                  /\ step[current] >= 4 => links.next[new[current]] = Queue
                  /\ step[current] = 5 => links.prev[new[current]] = last[current]

QueueInv == QueueTypes /\ PlaceInv /\ QueueLinkInv

\* The nodes of the queue by their place, with the head before and after them.
LEMMA AtFacts ==
    ASSUME NEW q, Distinct(q)
    PROVE  /\ Len(q) \in Nat
           /\ \A i \in 1..Len(q) : At(q, i) = q[i] /\ q[i] \in Tasks
           /\ At(q, 0) = Queue /\ At(q, Len(q) + 1) = Queue
           /\ \A i \in 0..(Len(q) + 1) : At(q, i) \in Tasks \cup {Queue}
           /\ \A i, j \in 0..Len(q) : At(q, i) = At(q, j) => i = j
           /\ \A i, j \in 1..(Len(q) + 1) : At(q, i) = At(q, j) => i = j
<1>1. PICK n \in Nat : n = Len(q)
    BY LenProperties DEF Distinct
<1>2. \A i \in 1..n : At(q, i) = q[i] /\ q[i] \in Tasks
    BY <1>1, ElementOfSeq DEF Distinct, At
<1>3. At(q, 0) = Queue /\ At(q, n + 1) = Queue
    BY <1>1 DEF At
<1>4. \A i \in 0..(n + 1) : i = 0 \/ i \in 1..n \/ i = n + 1
    BY <1>1
<1>5. \A i \in 0..(n + 1) : At(q, i) \in Tasks \cup {Queue}
    BY <1>2, <1>3, <1>4
<1>6. Queue \notin Tasks /\ \A i, j \in 1..n : q[i] = q[j] => i = j
    BY <1>1, TaskAssumption DEF Distinct
<1>7. ASSUME NEW i \in 0..n, NEW j \in 0..n, At(q, i) = At(q, j) PROVE i = j
  <2>1. (i = 0 \/ i \in 1..n) /\ (j = 0 \/ j \in 1..n)
      OBVIOUS
  <2>2. CASE i \in 1..n /\ j \in 1..n
      BY <2>2, <1>2, <1>6, <1>7
  <2>3. CASE i = 0 \/ j = 0
      BY <2>1, <2>3, <1>2, <1>3, <1>6, <1>7
  <2> QED BY <2>1, <2>2, <2>3
<1>8. ASSUME NEW i \in 1..(n + 1), NEW j \in 1..(n + 1), At(q, i) = At(q, j) PROVE i = j
  <2>1. (i = n + 1 \/ i \in 1..n) /\ (j = n + 1 \/ j \in 1..n)
      OBVIOUS
  <2>2. CASE i \in 1..n /\ j \in 1..n
      BY <2>2, <1>2, <1>6, <1>8
  <2>3. CASE i = n + 1 \/ j = n + 1
      BY <2>1, <2>3, <1>2, <1>3, <1>6, <1>8
  <2> QED BY <2>1, <2>2, <2>3
<1> QED BY <1>1, <1>2, <1>3, <1>5, <1>7, <1>8

\* Appending a task to the queue.
LEMMA AtAppend ==
    ASSUME NEW q, Distinct(q), NEW x \in Tasks,
           \A i \in 1..Len(q) : q[i] # x
    PROVE  /\ Distinct(Append(q, x)) /\ Len(Append(q, x)) = Len(q) + 1
           /\ \A i \in 1..Len(q) : Append(q, x)[i] = q[i]
           /\ Append(q, x)[Len(q) + 1] = x
           /\ \A i \in 0..Len(q) : At(Append(q, x), i) = At(q, i)
           /\ At(Append(q, x), Len(q) + 1) = x
           /\ At(Append(q, x), Len(q) + 2) = Queue
<1>1. PICK n \in Nat : n = Len(q)
    BY AtFacts
<1>2. PICK r : r = Append(q, x)
    OBVIOUS
<1>3. /\ r \in Seq(Tasks) /\ Len(r) = n + 1 /\ r[n + 1] = x /\ \A i \in 1..n : r[i] = q[i]
    BY <1>1, <1>2, AppendProperties DEF Distinct
<1>4. Distinct(r)
  <2>1. ASSUME NEW i \in 1..(n + 1), NEW j \in 1..(n + 1), r[i] = r[j] PROVE i = j
    <3>1. (i = n + 1 \/ i \in 1..n) /\ (j = n + 1 \/ j \in 1..n)
        OBVIOUS
    <3>2. \A k \in 1..n : q[k] # x /\ r[k] = q[k]
        BY <1>1, <1>3
    <3>3. CASE i \in 1..n /\ j \in 1..n
        BY <3>3, <2>1, <1>1, <1>3 DEF Distinct
    <3>4. CASE i = n + 1 \/ j = n + 1
        BY <3>1, <3>2, <3>4, <2>1, <1>3
    <3> QED BY <3>1, <3>3, <3>4
  <2> QED BY <1>3, <2>1 DEF Distinct
<1>5. ASSUME NEW i \in 0..n PROVE At(r, i) = At(q, i)
  <2>1. i = 0 \/ i \in 1..n
      OBVIOUS
  <2>2. i \in 1..n => i \in 1..(n + 1)
      OBVIOUS
  <2> QED BY <2>1, <2>2, <1>1, <1>3 DEF At
<1>6. At(r, n + 1) = x /\ At(r, n + 2) = Queue
    BY <1>3 DEF At
<1> QED BY <1>1, <1>2, <1>3, <1>4, <1>5, <1>6

\* Taking the first task off the queue.
LEMMA AtRest ==
    ASSUME NEW q, Distinct(q), Len(q) # 0
    PROVE  LET r == SubSeq(q, 2, Len(q))
           IN  /\ Distinct(r) /\ Len(r) = Len(q) - 1
               /\ \A i \in 1..Len(r) : r[i] = q[i + 1]
               /\ \A i \in 1..Len(q) : At(r, i) = At(q, i + 1)
               /\ At(r, 0) = Queue
<1>1. PICK n \in Nat : n = Len(q)
    BY AtFacts
<1>2. PICK r : r = SubSeq(q, 2, Len(q))
    OBVIOUS
<1>3. n >= 1 /\ q \in Seq(Tasks)
    BY <1>1 DEF Distinct
<1>4. /\ r \in Seq(Tasks) /\ Len(r) = n - 1 /\ \A i \in 1..(n - 1) : r[i] = q[i + 1]
    BY <1>1, <1>2, <1>3, SubSeqProperties
<1>5. Distinct(r)
  <2>1. ASSUME NEW i \in 1..(n - 1), NEW j \in 1..(n - 1), r[i] = r[j] PROVE i = j
    <3>1. i + 1 \in 1..n /\ j + 1 \in 1..n /\ q[i + 1] = q[j + 1]
        BY <1>4, <2>1
    <3>2. i + 1 = j + 1
        BY <3>1, <1>1 DEF Distinct
    <3> QED BY <3>2
  <2> QED BY <1>4, <2>1 DEF Distinct
<1>6. ASSUME NEW i \in 1..n PROVE At(r, i) = At(q, i + 1)
  <2>1. CASE i = n
      BY <2>1, <1>1, <1>4 DEF At
  <2>2. CASE i # n
    <3>1. i \in 1..(n - 1) /\ i + 1 \in 1..n
        BY <2>2
    <3> QED BY <3>1, <1>1, <1>4 DEF At
  <2> QED BY <2>1, <2>2
<1>7. At(r, 0) = Queue
    BY <1>4, <1>3 DEF At
<1> QED BY <1>1, <1>2, <1>4, <1>5, <1>6, <1>7

\* list_add_tail makes a chain a linked list with one task more, whatever the head's
\* link to the last one was.
LEMMA AddedIsLinked ==
    ASSUME NEW q, Distinct(q), NEW x \in Tasks,
           \A i \in 1..Len(q) : q[i] # x,
           NEW h, Chained(h, q), NEW g,
           AddLinks(g, h, Tasks \cup {Queue}, x, Queue, At(q, Len(q)))
    PROVE  Linked(g, Append(q, x))
<1>1. PICK n \in Nat : n = Len(q)
    BY AtFacts
<1>2. PICK r : r = Append(q, x)
    OBVIOUS
<1>3. /\ Len(r) = n + 1 /\ r[n + 1] = x /\ At(r, n + 1) = x /\ At(r, n + 2) = Queue
      /\ \A i \in 1..n : r[i] = q[i]
      /\ \A i \in 0..n : At(r, i) = At(q, i)
    BY <1>1, <1>2, AtAppend
<1>4. /\ \A i \in 1..n : At(q, i) = q[i] /\ q[i] \in Tasks
      /\ At(q, 0) = Queue /\ At(q, n + 1) = Queue
      /\ \A i \in 0..(n + 1) : At(q, i) \in Tasks \cup {Queue}
      /\ \A i, j \in 0..n : At(q, i) = At(q, j) => i = j
    BY <1>1, AtFacts
<1>5. x # Queue /\ \A i \in 0..n : At(q, i) # x
  <2>1. x # Queue
      BY TaskAssumption
  <2>2. ASSUME NEW i \in 0..n PROVE At(q, i) # x
    <3>1. i = 0 \/ i \in 1..n
        OBVIOUS
    <3> QED BY <3>1, <2>1, <1>1, <1>4
  <2> QED BY <2>1, <2>2
<1>6. \A d \in Tasks \cup {Queue} :
        /\ g.next[d] = IF d = At(q, n) THEN x ELSE IF d = x THEN Queue ELSE h.next[d]
        /\ g.prev[d] = IF d = x THEN At(q, n) ELSE IF d = Queue THEN x ELSE h.prev[d]
    BY <1>1 DEF AddLinks
<1>7. /\ \A i \in 0..n : h.next[At(q, i)] = At(q, i + 1)
      /\ \A i \in 1..n : h.prev[q[i]] = At(q, i - 1)
    BY <1>1 DEF Chained
<1>8. ASSUME NEW i \in 0..(n + 1) PROVE g.next[At(r, i)] = At(r, i + 1)
  <2>1. CASE i = n + 1
    <3>1. At(r, i) = x /\ At(r, i + 1) = Queue
        BY <2>1, <1>3
    <3>2. x # At(q, n)
        BY <1>5
    <3> QED BY <3>1, <3>2, <1>6
  <2>2. CASE i = n
    <3>1. At(r, i) = At(q, n) /\ At(r, i + 1) = x /\ At(q, n) \in Tasks \cup {Queue}
        BY <2>2, <1>3, <1>4
    <3> QED BY <3>1, <1>6
  <2>3. CASE i \in 0..(n - 1)
    <3>1. i \in 0..n /\ i + 1 \in 0..n /\ n \in 0..n /\ i # n /\ i \in 0..(n + 1)
        BY <2>3
    <3>2. At(r, i) = At(q, i) /\ At(r, i + 1) = At(q, i + 1) /\ At(q, i) # At(q, n) /\ At(q, i) # x
        BY <3>1, <1>3, <1>4, <1>5
    <3>3. g.next[At(q, i)] = h.next[At(q, i)]
        BY <3>1, <3>2, <1>4, <1>6
    <3> QED BY <3>1, <3>2, <3>3, <1>7
  <2> QED BY <2>1, <2>2, <2>3
<1>9. ASSUME NEW i \in 1..(n + 1) PROVE g.prev[r[i]] = At(r, i - 1)
  <2>1. CASE i = n + 1
    <3>1. r[i] = x /\ i - 1 = n /\ At(r, n) = At(q, n)
        BY <2>1, <1>3
    <3> QED BY <3>1, <1>6
  <2>2. CASE i \in 1..n
    <3>1. r[i] = q[i] /\ q[i] \in Tasks /\ q[i] # x /\ q[i] # Queue
        BY <2>2, <1>1, <1>3, <1>4, TaskAssumption
    <3>2. i - 1 \in 0..n
        BY <2>2
    <3>3. g.prev[q[i]] = h.prev[q[i]]
        BY <3>1, <1>6
    <3> QED BY <2>2, <3>1, <3>2, <3>3, <1>3, <1>7
  <2> QED BY <2>1, <2>2
<1>10. g.prev[Queue] = x
    BY <1>5, <1>6
<1> QED BY <1>2, <1>3, <1>8, <1>9, <1>10 DEF Linked, Chained

\* list_del of the first task leaves a linked list of the others.
LEMMA DeletedIsLinked ==
    ASSUME NEW q, Distinct(q), Len(q) # 0, NEW h, Linked(h, q), NEW g,
           DelLinks(g, h, Tasks \cup {Queue}, q[1], Queue, At(q, 2))
    PROVE  Linked(g, SubSeq(q, 2, Len(q)))
<1>1. PICK n \in Nat : n = Len(q) /\ n >= 1
    BY AtFacts
<1>2. PICK r : r = SubSeq(q, 2, Len(q))
    OBVIOUS
<1>3. /\ Len(r) = n - 1 /\ \A i \in 1..(n - 1) : r[i] = q[i + 1]
      /\ \A i \in 1..n : At(r, i) = At(q, i + 1)
      /\ At(r, 0) = Queue
    BY <1>1, <1>2, AtRest
<1>4. /\ \A i \in 1..n : At(q, i) = q[i] /\ q[i] \in Tasks
      /\ At(q, 0) = Queue /\ At(q, n + 1) = Queue
      /\ \A i \in 0..(n + 1) : At(q, i) \in Tasks \cup {Queue}
      /\ \A i, j \in 1..(n + 1) : At(q, i) = At(q, j) => i = j
    BY <1>1, AtFacts
<1>5. \A d \in Tasks \cup {Queue} :
        /\ g.next[d] = IF d = q[1] THEN Poison ELSE IF d = Queue THEN At(q, 2) ELSE h.next[d]
        /\ g.prev[d] = IF d = q[1] THEN Poison ELSE IF d = At(q, 2) THEN Queue ELSE h.prev[d]
    BY DEF DelLinks
<1>6. /\ \A i \in 0..n : h.next[At(q, i)] = At(q, i + 1)
      /\ \A i \in 1..n : h.prev[q[i]] = At(q, i - 1)
      /\ h.prev[Queue] = At(q, n)
    BY <1>1 DEF Linked, Chained
<1>7. q[1] = At(q, 1) /\ q[1] # Queue
    BY <1>1, <1>4, TaskAssumption
<1>8. ASSUME NEW i \in 0..(n - 1) PROVE g.next[At(r, i)] = At(r, i + 1)
  <2>1. CASE i = 0
    <3>1. At(r, i) = Queue /\ At(r, i + 1) = At(q, 2)
        BY <2>1, <1>1, <1>3
    <3> QED BY <3>1, <1>5, <1>7
  <2>2. CASE i # 0
    <3>1. i \in 1..n /\ i + 1 \in 1..n /\ i + 1 # 1 /\ (i + 1) + 1 = i + 2 /\ 1 \in 1..n
        BY <2>2, <1>1
    <3>2. At(r, i) = q[i + 1] /\ At(r, i + 1) = At(q, i + 2)
        BY <3>1, <1>3, <1>4
    <3>3. q[i + 1] \in Tasks /\ q[i + 1] # Queue /\ q[i + 1] # q[1]
        BY <3>1, <1>1, <1>4, TaskAssumption DEF Distinct
    <3>4. h.next[q[i + 1]] = At(q, i + 2)
      <4>1. i + 1 \in 0..n /\ At(q, i + 1) = q[i + 1]
          BY <3>1, <1>4
      <4> QED BY <4>1, <3>1, <1>6
    <3> QED BY <3>2, <3>3, <3>4, <1>5
  <2> QED BY <2>1, <2>2
\* The link back from the node after the i-th one.
<1>9. ASSUME NEW i \in 1..n PROVE g.prev[At(q, i + 1)] = IF i = 1 THEN Queue ELSE At(q, i)
  <2>1. i + 1 \in 1..(n + 1) /\ 1 \in 1..(n + 1) /\ 2 \in 1..(n + 1) /\ i + 1 # 1 /\ i + 1 \in 0..(n + 1)
      BY <1>1
  <2>2. At(q, i + 1) # q[1] /\ At(q, i + 1) \in Tasks \cup {Queue}
      BY <2>1, <1>4, <1>7
  <2>3. CASE i = 1
      BY <2>2, <2>3, <1>5
  <2>4. CASE i # 1
    <3>1. At(q, i + 1) # At(q, 2)
        BY <2>1, <2>4, <1>4
    <3>2. h.prev[At(q, i + 1)] = At(q, i)
      <4>1. CASE i = n
          BY <4>1, <1>4, <1>6
      <4>2. CASE i # n
        <5>1. i + 1 \in 1..n /\ (i + 1) - 1 = i
            BY <4>2
        <5> QED BY <5>1, <1>4, <1>6
      <4> QED BY <4>1, <4>2
    <3> QED BY <2>2, <2>4, <3>1, <3>2, <1>5
  <2> QED BY <2>3, <2>4
<1>10. ASSUME NEW i \in 1..(n - 1) PROVE g.prev[r[i]] = At(r, i - 1)
  <2>1. i \in 1..n /\ i + 1 \in 1..n /\ (i # 1 => i - 1 \in 1..n /\ (i - 1) + 1 = i)
      BY <1>1
  <2>2. r[i] = At(q, i + 1)
      BY <2>1, <1>3, <1>4
  <2>3. At(r, i - 1) = IF i = 1 THEN Queue ELSE At(q, i)
      BY <2>1, <1>3
  <2> QED BY <2>1, <2>2, <2>3, <1>9
<1>11. g.prev[Queue] = At(r, n - 1)
  <2>1. n \in 1..n /\ (n # 1 => n - 1 \in 1..n /\ (n - 1) + 1 = n)
      BY <1>1
  <2>2. At(r, n - 1) = IF n = 1 THEN Queue ELSE At(q, n)
      BY <2>1, <1>3
  <2> QED BY <2>1, <2>2, <1>4, <1>9
<1> QED BY <1>2, <1>3, <1>8, <1>10, <1>11 DEF Linked, Chained

\* What __sched does with a linked list: idle if it is empty, else the first task
\* runs and is taken off; it never meets a poisoned link.
LEMMA SchedTakesFirst ==
    ASSUME NEW q, Distinct(q), NEW h \in Links(Tasks \cup {Queue}),
           Linked(h, q), Sched(h, q)
    PROVE  /\ crashed' = crashed /\ links' \in Links(Tasks \cup {Queue})
           /\ Linked(links', fifo')
           /\ Len(q) = 0 => current' = Idle /\ fifo' = q
           /\ Len(q) # 0 => current' = q[1] /\ fifo' = SubSeq(q, 2, Len(q))
<1>1. PICK n \in Nat : n = Len(q)
    BY AtFacts
<1>2. h.next[Queue] = At(q, 1)
    BY <1>1, AtFacts DEF Linked, Chained
<1>3. CASE n = 0
  <2>1. h.next[Queue] = Queue
      BY <1>1, <1>2, <1>3 DEF At
  <2>2. current' = Idle /\ links' = h /\ fifo' = q /\ crashed' = crashed
      BY <2>1 DEF Sched
  <2> QED BY <2>2, <1>1, <1>3
<1>4. CASE n # 0
  <2>1. q[1] \in Tasks /\ At(q, 1) = q[1] /\ At(q, 0) = Queue
      BY <1>1, <1>4, AtFacts
  <2>2. q[1] # Queue /\ q[1] # Poison /\ Queue # Poison
      BY <2>1, TaskAssumption
  <2>3. h.prev[q[1]] = Queue /\ h.next[q[1]] = At(q, 2)
    <3>1. 1 \in 1..n /\ 1 \in 0..n
        BY <1>4
    <3> QED BY <3>1, <2>1, <1>1 DEF Linked, Chained
  <2>4. At(q, 2) \in Tasks \cup {Queue} /\ At(q, 2) # Poison
    <3>1. 2 \in 0..(n + 1)
        BY <1>4
    <3>2. At(q, 2) \in Tasks \cup {Queue}
        BY <3>1, <1>1, AtFacts
    <3> QED BY <3>2, TaskAssumption
  <2>5. /\ current' = q[1] /\ links' = ListDel(h, q[1])
        /\ fifo' = SubSeq(q, 2, Len(q)) /\ crashed' = crashed
    <3>1. h.next[Queue] = q[1]
        BY <1>2, <2>1
    <3>2. h.next[q[1]] # Poison /\ h.prev[q[1]] # Poison
        BY <2>2, <2>3, <2>4
    <3> QED BY <2>2, <3>1, <3>2 DEF Sched
  <2>6. links' = Deleted(h, q[1])
    <3>1. q[1] \in Tasks \cup {Queue}
        BY <2>1
    <3> QED BY <2>5, <3>1, ListOps, Zenon
  <2>7. DelLinks(links', h, Tasks \cup {Queue}, q[1], Queue, At(q, 2))
    <3>1. q[1] \in Tasks \cup {Queue} /\ Queue \in Tasks \cup {Queue}
        BY <2>1
    <3> QED BY <2>3, <2>4, <2>6, <3>1, DelFacts, Zenon
  <2>8. links' \in Links(Tasks \cup {Queue})
      BY <2>7 DEF DelLinks
  <2>9. Linked(links', fifo')
      BY <2>5, <2>7, <1>1, <1>4, DeletedIsLinked
  <2> QED BY <2>5, <2>8, <2>9, <1>1, <1>4
<1> QED BY <1>3, <1>4

\* When the scheduler has started the boot task, the invariant holds (Init).
LEMMA QueueStarts == QueueInit => QueueInv
<1> SUFFICES ASSUME QueueInit PROVE QueueInv
    OBVIOUS
<1> DEFINE D == Tasks \cup {Queue}
<1>1. /\ fifo = <<>> /\ Len(fifo) = 0 /\ Distinct(fifo)
  <2>1. fifo = <<>>
      BY DEF QueueInit
  <2> QED BY <2>1, EmptySeq DEF Distinct
<1>2. PICK a : a = [d \in D |-> Poison]
    OBVIOUS
<1>3. links = [next |-> [a EXCEPT ![Queue] = Queue], prev |-> [a EXCEPT ![Queue] = Queue]]
  <2>1. PICK h : h = [next |-> a, prev |-> a]
      OBVIOUS
  <2>2. PICK h1 : h1 = [h EXCEPT !.next[Queue] = Queue]
      OBVIOUS
  <2>3. PICK h2 : h2 = [h1 EXCEPT !.prev[Queue] = Queue]
      OBVIOUS
  <2>4. links = h2
      BY <1>2, <2>1, <2>2, <2>3, Zenon DEF QueueInit, InitListHead, Nodes
  <2>5. h2 = [next |-> [a EXCEPT ![Queue] = Queue], prev |-> [a EXCEPT ![Queue] = Queue]]
      BY <2>1, <2>2, <2>3, StoreFacts, Zenon
  <2> QED BY <2>4, <2>5
<1>4. links \in Links(D) /\ links.next[Queue] = Queue /\ links.prev[Queue] = Queue
    BY <1>2, <1>3 DEF Links
<1>5. PICK boot \in Tasks : current = boot /\ exists = {boot}
    BY DEF QueueInit
<1>6. /\ blocked = {} /\ step = [t \in Tasks |-> 0] /\ crashed = FALSE
      /\ new = [t \in Tasks |-> NULL] /\ last = [t \in Tasks |-> NULL]
    BY DEF QueueInit
<1>7. ~Storing
    BY <1>6 DEF Storing
<1>8. QueueTypes
    BY <1>1, <1>4, <1>5, <1>6 DEF QueueTypes
<1>9. PlaceInv
    BY <1>1, <1>5, <1>6, <1>7 DEF PlaceInv
<1>10. QueueLinkInv
  <2>1. At(fifo, 0) = Queue /\ At(fifo, 1) = Queue
      BY <1>1 DEF At
  <2> QED BY <1>1, <1>4, <1>7, <2>1 DEF QueueLinkInv, Chained
<1> QED BY <1>8, <1>9, <1>10 DEF QueueInv

\* The queue q holds every task that exists after the step, does not wait and is not
\* being added, and no other.
Holds(q) ==
    /\ exists' \subseteq Tasks /\ blocked' \subseteq exists'
    /\ \A i \in 1..Len(q) : q[i] \in exists' \ blocked'
    /\ \A u \in Tasks : step[u] # 0 =>
          /\ new[u] \in exists' \ blocked'
          /\ \A i \in 1..Len(q) : q[i] # new[u]
    /\ \A t \in exists' : \/ t \in blocked' \/ \E i \in 1..Len(q) : q[i] = t
                          \/ \E u \in Tasks : step[u] # 0 /\ new[u] = t

\* __sched switches to the first task of a linked list that holds every such task.
LEMMA SwitchKeeps ==
    ASSUME QueueInv, ~Storing, step' = step, new' = new, last' = last,
           NEW q, Distinct(q), NEW h \in Links(Tasks \cup {Queue}), Linked(h, q),
           Sched(h, q), Holds(q)
    PROVE  QueueInv'
<1>0. /\ exists' \subseteq Tasks /\ blocked' \subseteq exists'
      /\ \A i \in 1..Len(q) : q[i] \in exists' \ blocked'
      /\ \A u \in Tasks : step[u] # 0 => /\ new[u] \in exists' \ blocked'
                                         /\ \A i \in 1..Len(q) : q[i] # new[u]
      /\ \A t \in exists' : \/ t \in blocked' \/ \E i \in 1..Len(q) : q[i] = t
                            \/ \E u \in Tasks : step[u] # 0 /\ new[u] = t
    BY DEF Holds
<1>1. /\ crashed' = crashed /\ links' \in Links(Tasks \cup {Queue})
      /\ Linked(links', fifo')
      /\ Len(q) = 0 => current' = Idle /\ fifo' = q
      /\ Len(q) # 0 => current' = q[1] /\ fifo' = SubSeq(q, 2, Len(q))
    BY SchedTakesFirst
<1>2. /\ crashed = FALSE /\ step \in [Tasks -> 0..5]
      /\ new \in [Tasks -> Tasks \cup {NULL}] /\ last \in [Tasks -> Tasks \cup {Queue, NULL}]
      /\ \A u \in Tasks : step[u] # 0 =>
            \A v \in Tasks : step[v] # 0 /\ new[v] = new[u] => v = u
    BY DEF QueueInv, QueueTypes, PlaceInv
<1>3. PICK n \in Nat : n = Len(q)
    BY AtFacts
<1>4. ~Storing' /\ \A u \in Tasks : step'[u] \notin 3..5
  <2>1. \A u \in Tasks : step[u] \in 3..5 => u = current
      BY DEF QueueInv, PlaceInv
  <2>2. \A u \in Tasks : step[u] \notin 3..5
      BY <2>1 DEF Storing
  <2> QED BY <2>2 DEF Storing
<1>5. CASE n = 0
  <2>1. current' = Idle /\ fifo' = q /\ Idle \notin Tasks
      BY <1>1, <1>3, <1>5, TaskAssumption
  <2>2. QueueTypes'
      BY <1>0, <1>1, <1>2, <2>1 DEF QueueTypes
  <2>3. \A i \in 1..Len(q) : FALSE
      BY <1>3, <1>5
  <2>4. \A u \in Tasks : step[u] # 0 => new[u] \in exists' \ (blocked' \cup {Idle})
      BY <1>0, <2>1
  <2>5. PlaceInv'
      BY <1>0, <1>2, <1>4, <2>1, <2>3, <2>4, ZenonT(60) DEF PlaceInv
  <2>6. QueueLinkInv'
      BY <1>1, <1>4 DEF QueueLinkInv, Linked
  <2> QED BY <2>2, <2>5, <2>6 DEF QueueInv
<1>6. CASE n # 0
  <2>1. PICK r : r = SubSeq(q, 2, Len(q))
      OBVIOUS
  <2>2. current' = q[1] /\ fifo' = r
      BY <1>1, <1>3, <1>6, <2>1
  <2>3. Distinct(r) /\ Len(r) = n - 1 /\ \A i \in 1..(n - 1) : r[i] = q[i + 1]
      BY <1>3, <1>6, <2>1, AtRest
  <2>4. \A i \in 1..n : q[i] \in Tasks /\ q[i] \in exists' \ blocked'
      BY <1>0, <1>3, AtFacts
  <2>5. q[1] \in Tasks /\ q[1] \in exists' \ blocked'
      BY <1>6, <2>4
  <2>6. ASSUME NEW i \in 1..(n - 1) PROVE r[i] \in exists' \ (blocked' \cup {q[1]})
    <3>1. i + 1 \in 1..n /\ 1 \in 1..n /\ i + 1 # 1
        OBVIOUS
    <3>2. q[i + 1] # q[1]
        BY <3>1, <1>3 DEF Distinct
    <3> QED BY <3>1, <3>2, <2>3, <2>4
  <2>7. ASSUME NEW u \in Tasks, step[u] # 0
        PROVE  /\ new[u] \in exists' \ (blocked' \cup {q[1]})
               /\ \A i \in 1..(n - 1) : r[i] # new[u]
    <3>1. new[u] \in exists' \ blocked' /\ \A i \in 1..n : q[i] # new[u]
        BY <1>0, <1>3, <2>7
    <3>2. 1 \in 1..n /\ \A i \in 1..(n - 1) : i + 1 \in 1..n
        BY <1>6
    <3> QED BY <3>1, <3>2, <2>3
  <2>8. ASSUME NEW t \in exists'
        PROVE  \/ t \in blocked' \cup {q[1]} \/ \E i \in 1..(n - 1) : r[i] = t
               \/ \E u \in Tasks : step[u] # 0 /\ new[u] = t
    <3>1. CASE \E j \in 1..n : q[j] = t
      <4>1. PICK j \in 1..n : q[j] = t
          BY <3>1
      <4>2. CASE j = 1
          BY <4>1, <4>2
      <4>3. CASE j # 1
        <5>1. j - 1 \in 1..(n - 1) /\ (j - 1) + 1 = j
            BY <4>3
        <5> QED BY <5>1, <4>1, <2>3
      <4> QED BY <4>2, <4>3
    <3> QED BY <3>1, <1>0, <1>3
  <2>9. QueueTypes'
      BY <1>0, <1>1, <1>2, <2>2, <2>3, <2>5 DEF QueueTypes
  <2>10. PlaceInv'
    <3>1. /\ step' = step /\ new' = new /\ current' = q[1] /\ fifo' = r /\ Len(r) = n - 1
          /\ q[1] \in exists' \ blocked'
        BY <2>2, <2>3, <2>5
    <3>2. current' \in Tasks => current' \in exists' \ blocked'
        BY <3>1
    <3> QED BY <1>2, <1>4, <3>1, <3>2, <2>6, <2>7, <2>8, ZenonT(60) DEF PlaceInv
  <2>11. QueueLinkInv'
      BY <1>1, <1>4 DEF QueueLinkInv, Linked
  <2> QED BY <2>9, <2>10, <2>11 DEF QueueInv
<1> QED BY <1>5, <1>6

\* Outside of the stores of list_add_tail the links are a linked list of the queue.
LEMMA OutsideLinked ==
    ASSUME QueueInv, ~Storing
    PROVE  Linked(links, fifo)
BY DEF QueueInv, QueueLinkInv, Linked

\* The timer, outside of the stores of list_add_tail (Tick).
LEMMA TickKeeps == ASSUME QueueInv, Tick, ~torn' PROVE QueueInv'
<1>1. /\ step' = step /\ new' = new /\ last' = last /\ exists' = exists /\ blocked' = blocked
      /\ ~Storing
      /\ IF current = Idle THEN Sched(links, fifo)
         ELSE Sched(ListAddTail(links, current, Queue), Append(fifo, current))
    BY DEF Tick, adds
<1>2. ~Storing
    BY <1>1
<1>3. /\ links \in Links(Tasks \cup {Queue}) /\ Distinct(fifo) /\ current \in Tasks \cup {Idle}
      /\ exists \subseteq Tasks /\ blocked \subseteq exists
    BY DEF QueueInv, QueueTypes
<1>4. /\ current \in Tasks => current \in exists \ blocked
      /\ \A i \in 1..Len(fifo) : fifo[i] \in exists \ blocked /\ fifo[i] # current
      /\ \A t \in exists : \/ t \in blocked \cup {current}
                           \/ \E i \in 1..Len(fifo) : fifo[i] = t
                           \/ \E u \in Tasks : step[u] # 0 /\ new[u] = t
      /\ \A u \in Tasks : step[u] # 0 => /\ new[u] \in exists \ (blocked \cup {current})
                                         /\ \A i \in 1..Len(fifo) : fifo[i] # new[u]
    BY DEF QueueInv, PlaceInv
<1>5. Linked(links, fifo)
    BY <1>2, OutsideLinked
<1>6. CASE current = Idle
  <2>1. Sched(links, fifo)
      BY <1>1, <1>6
  <2>2. \A t \in exists' : \/ t \in blocked' \/ \E i \in 1..Len(fifo) : fifo[i] = t
                           \/ \E u \in Tasks : step[u] # 0 /\ new[u] = t
    <3>1. \A t \in exists : t # current
        BY <1>3, <1>6, TaskAssumption
    <3>2. ASSUME NEW t \in exists', t \notin blocked'
          PROVE  \/ \E i \in 1..Len(fifo) : fifo[i] = t
                 \/ \E u \in Tasks : step[u] # 0 /\ new[u] = t
      <4>1. t \in exists /\ t \notin blocked \cup {current}
          BY <3>1, <3>2, <1>1
      <4> QED BY <4>1, <1>4, Zenon
    <3> QED BY <3>2, Zenon
  <2>3. /\ \A i \in 1..Len(fifo) : fifo[i] \in exists' \ blocked'
        /\ \A u \in Tasks : step[u] # 0 => /\ new[u] \in exists' \ blocked'
                                           /\ \A i \in 1..Len(fifo) : fifo[i] # new[u]
      BY <1>1, <1>4
  <2>4. Holds(fifo)
      BY <1>1, <1>3, <2>2, <2>3 DEF Holds
  <2> QED BY <1>1, <1>2, <1>3, <1>5, <2>1, <2>4, SwitchKeeps, Zenon
<1>7. CASE current # Idle
  <2>1. current \in Tasks
      BY <1>3, <1>7
  <2>2. PICK q : q = Append(fifo, current)
      OBVIOUS
  <2>3. PICK n \in Nat : n = Len(fifo)
      BY <1>3, AtFacts
  <2>4. /\ Distinct(q) /\ Len(q) = n + 1 /\ q[n + 1] = current
        /\ \A i \in 1..n : q[i] = fifo[i]
      BY <1>3, <1>4, <2>1, <2>2, <2>3, AtAppend
  <2>5. PICK h : h = Added(links, current, Queue)
      OBVIOUS
  <2>6. current \in Tasks \cup {Queue} /\ Queue \in Tasks \cup {Queue}
      BY <2>1
  <2>7. ListAddTail(links, current, Queue) = h
      BY <1>3, <2>5, <2>6, ListOps, Zenon
  <2>8. links.prev[Queue] = At(fifo, Len(fifo)) /\ At(fifo, Len(fifo)) \in Tasks \cup {Queue}
    <3>1. n \in 0..(n + 1)
        OBVIOUS
    <3> QED BY <3>1, <2>3, <1>3, <1>5, AtFacts DEF Linked
  <2>9. AddLinks(h, links, Tasks \cup {Queue}, current, Queue, At(fifo, Len(fifo)))
      BY <1>3, <2>5, <2>6, <2>8, AddFacts, Zenon
  <2>10. h \in Links(Tasks \cup {Queue})
      BY <2>9 DEF AddLinks
  <2>11. Linked(h, q)
    <3>1. Chained(links, fifo) /\ \A i \in 1..Len(fifo) : fifo[i] # current
        BY <1>4, <1>5 DEF Linked
    <3> QED BY <1>3, <3>1, <2>1, <2>2, <2>9, AddedIsLinked, Zenon
  <2>12. Sched(h, q)
      BY <1>1, <1>7, <2>2, <2>7
  <2>13. \A i \in 1..Len(q) : q[i] \in exists' \ blocked'
    <3> SUFFICES ASSUME NEW i \in 1..(n + 1) PROVE q[i] \in exists \ blocked
        BY <1>1, <2>4
    <3>1. i \in 1..n \/ i = n + 1
        OBVIOUS
    <3> QED BY <3>1, <1>4, <2>1, <2>3, <2>4
  <2>14. ASSUME NEW t \in exists'
         PROVE  \/ t \in blocked' \/ \E i \in 1..Len(q) : q[i] = t
                \/ \E u \in Tasks : step[u] # 0 /\ new[u] = t
    <3>1. CASE t = current
      <4>1. n + 1 \in 1..Len(q)
          BY <2>4
      <4> QED BY <3>1, <4>1, <2>4
    <3>2. CASE \E i \in 1..n : fifo[i] = t
      <4>1. PICK i \in 1..n : fifo[i] = t
          BY <3>2
      <4>2. i \in 1..Len(q) /\ q[i] = t
          BY <4>1, <2>4
      <4> QED BY <4>2
    <3> QED BY <3>1, <3>2, <1>1, <1>4, <2>3
  <2>15. ASSUME NEW u \in Tasks, step[u] # 0
         PROVE  /\ new[u] \in exists' \ blocked'
                /\ \A i \in 1..Len(q) : q[i] # new[u]
    <3>1. /\ new[u] \in exists \ (blocked \cup {current})
          /\ \A i \in 1..n : fifo[i] # new[u]
        BY <2>15, <1>4, <2>3
    <3>2. \A i \in 1..(n + 1) : i \in 1..n \/ i = n + 1
        OBVIOUS
    <3> QED BY <3>1, <3>2, <1>1, <2>4
  <2>16. Holds(q)
      BY <1>1, <1>3, <2>13, <2>14, <2>15 DEF Holds
  <2> QED BY <1>1, <1>2, <2>4, <2>10, <2>11, <2>12, <2>16, SwitchKeeps, Zenon
<1> QED BY <1>6, <1>7

\* A task waits for a lock (ScheduleBlocked) or ends (Exit).
LEMMA LeaveKeeps ==
    ASSUME QueueInv, ScheduleBlocked \/ Exit
    PROVE  QueueInv'
<1>1. /\ step' = step /\ new' = new /\ last' = last /\ Sched(links, fifo)
      /\ current \in Tasks /\ step[current] = 0
      /\ \/ blocked' = blocked \cup {current} /\ exists' = exists
         \/ blocked' = blocked /\ exists' = exists \ {current}
    BY DEF ScheduleBlocked, Exit, adds
<1>2. ~Storing
    BY <1>1 DEF Storing
<1>3. /\ links \in Links(Tasks \cup {Queue}) /\ Distinct(fifo)
      /\ exists \subseteq Tasks /\ blocked \subseteq exists
    BY DEF QueueInv, QueueTypes
<1>4. /\ current \in exists \ blocked
      /\ \A i \in 1..Len(fifo) : fifo[i] \in exists \ blocked /\ fifo[i] # current
      /\ \A t \in exists : \/ t \in blocked \cup {current}
                           \/ \E i \in 1..Len(fifo) : fifo[i] = t
                           \/ \E u \in Tasks : step[u] # 0 /\ new[u] = t
      /\ \A u \in Tasks : step[u] # 0 => /\ new[u] \in exists \ (blocked \cup {current})
                                         /\ \A i \in 1..Len(fifo) : fifo[i] # new[u]
    BY <1>1 DEF QueueInv, PlaceInv
<1>5. Linked(links, fifo)
    BY <1>2, OutsideLinked
<1>6. exists' \subseteq Tasks /\ blocked' \subseteq exists'
    BY <1>1, <1>3, <1>4
<1>7. \A i \in 1..Len(fifo) : fifo[i] \in exists' \ blocked'
    BY <1>1, <1>4
<1>8. \A t \in exists' : \/ t \in blocked' \/ \E i \in 1..Len(fifo) : fifo[i] = t
                         \/ \E u \in Tasks : step[u] # 0 /\ new[u] = t
  <2>1. ASSUME NEW t \in exists', t \notin blocked'
        PROVE  \/ \E i \in 1..Len(fifo) : fifo[i] = t
               \/ \E u \in Tasks : step[u] # 0 /\ new[u] = t
    <3>1. t \in exists /\ t \notin blocked \cup {current}
        BY <2>1, <1>1, <1>4
    <3> QED BY <3>1, <1>4, Zenon
  <2> QED BY <2>1, Zenon
<1>9. \A u \in Tasks : step[u] # 0 => /\ new[u] \in exists' \ blocked'
                                      /\ \A i \in 1..Len(fifo) : fifo[i] # new[u]
    BY <1>1, <1>4
<1>10. Holds(fifo)
    BY <1>6, <1>7, <1>8, <1>9 DEF Holds
<1> QED BY <1>1, <1>2, <1>3, <1>5, <1>10, SwitchKeeps, Zenon

\* list_add_tail begins: in create_task, of a new task, or in make_runnable, of one
\* that waited (CreateTask, MakeRunnable).
LEMMA StartKeeps ==
    ASSUME QueueInv, NEW n \in Tasks,
           CreateTask(n) \/ MakeRunnable(n)
    PROVE  QueueInv'
<1>1. /\ current \in Tasks /\ step[current] = 0
      /\ step' = [step EXCEPT ![current] = 1] /\ new' = [new EXCEPT ![current] = n]
      /\ links' = links /\ current' = current /\ last' = last /\ fifo' = fifo
      /\ crashed' = crashed
      /\ \/ n \notin exists /\ exists' = exists \cup {n} /\ blocked' = blocked
         \/ n \in blocked /\ exists' = exists /\ blocked' = blocked \ {n}
    BY DEF CreateTask, MakeRunnable, StartAdd
<1>2. QueueTypes /\ PlaceInv /\ QueueLinkInv /\ ~Storing
    BY <1>1 DEF QueueInv, Storing
<1>3. /\ step \in [Tasks -> 0..5] /\ new \in [Tasks -> Tasks \cup {NULL}]
      /\ exists \subseteq Tasks /\ blocked \subseteq exists
    BY <1>2 DEF QueueTypes
<1>4. /\ step' \in [Tasks -> 0..5] /\ new' \in [Tasks -> Tasks \cup {NULL}]
      /\ step'[current] = 1 /\ new'[current] = n
      /\ \A u \in Tasks : u # current => step'[u] = step[u] /\ new'[u] = new[u]
    BY <1>1, <1>3
<1>5. ~Storing'
    BY <1>1, <1>4 DEF Storing
<1>6. exists' \subseteq Tasks /\ blocked' \subseteq exists' /\ n \in exists' \ blocked'
    BY <1>1, <1>3
<1>7. QueueTypes'
    BY <1>1, <1>2, <1>4, <1>6 DEF QueueTypes
<1>8. PlaceInv'
  <2>1. /\ current \in exists \ blocked
        /\ \A i \in 1..Len(fifo) : fifo[i] \in exists \ (blocked \cup {current})
        /\ \A u \in Tasks : step[u] \in 3..5 => u = current
        /\ \A u \in Tasks : step[u] # 0 =>
              /\ new[u] \in exists \ (blocked \cup {current})
              /\ \A i \in 1..Len(fifo) : fifo[i] # new[u]
              /\ \A v \in Tasks : step[v] # 0 /\ new[v] = new[u] => v = u
        /\ \A t \in exists : \/ t \in blocked \cup {current}
                             \/ \E i \in 1..Len(fifo) : fifo[i] = t
                             \/ \E u \in Tasks : step[u] # 0 /\ new[u] = t
      BY <1>1, <1>2 DEF PlaceInv
  <2>2. /\ n # current /\ \A i \in 1..Len(fifo) : fifo[i] # n
        /\ \A u \in Tasks : step[u] # 0 => new[u] # n
      BY <1>1, <2>1
  <2>3. current' \in exists' \ blocked'
      BY <1>1, <2>1
  <2>4. \A i \in 1..Len(fifo) : fifo[i] \in exists' \ (blocked' \cup {current})
      BY <1>1, <2>1
  <2>5. \A u \in Tasks : step'[u] \in 3..5 => u = current
      BY <1>4, <2>1
  <2>6. ASSUME NEW u \in Tasks, step'[u] # 0
        PROVE  /\ new'[u] \in exists' \ (blocked' \cup {current})
               /\ \A i \in 1..Len(fifo) : fifo[i] # new'[u]
               /\ \A v \in Tasks : step'[v] # 0 /\ new'[v] = new'[u] => v = u
    <3>1. CASE u = current
        BY <3>1, <1>4, <1>6, <2>2
    <3>2. CASE u # current
      <4>1. step[u] # 0 /\ new'[u] = new[u] /\ new[u] # n
          BY <3>2, <2>6, <1>4, <2>2
      <4>2. new[u] \in exists' \ (blocked' \cup {current})
          BY <4>1, <1>1, <2>1
      <4>3. ASSUME NEW v \in Tasks, step'[v] # 0, new'[v] = new'[u] PROVE v = u
        <5>1. v # current
            BY <4>1, <4>3, <1>4
        <5>2. step[v] # 0 /\ new[v] = new[u]
            BY <5>1, <4>1, <4>3, <1>4
        <5> QED BY <5>2, <4>1, <2>1
      <4> QED BY <4>1, <4>2, <4>3, <2>1
    <3> QED BY <3>1, <3>2
  <2>7. ASSUME NEW t \in exists'
        PROVE  \/ t \in blocked' \cup {current}
               \/ \E i \in 1..Len(fifo) : fifo[i] = t
               \/ \E u \in Tasks : step'[u] # 0 /\ new'[u] = t
    <3>1. CASE t = n
        BY <3>1, <1>1, <1>4
    <3>2. CASE \E u \in Tasks : step[u] # 0 /\ new[u] = t
      <4>1. PICK u \in Tasks : step[u] # 0 /\ new[u] = t
          BY <3>2
      <4>2. u # current
          BY <4>1, <1>1
      <4> QED BY <4>1, <4>2, <1>4
    <3> QED BY <3>1, <3>2, <1>1, <2>1
  <2> QED BY <1>1, <2>3, <2>4, <2>5, <2>6, <2>7 DEF PlaceInv
<1>9. QueueLinkInv'
    BY <1>1, <1>2, <1>4, <1>5 DEF QueueLinkInv
<1> QED BY <1>7, <1>8, <1>9 DEF QueueInv

\* What the steps inside of list_add_tail but the last have in common: only step,
\* last and links change.
LEMMA InsideKeeps ==
    ASSUME QueueInv, NEW k \in 1..4, AddStep(k), new' = new, fifo' = fifo
    PROVE  /\ k \in 3..4 => Storing
           /\ k \in 1..2 => ~Storing
           /\ k \in 2..4 => Storing'
           /\ k = 1 => ~Storing'
           /\ step[current] = k /\ step'[current] = k + 1
           /\ current' = current /\ current \in Tasks /\ new[current] \in Tasks
           /\ \A i \in 1..Len(fifo) : fifo[i] # new[current]
           /\ links' \in Links(Tasks \cup {Queue}) /\ last' \in [Tasks -> Tasks \cup {Queue, NULL}]
                 => QueueTypes'
           /\ PlaceInv'
<1>1. /\ current \in Tasks /\ step[current] = k /\ current' = current /\ crashed' = crashed
      /\ step' = [step EXCEPT ![current] = (k + 1) % 6]
      /\ blocked' = blocked /\ exists' = exists
    BY DEF AddStep
<1>2. QueueTypes /\ PlaceInv /\ step \in [Tasks -> 0..5] /\ exists \subseteq Tasks
    BY DEF QueueInv, QueueTypes
<1>3. (k + 1) % 6 = k + 1 /\ k + 1 \in 0..5 /\ k # 0 /\ k + 1 # 0
    OBVIOUS
<1>4. /\ step' \in [Tasks -> 0..5] /\ step'[current] = k + 1
      /\ \A u \in Tasks : u # current => step'[u] = step[u]
    BY <1>1, <1>2, <1>3
<1>5. /\ k \in 3..4 => Storing
      /\ k \in 1..2 => ~Storing
      /\ k \in 2..4 => Storing'
      /\ k = 1 => ~Storing'
    BY <1>1, <1>3, <1>4 DEF Storing
<1>6. new[current] \in Tasks /\ \A i \in 1..Len(fifo) : fifo[i] # new[current]
    BY <1>1, <1>2, <1>3 DEF PlaceInv
<1>7. links' \in Links(Tasks \cup {Queue}) /\ last' \in [Tasks -> Tasks \cup {Queue, NULL}]
          => QueueTypes'
    BY <1>1, <1>2, <1>4 DEF QueueTypes
<1>8. \A u \in Tasks : /\ step'[u] \in 3..5 => u = current
                      /\ step'[u] # 0 <=> step[u] # 0
    BY <1>1, <1>2, <1>3, <1>4 DEF PlaceInv
<1>9. PlaceInv'
    BY <1>1, <1>2, <1>8, ZenonT(60) DEF PlaceInv
<1> QED BY <1>1, <1>4, <1>5, <1>6, <1>7, <1>9

\* A store of v to one link of p.
StoredNext(g, h, D, p, v) ==
    g \in Links(D) /\ g.next = [h.next EXCEPT ![p] = v] /\ g.prev = h.prev

StoredPrev(g, h, D, p, v) ==
    g \in Links(D) /\ g.prev = [h.prev EXCEPT ![p] = v] /\ g.next = h.next

LEMMA OneStore ==
    ASSUME NEW D, NEW h \in Links(D), NEW p \in D, NEW v \in D
    PROVE  /\ StoredNext([h EXCEPT !.next[p] = v], h, D, p, v)
           /\ StoredPrev([h EXCEPT !.prev[p] = v], h, D, p, v)
<1>1. PICK a \in [D -> D \cup {Poison}], b \in [D -> D \cup {Poison}] : h = [next |-> a, prev |-> b]
    BY DEF Links
<1>2. PICK f, g : f = [h EXCEPT !.next[p] = v] /\ g = [h EXCEPT !.prev[p] = v]
    OBVIOUS
<1>3. /\ f = [next |-> [a EXCEPT ![p] = v], prev |-> b]
      /\ g = [next |-> a, prev |-> [b EXCEPT ![p] = v]]
    BY <1>1, <1>2, StoreFacts, Zenon
<1>4. /\ f \in Links(D) /\ f.next = [h.next EXCEPT ![p] = v] /\ f.prev = h.prev
      /\ g \in Links(D) /\ g.next = h.next /\ g.prev = [h.prev EXCEPT ![p] = v]
    BY <1>1, <1>3 DEF Links
<1> QED BY <1>2, <1>4, Zenon DEF StoredNext, StoredPrev

\* A store outside of the chain does not disturb it.
LEMMA ChainedKept ==
    ASSUME NEW q, NEW h, Chained(h, q), NEW g,
           \A i \in 0..Len(q) : g.next[At(q, i)] = h.next[At(q, i)],
           \A i \in 1..Len(q) : g.prev[q[i]] = h.prev[q[i]]
    PROVE  Chained(g, q)
BY DEF Chained

\* head->prev is loaded (LoadLast).
LEMMA LoadLastKeeps == ASSUME QueueInv, LoadLast PROVE QueueInv'
<1>1. /\ AddStep(1) /\ last' = [last EXCEPT ![current] = links.prev[Queue]]
      /\ links' = links /\ new' = new /\ fifo' = fifo
    BY DEF LoadLast
<1>2. /\ ~Storing /\ ~Storing' /\ step[current] = 1 /\ step'[current] = 2
      /\ current' = current /\ current \in Tasks
      /\ links' \in Links(Tasks \cup {Queue}) /\ last' \in [Tasks -> Tasks \cup {Queue, NULL}]
            => QueueTypes'
      /\ PlaceInv'
    BY <1>1, InsideKeeps
<1>3. /\ QueueLinkInv /\ Distinct(fifo) /\ links \in Links(Tasks \cup {Queue})
      /\ last \in [Tasks -> Tasks \cup {Queue, NULL}]
    BY DEF QueueInv, QueueTypes
<1>4. links.prev[Queue] = At(fifo, Len(fifo)) /\ At(fifo, Len(fifo)) \in Tasks \cup {Queue}
  <2>1. PICK n \in Nat : n = Len(fifo)
      BY <1>3, AtFacts
  <2>2. n \in 0..(n + 1)
      OBVIOUS
  <2> QED BY <1>2, <1>3, <2>1, <2>2, AtFacts DEF QueueLinkInv
<1>5. last' \in [Tasks -> Tasks \cup {Queue, NULL}]
    BY <1>1, <1>2, <1>3, <1>4
<1>6. QueueLinkInv'
    BY <1>1, <1>2, <1>3 DEF QueueLinkInv
<1> QED BY <1>1, <1>2, <1>3, <1>5, <1>6 DEF QueueInv

\* The first store of __list_add, if the tail that was loaded is the tail still: the
\* head leads back to the new task.
LEMMA StorePrevOfHeadKeeps ==
    ASSUME QueueInv, StorePrevOfHead, ~torn' PROVE QueueInv'
<1>1. /\ AddStep(2) /\ links' = [links EXCEPT !.prev[Queue] = new[current]]
      /\ last' = last /\ new' = new /\ fifo' = fifo
      /\ last[current] = links.prev[Queue]
    BY DEF StorePrevOfHead
<1>2. /\ ~Storing /\ Storing' /\ step[current] = 2 /\ step'[current] = 3
      /\ current' = current /\ current \in Tasks /\ new[current] \in Tasks
      /\ links' \in Links(Tasks \cup {Queue}) /\ last' \in [Tasks -> Tasks \cup {Queue, NULL}]
            => QueueTypes'
      /\ PlaceInv'
    BY <1>1, InsideKeeps
<1>3. /\ QueueLinkInv /\ Distinct(fifo) /\ links \in Links(Tasks \cup {Queue})
      /\ last \in [Tasks -> Tasks \cup {Queue, NULL}]
    BY DEF QueueInv, QueueTypes
<1>4. Queue \in Tasks \cup {Queue} /\ new[current] \in Tasks \cup {Queue}
    BY <1>2
<1>5. /\ links' \in Links(Tasks \cup {Queue}) /\ links'.next = links.next
      /\ links'.prev = [links.prev EXCEPT ![Queue] = new[current]]
  <2>1. StoredPrev(links', links, Tasks \cup {Queue}, Queue, new[current])
      BY <1>1, <1>3, <1>4, OneStore, Zenon
  <2> QED BY <2>1 DEF StoredPrev
<1>6. /\ links'.prev[Queue] = new[current]
      /\ \A i \in 1..Len(fifo) : links'.prev[fifo[i]] = links.prev[fifo[i]]
  <2>1. links.prev \in [Tasks \cup {Queue} -> Tasks \cup {Queue, Poison}]
      BY <1>3 DEF Links
  <2>2. \A i \in 1..Len(fifo) : fifo[i] \in Tasks /\ fifo[i] # Queue
      BY <1>3, AtFacts, TaskAssumption
  <2> QED BY <1>4, <1>5, <2>1, <2>2
<1>7. Chained(links', fifo)
    BY <1>3, <1>5, <1>6, ChainedKept DEF QueueLinkInv
<1>8. QueueLinkInv'
    BY <1>1, <1>2, <1>3, <1>6, <1>7 DEF QueueLinkInv
<1> QED BY <1>1, <1>2, <1>3, <1>5, <1>8 DEF QueueInv

\* The second store of __list_add: the new task leads to the head.
LEMMA StoreNextOfNewKeeps ==
    ASSUME QueueInv, StoreNextOfNew PROVE QueueInv'
<1>1. /\ AddStep(3) /\ links' = [links EXCEPT !.next[new[current]] = Queue]
      /\ last' = last /\ new' = new /\ fifo' = fifo
    BY DEF StoreNextOfNew
<1>2. /\ Storing /\ Storing' /\ step[current] = 3 /\ step'[current] = 4
      /\ current' = current /\ current \in Tasks /\ new[current] \in Tasks
      /\ \A i \in 1..Len(fifo) : fifo[i] # new[current]
      /\ links' \in Links(Tasks \cup {Queue}) /\ last' \in [Tasks -> Tasks \cup {Queue, NULL}]
            => QueueTypes'
      /\ PlaceInv'
    BY <1>1, InsideKeeps
<1>3. /\ QueueLinkInv /\ Distinct(fifo) /\ links \in Links(Tasks \cup {Queue})
      /\ last \in [Tasks -> Tasks \cup {Queue, NULL}]
    BY DEF QueueInv, QueueTypes
<1>4. Queue \in Tasks \cup {Queue} /\ new[current] \in Tasks \cup {Queue}
    BY <1>2
<1>5. /\ links' \in Links(Tasks \cup {Queue}) /\ links'.prev = links.prev
      /\ links'.next = [links.next EXCEPT ![new[current]] = Queue]
  <2>1. StoredNext(links', links, Tasks \cup {Queue}, new[current], Queue)
      BY <1>1, <1>3, <1>4, OneStore, Zenon
  <2> QED BY <2>1 DEF StoredNext
<1>6. /\ links'.next[new[current]] = Queue
      /\ \A i \in 0..Len(fifo) : links'.next[At(fifo, i)] = links.next[At(fifo, i)]
  <2>1. links.next \in [Tasks \cup {Queue} -> Tasks \cup {Queue, Poison}]
      BY <1>3 DEF Links
  <2>2. ASSUME NEW i \in 0..Len(fifo)
        PROVE  At(fifo, i) \in Tasks \cup {Queue} /\ At(fifo, i) # new[current]
    <3>1. PICK n \in Nat : n = Len(fifo)
        BY <1>3, AtFacts
    <3>2. i = 0 \/ i \in 1..n
        BY <3>1
    <3>3. CASE i = 0
        BY <3>3, <1>2, <1>3, AtFacts, TaskAssumption
    <3>4. CASE i \in 1..n
        BY <3>1, <3>4, <1>2, <1>3, AtFacts
    <3> QED BY <3>2, <3>3, <3>4
  <2> QED BY <1>4, <1>5, <2>1, <2>2
<1>7. Chained(links', fifo)
    BY <1>3, <1>5, <1>6, ChainedKept, ZenonT(60) DEF QueueLinkInv
<1>8. QueueLinkInv'
    BY <1>1, <1>2, <1>3, <1>5, <1>6, <1>7 DEF QueueLinkInv
<1> QED BY <1>1, <1>2, <1>3, <1>5, <1>8 DEF QueueInv

\* The third store of __list_add: the new task leads back to the one that was last.
LEMMA StorePrevOfNewKeeps ==
    ASSUME QueueInv, StorePrevOfNew PROVE QueueInv'
<1>1. /\ AddStep(4) /\ links' = [links EXCEPT !.prev[new[current]] = last[current]]
      /\ last' = last /\ new' = new /\ fifo' = fifo
    BY DEF StorePrevOfNew
<1>2. /\ Storing /\ Storing' /\ step[current] = 4 /\ step'[current] = 5
      /\ current' = current /\ current \in Tasks /\ new[current] \in Tasks
      /\ \A i \in 1..Len(fifo) : fifo[i] # new[current]
      /\ links' \in Links(Tasks \cup {Queue}) /\ last' \in [Tasks -> Tasks \cup {Queue, NULL}]
            => QueueTypes'
      /\ PlaceInv'
    BY <1>1, InsideKeeps
<1>3. /\ QueueLinkInv /\ Distinct(fifo) /\ links \in Links(Tasks \cup {Queue})
      /\ last \in [Tasks -> Tasks \cup {Queue, NULL}]
    BY DEF QueueInv, QueueTypes
<1>4. /\ last[current] = At(fifo, Len(fifo)) /\ last[current] \in Tasks \cup {Queue}
      /\ new[current] \in Tasks \cup {Queue} /\ new[current] # Queue
  <2>1. PICK n \in Nat : n = Len(fifo)
      BY <1>3, AtFacts
  <2>2. n \in 0..(n + 1)
      OBVIOUS
  <2>3. At(fifo, Len(fifo)) \in Tasks \cup {Queue}
      BY <1>3, <2>1, <2>2, AtFacts
  <2> QED BY <1>2, <1>3, <2>3, TaskAssumption DEF QueueLinkInv
<1>5. /\ links' \in Links(Tasks \cup {Queue}) /\ links'.next = links.next
      /\ links'.prev = [links.prev EXCEPT ![new[current]] = last[current]]
  <2>1. StoredPrev(links', links, Tasks \cup {Queue}, new[current], last[current])
      BY <1>1, <1>3, <1>4, OneStore, Zenon
  <2> QED BY <2>1 DEF StoredPrev
<1>6. /\ links'.prev[new[current]] = last[current] /\ links'.prev[Queue] = links.prev[Queue]
      /\ \A i \in 1..Len(fifo) : links'.prev[fifo[i]] = links.prev[fifo[i]]
  <2>1. links.prev \in [Tasks \cup {Queue} -> Tasks \cup {Queue, Poison}]
      BY <1>3 DEF Links
  <2>2. \A i \in 1..Len(fifo) : fifo[i] \in Tasks
      BY <1>3, AtFacts
  <2> QED BY <1>2, <1>4, <1>5, <2>1, <2>2
<1>7. Chained(links', fifo)
    BY <1>3, <1>5, <1>6, ChainedKept DEF QueueLinkInv
<1>8. QueueLinkInv'
    BY <1>1, <1>2, <1>3, <1>5, <1>6, <1>7 DEF QueueLinkInv
<1> QED BY <1>1, <1>2, <1>3, <1>5, <1>8 DEF QueueInv

\* The last store of __list_add: the new task is in the list.
LEMMA StoreNextOfLastKeeps ==
    ASSUME QueueInv, StoreNextOfLast PROVE QueueInv'
<1>1. /\ current \in Tasks /\ step[current] = 5 /\ current' = current /\ crashed' = crashed
      /\ step' = [step EXCEPT ![current] = (5 + 1) % 6]
      /\ blocked' = blocked /\ exists' = exists
      /\ links' = [links EXCEPT !.next[last[current]] = new[current]]
      /\ fifo' = Append(fifo, new[current])
      /\ new' = [new EXCEPT ![current] = NULL] /\ last' = [last EXCEPT ![current] = NULL]
    BY DEF StoreNextOfLast, AddStep
<1>2. /\ QueueLinkInv /\ PlaceInv /\ Distinct(fifo) /\ links \in Links(Tasks \cup {Queue})
      /\ last \in [Tasks -> Tasks \cup {Queue, NULL}] /\ step \in [Tasks -> 0..5]
      /\ new \in [Tasks -> Tasks \cup {NULL}]
      /\ exists \subseteq Tasks /\ blocked \subseteq exists /\ crashed = FALSE
    BY DEF QueueInv, QueueTypes
<1>3. Storing
    BY <1>1 DEF Storing
<1>4. PICK x : x = new[current]
    OBVIOUS
<1>5. /\ x \in exists \ (blocked \cup {current}) /\ x \in Tasks /\ x # Queue
      /\ \A i \in 1..Len(fifo) : fifo[i] # x
    BY <1>1, <1>2, <1>4, TaskAssumption DEF PlaceInv
<1>6. PICK n \in Nat : n = Len(fifo)
    BY <1>2, AtFacts
<1>7. PICK l : l = At(fifo, n)
    OBVIOUS
<1>8. /\ l \in Tasks \cup {Queue} /\ l = last[current] /\ links.prev[Queue] = x
      /\ links.next[x] = Queue /\ links.prev[x] = l
  <2>1. n \in 0..(n + 1)
      OBVIOUS
  <2>2. l \in Tasks \cup {Queue}
      BY <1>2, <1>6, <1>7, <2>1, AtFacts
  <2> QED BY <1>1, <1>2, <1>3, <1>4, <1>6, <1>7, <2>2 DEF QueueLinkInv
<1>9. AddLinks(links', links, Tasks \cup {Queue}, x, Queue, l)
  <2>1. StoredNext(links', links, Tasks \cup {Queue}, l, x)
    <3>1. x \in Tasks \cup {Queue}
        BY <1>5
    <3>2. links' = [links EXCEPT !.next[l] = x]
        BY <1>1, <1>4, <1>8, Zenon
    <3> QED BY <3>1, <3>2, <1>2, <1>8, OneStore, Zenon
  <2>2. /\ links' \in Links(Tasks \cup {Queue}) /\ links'.prev = links.prev
        /\ links'.next = [links.next EXCEPT ![l] = x]
      BY <2>1 DEF StoredNext
  <2>3. links.next \in [Tasks \cup {Queue} -> Tasks \cup {Queue, Poison}]
      BY <1>2 DEF Links
  <2>4. \A d \in Tasks \cup {Queue} :
          /\ links'.next[d] = IF d = l THEN x ELSE IF d = x THEN Queue ELSE links.next[d]
          /\ links'.prev[d] = IF d = x THEN l ELSE IF d = Queue THEN x ELSE links.prev[d]
      BY <1>8, <2>2, <2>3
  <2> QED BY <2>2, <2>4 DEF AddLinks
<1>10. Linked(links', fifo') /\ links' \in Links(Tasks \cup {Queue})
  <2>1. Chained(links, fifo)
      BY <1>2 DEF QueueLinkInv
  <2>2. Linked(links', Append(fifo, x))
      BY <1>2, <1>5, <1>6, <1>7, <1>9, <2>1, AddedIsLinked
  <2> QED BY <2>2, <1>1, <1>4, <1>9 DEF AddLinks
<1>11. /\ Distinct(fifo') /\ Len(fifo') = n + 1 /\ fifo'[n + 1] = x
       /\ \A i \in 1..n : fifo'[i] = fifo[i]
  <2>1. fifo' = Append(fifo, x)
      BY <1>1, <1>4
  <2> QED BY <1>2, <1>5, <1>6, <2>1, AtAppend
<1>12. /\ step' \in [Tasks -> 0..5] /\ step'[current] = 0 /\ new'[current] = NULL
       /\ new' \in [Tasks -> Tasks \cup {NULL}] /\ last' \in [Tasks -> Tasks \cup {Queue, NULL}]
       /\ \A u \in Tasks : u # current => step'[u] = step[u] /\ new'[u] = new[u]
    BY <1>1, <1>2
<1>13. ~Storing' /\ \A u \in Tasks : step'[u] \notin 3..5 /\ (step'[u] # 0 => u # current)
  <2>1. \A u \in Tasks : step[u] \in 3..5 => u = current
      BY <1>2 DEF PlaceInv
  <2> QED BY <1>1, <1>12, <2>1 DEF Storing
<1>14. QueueTypes'
    BY <1>1, <1>2, <1>10, <1>11, <1>12 DEF QueueTypes
<1>15. PlaceInv'
  <2>1. /\ current \in exists \ blocked
        /\ \A i \in 1..n : fifo[i] \in exists \ (blocked \cup {current})
        /\ \A t \in exists : \/ t \in blocked \cup {current}
                             \/ \E i \in 1..n : fifo[i] = t
                             \/ \E u \in Tasks : step[u] # 0 /\ new[u] = t
        /\ \A u \in Tasks : step[u] # 0 =>
              /\ new[u] \in exists \ (blocked \cup {current})
              /\ \A i \in 1..n : fifo[i] # new[u]
              /\ \A v \in Tasks : step[v] # 0 /\ new[v] = new[u] => v = u
      BY <1>1, <1>2, <1>6 DEF PlaceInv
  <2>2. ASSUME NEW i \in 1..(n + 1) PROVE fifo'[i] \in exists \ (blocked \cup {current})
    <3>1. i \in 1..n \/ i = n + 1
        OBVIOUS
    <3> QED BY <3>1, <2>1, <1>5, <1>11
  <2>3. ASSUME NEW t \in exists
        PROVE  \/ t \in blocked \cup {current} \/ \E i \in 1..(n + 1) : fifo'[i] = t
               \/ \E u \in Tasks : step'[u] # 0 /\ new'[u] = t
    <3>1. CASE t = x
      <4>1. n + 1 \in 1..(n + 1)
          OBVIOUS
      <4> QED BY <3>1, <4>1, <1>11
    <3>2. CASE \E i \in 1..n : fifo[i] = t
      <4>1. PICK i \in 1..n : fifo[i] = t
          BY <3>2
      <4>2. i \in 1..(n + 1) /\ fifo'[i] = t
          BY <4>1, <1>11
      <4> QED BY <4>2
    <3>3. CASE \E u \in Tasks : step[u] # 0 /\ new[u] = t /\ t # x
      <4>1. PICK u \in Tasks : step[u] # 0 /\ new[u] = t /\ t # x
          BY <3>3
      <4>2. u # current
          BY <4>1, <1>4
      <4> QED BY <4>1, <4>2, <1>12
    <3> QED BY <3>1, <3>2, <3>3, <2>1
  <2>4. ASSUME NEW u \in Tasks, step'[u] # 0
        PROVE  /\ new'[u] \in exists \ (blocked \cup {current})
               /\ \A i \in 1..(n + 1) : fifo'[i] # new'[u]
               /\ \A v \in Tasks : step'[v] # 0 /\ new'[v] = new'[u] => v = u
    <3>1. u # current /\ step[u] # 0 /\ new'[u] = new[u]
        BY <2>4, <1>12, <1>13
    <3>2. new[u] # x
        BY <3>1, <1>1, <1>4, <2>1
    <3>3. \A i \in 1..(n + 1) : i \in 1..n \/ i = n + 1
        OBVIOUS
    <3>4. \A v \in Tasks : step'[v] # 0 => step[v] # 0 /\ new'[v] = new[v]
        BY <1>12, <1>13
    <3> QED BY <3>1, <3>2, <3>3, <3>4, <1>11, <2>1
  <2> QED BY <1>1, <1>11, <1>13, <2>1, <2>2, <2>3, <2>4 DEF PlaceInv
<1>16. QueueLinkInv'
    BY <1>10, <1>13 DEF QueueLinkInv, Linked
<1> QED BY <1>14, <1>15, <1>16 DEF QueueInv

\* Every step that does not tear the list keeps the invariant, and none mends it.
LEMMA QueueStep == (torn \/ QueueInv) /\ [QueueNext]_queueVars => torn' \/ QueueInv'
<1> SUFFICES ASSUME torn \/ QueueInv, [QueueNext]_queueVars, ~torn'
             PROVE  QueueInv'
    OBVIOUS
<1>1. QueueInv
    BY DEF QueueNext, queueVars, CreateTask, MakeRunnable, LoadLast, StorePrevOfHead,
           StoreNextOfNew, StorePrevOfNew, StoreNextOfLast, Tick, ScheduleBlocked, Exit
<1>2. CASE \E n \in Tasks : CreateTask(n) \/ MakeRunnable(n)
    BY <1>1, <1>2, StartKeeps
<1>3. CASE LoadLast
    BY <1>1, <1>3, LoadLastKeeps
<1>4. CASE StorePrevOfHead
    BY <1>1, <1>4, StorePrevOfHeadKeeps
<1>5. CASE StoreNextOfNew
    BY <1>1, <1>5, StoreNextOfNewKeeps
<1>6. CASE StorePrevOfNew
    BY <1>1, <1>6, StorePrevOfNewKeeps
<1>7. CASE StoreNextOfLast
    BY <1>1, <1>7, StoreNextOfLastKeeps
<1>8. CASE Tick
    BY <1>1, <1>8, TickKeeps
<1>9. CASE ScheduleBlocked \/ Exit
    BY <1>1, <1>9, LeaveKeeps
<1>10. CASE UNCHANGED queueVars
    BY <1>1, <1>10 DEF queueVars, QueueInv, QueueTypes, PlaceInv, QueueLinkInv, Storing
<1> QED BY <1>2, <1>3, <1>4, <1>5, <1>6, <1>7, <1>8, <1>9, <1>10 DEF QueueNext

\* The invariant of the run queue holds until a list_add_tail is torn, with any number
\* of tasks preempted inside of create_task, make_runnable and list_add_tail.
THEOREM QueueInvariance == QueueSpec => [](torn \/ QueueInv)
<1>1. QueueInit => torn \/ QueueInv
    BY QueueStarts
<1> QED BY <1>1, QueueStep, PTL DEF QueueSpec

\* Whatever the timer interrupts, no task is lost until a tick comes between two stores
\* of __list_add, or its first store follows the loading of a tail that is none any
\* more: the links of the run queue are a list of the tasks that were queued, in this
\* order and both ways, and __sched comes across every task that neither runs nor waits
\* nor is being added.
THEOREM TasksAreLostByTearsOnly == QueueSpec => []LostOnlyIfTorn
<1>1. ASSUME QueueInv PROVE NoTaskLost
  <2>1. QueueTypes /\ PlaceInv /\ QueueLinkInv /\ Distinct(fifo) /\ Chained(links, fifo)
      BY <1>1 DEF QueueInv, QueueTypes, QueueLinkInv
  <2>2. PICK n \in Nat : n = Len(fifo)
      BY <1>1, <2>1, AtFacts
  <2>3. /\ \A i \in 1..n : At(fifo, i) = fifo[i] /\ fifo[i] \in Tasks
        /\ At(fifo, 0) = Queue /\ At(fifo, n + 1) = Queue
        /\ \A i \in 0..(n + 1) : At(fifo, i) \in Tasks \cup {Queue}
      BY <1>1, <2>1, <2>2, AtFacts
  <2>4. ASSUME NEW k \in 0..(n + 1)
        PROVE  \A i \in 0..k : Walk(links, Queue, k)[i] = At(fifo, i)
    <3>1. PICK w : w = Walk(links, Queue, k)
        OBVIOUS
    <3>2. IsWalk(w, links, Queue, k) /\ k \in Nat /\ k \in 0..k
        BY <3>1, WalkIsWalk
    <3>3. PICK f : f = [i \in 0..(n + 1) |-> At(fifo, i)]
        OBVIOUS
    <3>4. f[0] = Queue
        BY <3>3, <2>3
    <3>5. IsWay(f, links, k)
      <4> SUFFICES ASSUME NEW i \in 0..(k - 1)
                   PROVE  f[i] # Poison /\ links.next[f[i]] = f[i + 1]
          BY DEF IsWay
      <4>1. i \in 0..(n + 1) /\ i + 1 \in 0..(n + 1) /\ i \in 0..n
          OBVIOUS
      <4>2. f[i] = At(fifo, i) /\ f[i + 1] = At(fifo, i + 1)
          BY <4>1, <3>3
      <4>3. At(fifo, i) # Poison
          BY <4>1, <1>1, <2>3, TaskAssumption
      <4>4. links.next[At(fifo, i)] = At(fifo, i + 1)
          BY <4>1, <2>1, <2>2 DEF Chained
      <4> QED BY <4>2, <4>3, <4>4
    <3>6. \A i \in 0..k : w[i] = f[i]
        BY <3>2, <3>4, <3>5, WalkFollows
    <3>7. \A i \in 0..k : i \in 0..(n + 1)
        OBVIOUS
    <3> QED BY <3>1, <3>3, <3>6, <3>7
  <2>5. LinksAreFifo
    <3> SUFFICES ASSUME ~Storing
                 PROVE  IsList(links, Queue, fifo, n)
        BY <2>2 DEF LinksAreFifo
    <3>1. ~Storing
        OBVIOUS
    <3>2. PICK w : w = Walk(links, Queue, n + 1)
        OBVIOUS
    <3>3. \A i \in 0..(n + 1) : w[i] = At(fifo, i)
        BY <3>2, <2>4
    <3>4. w[n + 1] = Queue /\ \A i \in 1..n : w[i] = fifo[i]
        BY <3>3, <2>3
    <3>5. Visits(links, Queue, fifo, n)
        BY <3>2, <3>4 DEF Visits
    <3>6. links.prev[Queue] = IF n = 0 THEN Queue ELSE fifo[n]
        BY <3>1, <2>1, <2>2 DEF QueueLinkInv, At
    <3>7. ASSUME NEW i \in 1..n
          PROVE  links.prev[fifo[i]] = IF i = 1 THEN Queue ELSE fifo[i - 1]
      <4>1. links.prev[fifo[i]] = At(fifo, i - 1)
          BY <2>1, <2>2 DEF Chained
      <4>2. i # 1 => i - 1 \in 1..n
          OBVIOUS
      <4> QED BY <4>1, <4>2, <2>3
    <3> QED BY <3>5, <3>6, <3>7, Zenon DEF IsList
  <2>6. ASSUME NEW t \in exists \ (blocked \cup {current})
        PROVE  \/ \E u \in Tasks : new[u] = t
               \/ \E i \in 1..Len(fifo) : Walk(links, Queue, Len(fifo))[i] = t
    <3>1. CASE \E i \in 1..n : fifo[i] = t
      <4>1. PICK i \in 1..n : fifo[i] = t
          BY <3>1
      <4>2. Walk(links, Queue, n)[i] = At(fifo, i)
        <5>1. n \in 0..(n + 1) /\ i \in 0..n
            OBVIOUS
        <5> QED BY <5>1, <2>4
      <4> QED BY <4>1, <4>2, <2>2, <2>3
    <3>2. CASE \E u \in Tasks : step[u] # 0 /\ new[u] = t
        BY <3>2
    <3> QED BY <3>1, <3>2, <2>1, <2>2 DEF PlaceInv
  <2> QED BY <2>5, <2>6 DEF NoTaskLost
<1>2. torn \/ QueueInv => LostOnlyIfTorn
    BY <1>1 DEF LostOnlyIfTorn
<1> QED BY <1>2, QueueInvariance, PTL

-----------------------------------------------------------------------------
\* The bring-up of the nucleus (start, nucleus/init.c) is the scan and, beside it, the
\* run queue: what is proved of each holds from the first instruction of the scan on.
THEOREM BootIsScanAndQueue == BootSpec => ScanSpec /\ QueueSpec
<1>1. BootInit => ScanInit /\ QueueInit
    BY DEF BootInit
<1>2. [BootNext]_bootVars => [ScanNext]_scanVars /\ [QueueNext]_queueVars
    BY DEF BootNext, Scanning, Running, bootVars
<1> QED BY <1>1, <1>2, PTL DEF BootSpec, ScanSpec, QueueSpec
=============================================================================
