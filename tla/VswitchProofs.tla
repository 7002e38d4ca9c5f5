---------------------------- MODULE VswitchProofs ----------------------------
(***************************************************************************)
(* Vswitch for every number of ports, queues, mbufs, addresses and entries *)
(* of the vswitch, the fdb and the rings: who owns each mbuf, what the     *)
(* vswitch looks like and what the fdb knows.                              *)
(***************************************************************************)
EXTENDS Vswitch, WellFoundedInduction, FiniteSetTheorems, SequenceTheorems, TLAPS

(* A set of numbers has a least one, and a bounded one a greatest. *)
LEMMA LeastNumber ==
  ASSUME NEW S, S \subseteq Nat, S # {}
  PROVE  Min(S) \in S
<1>1. PICK x \in S : \A y \in S : ~ (<<y, x>> \in OpToRel(<, Nat))
  BY NatLessThanWellFounded, WFMin
<1>2. ASSUME NEW y \in S PROVE x <= y
  <2>1. ~ (y < x)
    BY <1>1, Zenon DEF OpToRel
  <2> QED
    BY <2>1
<1> QED
  BY <1>2 DEF Min

(* The greatest one. *)
LEMMA GreatestNumber ==
  ASSUME NEW n \in Nat, NEW S, S \subseteq 1..n, S # {}
  PROVE  Max(S) \in S
<1> DEFINE T == {n - i : i \in S}
           least == Min(T)
<1>1. T \subseteq Nat /\ T # {}
  <2>1. \A i \in S : n - i \in Nat
    OBVIOUS
  <2> QED
    BY <2>1
<1>2. least \in T
  BY <1>1, LeastNumber
<1>3. \A t \in T : least <= t
  <2>1. PICK x \in T : \A y \in T : ~ (<<y, x>> \in OpToRel(<, Nat))
    BY <1>1, NatLessThanWellFounded, WFMin
  <2>2. ASSUME NEW y \in T PROVE x <= y
    <3>1. ~ (y < x)
      BY <1>1, <2>1, Zenon DEF OpToRel
    <3> QED
      BY <1>1, <3>1
  <2> HIDE DEF T
  <2> QED
    BY <2>2 DEF Min
<1>4. PICK x \in S : least = n - x
  BY <1>2
<1>5. ASSUME NEW y \in S PROVE x >= y
  <2>1. n - y \in T
    OBVIOUS
  <2>2. n - x <= n - y
    BY <1>3, <1>4, <2>1
  <2> QED
    BY <2>2
<1> QED
  BY <1>5 DEF Max
-----------------------------------------------------------------------------
(* The two parts of a sequence that is cut after n. *)
LEMMA Cut ==
  ASSUME NEW S, NEW s \in Seq(S), NEW n \in 0..Len(s)
  PROVE  LET a == SubSeq(s, 1, n)
             b == SubSeq(s, n + 1, Len(s))
         IN  /\ a \in Seq(S) /\ Len(a) = n /\ \A i \in 1..n : a[i] = s[i]
             /\ b \in Seq(S) /\ Len(b) = Len(s) - n
             /\ \A i \in 1..Len(s) - n : b[i] = s[i + n]
<1> DEFINE a == SubSeq(s, 1, n)
           b == SubSeq(s, n + 1, Len(s))
<1>1. Len(s) \in Nat /\ n \in Nat /\ n <= Len(s) /\ \A i \in 1..Len(s) : s[i] \in S
  OBVIOUS
<1>2. a = [i \in 1..n |-> s[i]]
  BY <1>1
<1>3. b = [i \in 1..Len(s) - n |-> s[i + n]]
  BY <1>1
<1> HIDE DEF a, b
<1>4. a \in Seq(S) /\ Len(a) = n
  BY <1>1, <1>2
<1>5. b \in Seq(S) /\ Len(b) = Len(s) - n
  BY <1>1, <1>3
<1> QED
  BY <1>2, <1>3, <1>4, <1>5 DEF a, b

(* What ring_up holds. *)
Copies == Packets \union {NULL}

(* The mbufs of a ring. *)
LEMMA QueuedIs ==
  ASSUME NEW r \in Seq(Copies), NEW m
  PROVE  m \in Queued(r) <=> \E i \in 1..Len(r) : r[i] # NULL /\ r[i].mbuf = m
BY DEF Queued, ToSet

(* A copy is enqueued. *)
LEMMA QueuedAppend ==
  ASSUME NEW r \in Seq(Copies), QueuedOnce(r), NEW k \in Copies,
         k # NULL => k.mbuf \notin Queued(r)
  PROVE  /\ Append(r, k) \in Seq(Copies)
         /\ QueuedOnce(Append(r, k))
         /\ Queued(Append(r, k)) = Queued(r) \union (IF k = NULL THEN {} ELSE {k.mbuf})
<1> DEFINE a == Append(r, k)
           n == Len(r)
<1>1. n \in Nat /\ a \in Seq(Copies) /\ Len(a) = n + 1
      /\ a[n + 1] = k /\ \A i \in 1..n : a[i] = r[i]
  OBVIOUS
<1>2. DOMAIN a = 1..n + 1 /\ DOMAIN r = 1..n
  BY <1>1
<1> HIDE DEF a, n
<1>3. \A i \in 1..n + 1 : i \in 1..n \/ i = n + 1
  BY <1>1
<1>4. ASSUME NEW i \in 1..n, r[i] # NULL PROVE r[i].mbuf \in Queued(r)
  BY <1>4, QueuedIs DEF n
<1>5. QueuedOnce(a)
  <2> SUFFICES ASSUME NEW i \in 1..n + 1, NEW j \in 1..n + 1,
                      a[i] # NULL, a[j] # NULL, a[i].mbuf = a[j].mbuf
               PROVE  i = j
    BY <1>2 DEF QueuedOnce
  <2>1. CASE i \in 1..n /\ j \in 1..n
    BY <1>1, <1>2, <2>1 DEF QueuedOnce
  <2>2. CASE i = n + 1 /\ j \in 1..n
    BY <1>1, <1>4, <2>2
  <2>3. CASE i \in 1..n /\ j = n + 1
    BY <1>1, <1>4, <2>3
  <2> QED
    BY <1>3, <2>1, <2>2, <2>3
<1>6. ASSUME NEW m
      PROVE  m \in Queued(a) <=> m \in Queued(r) \/ (k # NULL /\ k.mbuf = m)
  <2>1. m \in Queued(a) <=> \E i \in 1..n + 1 : a[i] # NULL /\ a[i].mbuf = m
    BY <1>1, QueuedIs
  <2>2. m \in Queued(r) <=> \E i \in 1..n : r[i] # NULL /\ r[i].mbuf = m
    BY QueuedIs DEF n
  <2>3. n + 1 \in 1..n + 1 /\ 1..n \subseteq 1..n + 1
    BY <1>1
  <2> QED
    BY <1>1, <1>3, <2>1, <2>2, <2>3
<1> QED
  BY <1>1, <1>5, <1>6 DEF a

(* A burst is dequeued. *)
LEMMA QueuedCut ==
  ASSUME NEW r \in Seq(Copies), QueuedOnce(r), NEW n \in 0..Len(r)
  PROVE  LET a == SubSeq(r, 1, n)
             b == SubSeq(r, n + 1, Len(r))
         IN  /\ a \in Seq(Copies) /\ b \in Seq(Copies)
             /\ QueuedOnce(a) /\ QueuedOnce(b)
             /\ Queued(a) \subseteq Queued(r)
             /\ Queued(b) = Queued(r) \ Queued(a)
<1> DEFINE a == SubSeq(r, 1, n)
           b == SubSeq(r, n + 1, Len(r))
           l == Len(r)
           d == l - n
<1>1. /\ a \in Seq(Copies) /\ Len(a) = n /\ \A i \in 1..n : a[i] = r[i]
      /\ b \in Seq(Copies) /\ Len(b) = d /\ \A i \in 1..d : b[i] = r[i + n]
  BY Cut
<1>2. l \in Nat /\ n \in Nat /\ d \in Nat /\ l = d + n /\ DOMAIN r = 1..l
  OBVIOUS
<1> HIDE DEF a, b, l, d
<1>3. DOMAIN a = 1..n /\ DOMAIN b = 1..d
  BY <1>1, <1>2
<1>4. /\ 1..n \subseteq 1..l
      /\ \A i \in 1..d : i + n \in 1..l /\ i + n \notin 1..n
      /\ \A j \in 1..l : j \in 1..n \/ (j - n \in 1..d /\ j = (j - n) + n)
  BY <1>2
<1>5. QueuedOnce(a)
  BY <1>1, <1>2, <1>3, <1>4 DEF QueuedOnce
<1>6. QueuedOnce(b)
  <2> SUFFICES ASSUME NEW i \in 1..d, NEW j \in 1..d,
                      b[i] # NULL, b[j] # NULL, b[i].mbuf = b[j].mbuf
               PROVE  i = j
    BY <1>3 DEF QueuedOnce
  <2> DEFINE x == i + n
             y == j + n
  <2>1. x \in DOMAIN r /\ y \in DOMAIN r /\ b[i] = r[x] /\ b[j] = r[y]
    BY <1>1, <1>2, <1>4
  <2>2. x = y => i = j
    BY <1>2
  <2> HIDE DEF x, y
  <2> QED
    BY <2>1, <2>2 DEF QueuedOnce
<1>7. ASSUME NEW m
      PROVE  /\ m \in Queued(a) <=> \E i \in 1..n : r[i] # NULL /\ r[i].mbuf = m
             /\ m \in Queued(b) <=> \E i \in 1..d : r[i + n] # NULL /\ r[i + n].mbuf = m
             /\ m \in Queued(r) <=> \E i \in 1..l : r[i] # NULL /\ r[i].mbuf = m
  <2>1. m \in Queued(a) <=> \E i \in 1..n : a[i] # NULL /\ a[i].mbuf = m
    BY <1>1, QueuedIs
  <2>2. m \in Queued(b) <=> \E i \in 1..d : b[i] # NULL /\ b[i].mbuf = m
    BY <1>1, QueuedIs
  <2>3. m \in Queued(r) <=> \E i \in 1..l : r[i] # NULL /\ r[i].mbuf = m
    BY QueuedIs DEF l
  <2> QED
    BY <1>1, <2>1, <2>2, <2>3
<1>8. Queued(a) \subseteq Queued(r)
  BY <1>4, <1>7
<1>9. ASSUME NEW m PROVE m \in Queued(b) <=> m \in Queued(r) /\ m \notin Queued(a)
  <2>1. ASSUME m \in Queued(b) PROVE m \in Queued(r) /\ m \notin Queued(a)
    <3>1. PICK i \in 1..d : r[i + n] # NULL /\ r[i + n].mbuf = m
      BY <1>7, <2>1
    <3>2. \A j \in 1..n : ~(r[j] # NULL /\ r[j].mbuf = m)
      BY <1>2, <1>4, <3>1 DEF QueuedOnce
    <3> QED
      BY <1>4, <1>7, <3>1, <3>2
  <2>2. ASSUME m \in Queued(r), m \notin Queued(a) PROVE m \in Queued(b)
    <3>1. PICK j \in 1..l : r[j] # NULL /\ r[j].mbuf = m
      BY <1>7, <2>2
    <3>2. j \notin 1..n
      BY <1>7, <2>2, <3>1
    <3> QED
      BY <1>4, <1>7, <3>1, <3>2
  <2> QED
    BY <2>1, <2>2
<1> QED
  BY <1>1, <1>5, <1>6, <1>8, <1>9 DEF a, b, l, d

(* An mbuf is enqueued to ring_dn, and a burst is dequeued. *)
LEMMA DownAppend ==
  ASSUME NEW r \in Seq(Mbufs), IsInjective(r), NEW m \in Mbufs, m \notin ToSet(r)
  PROVE  /\ Append(r, m) \in Seq(Mbufs)
         /\ IsInjective(Append(r, m))
         /\ ToSet(Append(r, m)) = ToSet(r) \union {m}
<1> DEFINE a == Append(r, m)
           n == Len(r)
<1>1. n \in Nat /\ a \in Seq(Mbufs) /\ DOMAIN r = 1..n /\ DOMAIN a = 1..n + 1
      /\ a[n + 1] = m /\ \A i \in 1..n : a[i] = r[i]
  OBVIOUS
<1> HIDE DEF a, n
<1>2. /\ \A i \in 1..n + 1 : i \in 1..n \/ i = n + 1
      /\ 1..n \subseteq 1..n + 1 /\ n + 1 \in 1..n + 1
  BY <1>1
<1>3. IsInjective(a)
  BY <1>1, <1>2 DEF IsInjective, ToSet
<1>4. ToSet(a) = ToSet(r) \union {m}
  BY <1>1, <1>2 DEF ToSet
<1> QED
  BY <1>1, <1>3, <1>4 DEF a

(* What is in a sequence, by its indexes. *)
LEMMA InToSet ==
  ASSUME NEW s, NEW D, DOMAIN s = D, NEW m
  PROVE  m \in ToSet(s) <=> \E i \in D : s[i] = m
BY DEF ToSet

(* A ring that is cut in two loses no mbuf and has none twice. *)
LEMMA DownCut ==
  ASSUME NEW r \in Seq(Mbufs), IsInjective(r), NEW n \in 0..Len(r)
  PROVE  LET a == SubSeq(r, 1, n)
             b == SubSeq(r, n + 1, Len(r))
         IN  /\ a \in Seq(Mbufs) /\ b \in Seq(Mbufs) /\ Len(a) = n
             /\ IsInjective(a) /\ IsInjective(b)
             /\ ToSet(a) \subseteq ToSet(r)
             /\ ToSet(b) = ToSet(r) \ ToSet(a)
<1> DEFINE a == SubSeq(r, 1, n)
           b == SubSeq(r, n + 1, Len(r))
           l == Len(r)
           d == l - n
<1>1. /\ a \in Seq(Mbufs) /\ Len(a) = n /\ \A i \in 1..n : a[i] = r[i]
      /\ b \in Seq(Mbufs) /\ Len(b) = d /\ \A i \in 1..d : b[i] = r[i + n]
  BY Cut
<1>2. l \in Nat /\ n \in Nat /\ d \in Nat /\ l = d + n /\ DOMAIN r = 1..l
  OBVIOUS
<1> HIDE DEF a, b, l, d
<1>3. DOMAIN a = 1..n /\ DOMAIN b = 1..d
  BY <1>1, <1>2
<1>4. /\ 1..n \subseteq 1..l
      /\ \A i \in 1..d : i + n \in 1..l /\ i + n \notin 1..n
      /\ \A j \in 1..l : j \in 1..n \/ (j - n \in 1..d /\ j = (j - n) + n)
  BY <1>2
<1>5. IsInjective(a)
  BY <1>1, <1>2, <1>3, <1>4 DEF IsInjective
<1>6. IsInjective(b)
  <2> SUFFICES ASSUME NEW i \in 1..d, NEW j \in 1..d, b[i] = b[j]
               PROVE  i = j
    BY <1>3 DEF IsInjective
  <2> DEFINE x == i + n
             y == j + n
  <2>1. x \in DOMAIN r /\ y \in DOMAIN r /\ r[x] = r[y]
    BY <1>1, <1>2, <1>4
  <2>2. x = y => i = j
    BY <1>2
  <2> HIDE DEF x, y
  <2> QED
    BY <2>1, <2>2 DEF IsInjective
<1>7. ASSUME NEW m \in ToSet(a) PROVE m \in ToSet(r)
  <2>1. PICK i \in 1..n : a[i] = m
    BY <1>3, InToSet
  <2>2. r[i] = m /\ i \in DOMAIN r
    BY <1>1, <1>2, <1>4, <2>1
  <2> QED
    BY <2>2, InToSet
<1>8. ASSUME NEW m PROVE m \in ToSet(b) <=> m \in ToSet(r) /\ m \notin ToSet(a)
  <2>1. /\ m \in ToSet(a) <=> \E i \in 1..n : r[i] = m
        /\ m \in ToSet(b) <=> \E i \in 1..d : r[i + n] = m
        /\ m \in ToSet(r) <=> \E i \in 1..l : r[i] = m
    <3>1. m \in ToSet(a) <=> \E i \in 1..n : r[i] = m
      <4>1. m \in ToSet(a) <=> \E i \in 1..n : a[i] = m
        BY <1>3, InToSet
      <4> QED
        BY <1>1, <4>1
    <3>2. m \in ToSet(b) <=> \E i \in 1..d : r[i + n] = m
      <4>1. m \in ToSet(b) <=> \E i \in 1..d : b[i] = m
        BY <1>3, InToSet
      <4> QED
        BY <1>1, <4>1
    <3>3. m \in ToSet(r) <=> \E i \in 1..l : r[i] = m
      BY <1>2, InToSet
    <3> QED
      BY <3>1, <3>2, <3>3
  <2> QED
    BY <1>2, <1>4, <2>1 DEF IsInjective
<1> QED
  BY <1>1, <1>5, <1>6, <1>7, <1>8 DEF a, b, l, d

-----------------------------------------------------------------------------
(* The vswitch. *)
VPorts == {TapPort(p) : p \in Ports} \union {DpdkPort(q) : q \in PortQueues}

(* What a vswitch looks like: one port per tap, then those of the queues. *)
Shape(v) ==
  /\ Len(v) <= VSWITCH_PORT_SIZE
  /\ \A i, j \in 1..Len(v) : v[i] = v[j] => i = j
  /\ \A i \in 1..Len(v) :
       IF i <= NPorts THEN v[i] = TapPort(i - 1) ELSE v[i].type = "DPDK_LCORE"

(* All taps that fit are there. *)
HasTaps(v) == Len(v) >= NPorts \/ Len(v) = VSWITCH_PORT_SIZE

(* A list of queues that has none twice. *)
IsQueueList(s) == s \in Seq(PortQueues) /\ IsInjective(s)

(* The inductive invariant of the vswitch: a handler that runs has set up   *)
(* the taps before it meets the first rib.                                  *)
SwitchInv ==
  /\ pub = [info |-> pub.info, ver |-> pub.ver, queues |-> pub.queues]
  /\ IsQueueList(pub.queues)
  /\ vswitch \in Seq(VPorts) /\ Shape(vswitch)
  /\ tpc \notin {"off", "crashed"} => HasTaps(vswitch)
  /\ idx \in Nat \ {0}

(* The fields of a port. *)
LEMMA PortFields ==
  /\ \A p : TapPort(p).type = "LINUX_TAP" /\ TapPort(p).port = p
  /\ \A q : DpdkPort(q).type = "DPDK_LCORE" /\ DpdkPort(q).queue = q
BY DEF TapPort, DpdkPort

(* A DPDK port of the vswitch has a queue. *)
LEMMA PortHasQueue ==
  ASSUME NEW v \in Seq(VPorts), NEW i \in 1..Len(v), v[i].type = "DPDK_LCORE"
  PROVE  v[i].queue \in PortQueues
<1>1. v[i] \in VPorts
  OBVIOUS
<1> QED
  BY <1>1, PortFields DEF VPorts

(* The removal loop leaves the taps, in their order. *)
LEMMA RemoveLeavesTaps ==
  ASSUME NEW v \in Seq(VPorts), Shape(v)
  PROVE  LET n == IF Len(v) <= NPorts THEN Len(v) ELSE NPorts
         IN  RemoveDpdkPorts(v) = [k \in 1..n |-> TapPort(k - 1)] /\ n \in 0..Len(v)
<1> DEFINE l == Len(v)
           n == IF l <= NPorts THEN l ELSE NPorts
           stays == {i \in 1..l : v[i].type # "DPDK_LCORE"}
           Nth(k) == CHOOSE i \in stays : Cardinality({j \in stays : j <= i}) = k
<1>1. l \in Nat /\ NPorts \in Nat
  BY VswitchAssumption
<1>2. n \in Nat /\ n <= l /\ n <= NPorts /\ \A i \in 1..l : i <= n <=> i <= NPorts
  BY <1>1
<1> HIDE DEF n
<1>3. stays = 1..n
  <2>1. ASSUME NEW i \in 1..l PROVE v[i].type # "DPDK_LCORE" <=> i <= n
    <3>1. CASE i <= NPorts
      <4>1. v[i] = TapPort(i - 1)
        BY <3>1 DEF Shape
      <4> QED
        BY <1>2, <3>1, <4>1, PortFields
    <3>2. CASE ~(i <= NPorts)
      BY <1>2, <3>2 DEF Shape
    <3> QED
      BY <3>1, <3>2
  <2>2. \A i \in 1..n : i \in 1..l /\ i <= n
    BY <1>1, <1>2
  <2>3. \A i \in 1..l : i <= n => i \in 1..n
    BY <1>1, <1>2
  <2> QED
    BY <2>1, <2>2, <2>3
<1>4. \A i \in 0..n : IsFiniteSet(1..i) /\ Cardinality(1..i) = i
  <2> SUFFICES ASSUME NEW i \in 0..n PROVE IsFiniteSet(1..i) /\ Cardinality(1..i) = i
    OBVIOUS
  <2>1. /\ IsFiniteSet(1..i) /\ Cardinality(1..i) = IF 1 > i THEN 0 ELSE i - 1 + 1
    BY <1>2, FS_Interval
  <2> QED
    BY <1>2, <2>1
<1>5. \A i \in stays : Cardinality({j \in stays : j <= i}) = i
  <2> SUFFICES ASSUME NEW i \in 1..n PROVE Cardinality({j \in 1..n : j <= i}) = i
    BY <1>3
  <2>1. {j \in 1..n : j <= i} = 1..i
    BY <1>2
  <2>2. i \in 0..n
    BY <1>2
  <2>3. Cardinality(1..i) = i
    BY <1>4, <2>2, Zenon
  <2> QED
    BY <2>1, <2>3, Zenon
<1>6. \A k \in 1..n : Nth(k) = k
  <2> TAKE k \in 1..n
  <2>1. k \in stays
    BY <1>3
  <2> HIDE DEF stays
  <2> QED
    BY <1>5, <2>1
<1>7. Cardinality(stays) = n
  <2>1. n \in 0..n
    BY <1>2
  <2> HIDE DEF stays
  <2> QED
    BY <1>3, <1>4, <2>1, Zenon
<1>8. RemoveDpdkPorts(v) = [k \in 1..Cardinality(stays) |-> v[Nth(k)]]
  BY DEF RemoveDpdkPorts
<1>9. \A k \in 1..n : v[Nth(k)] = TapPort(k - 1)
  <2> TAKE k \in 1..n
  <2>1. k \in 1..l /\ k <= NPorts
    BY <1>1, <1>2
  <2>2. v[k] = TapPort(k - 1)
    BY <2>1 DEF Shape
  <2> HIDE DEF Nth
  <2> QED
    BY <1>6, <2>2
<1> HIDE DEF stays, Nth
<1>10. RemoveDpdkPorts(v) = [k \in 1..n |-> TapPort(k - 1)]
  BY <1>7, <1>8, <1>9
<1> QED
  BY <1>1, <1>2, <1>10 DEF n

(* Queues behind the taps, each once, within the limit. *)
LEMMA AddKeepsShape ==
  ASSUME NEW n \in Nat, n <= NPorts, n <= VSWITCH_PORT_SIZE,
         n = NPorts \/ n = VSWITCH_PORT_SIZE,
         NEW queues, IsQueueList(queues)
  PROVE  LET w == AddDpdkPorts([k \in 1..n |-> TapPort(k - 1)], queues, VSWITCH_PORT_SIZE)
         IN  w \in Seq(VPorts) /\ Shape(w) /\ HasTaps(w)
<1> DEFINE taps == [k \in 1..n |-> TapPort(k - 1)]
           room == IF Len(taps) < VSWITCH_PORT_SIZE THEN VSWITCH_PORT_SIZE - Len(taps) ELSE 0
           added == IF Len(queues) < room THEN Len(queues) ELSE room
           more == [i \in 1..added |-> DpdkPort(queues[i])]
           w == taps \o more
<1>1. NPorts \in Nat /\ VSWITCH_PORT_SIZE \in Nat /\ queues \in Seq(PortQueues)
      /\ Len(queues) \in Nat
  BY VswitchAssumption DEF IsQueueList
<1>2. taps \in Seq(VPorts) /\ Len(taps) = n /\ \A i \in 1..n : taps[i] = TapPort(i - 1)
  <2>1. \A k \in 1..n : TapPort(k - 1) \in VPorts
    BY <1>1 DEF VPorts, Ports
  <2> QED
    BY <2>1
<1> HIDE DEF taps
<1>3. /\ added \in Nat /\ added <= Len(queues)
      /\ n + added <= VSWITCH_PORT_SIZE
  BY <1>1, <1>2
<1> HIDE DEF added
<1>4. more \in Seq(VPorts) /\ Len(more) = added
      /\ \A i \in 1..added : more[i] = DpdkPort(queues[i])
  <2>1. \A i \in 1..added : queues[i] \in PortQueues
    BY <1>1, <1>3
  <2>2. \A i \in 1..added : DpdkPort(queues[i]) \in VPorts
    BY <2>1 DEF VPorts
  <2> QED
    BY <1>3, <2>2
<1> HIDE DEF more
<1>5. /\ w \in Seq(VPorts) /\ Len(w) = n + added
      /\ \A i \in 1..n : w[i] = taps[i]
      /\ \A i \in n + 1..n + added : w[i] = more[i - n]
  <2>1. /\ w \in Seq(VPorts) /\ Len(w) = Len(taps) + Len(more)
        /\ \A i \in 1..Len(taps) + Len(more) :
             w[i] = IF i <= Len(taps) THEN taps[i] ELSE more[i - Len(taps)]
    BY <1>2, <1>4, ConcatProperties
  <2> HIDE DEF w
  <2> QED
    BY <1>2, <1>3, <1>4, <2>1
<1> HIDE DEF w
<1>6. \A i \in 1..n : w[i] = TapPort(i - 1)
  BY <1>2, <1>5
<1>7. \A i \in n + 1..n + added : w[i] = DpdkPort(queues[i - n]) /\ i - n \in 1..added
  BY <1>3, <1>4, <1>5
<1>8. \A i \in 1..n + added : i \in 1..n \/ i \in n + 1..n + added
  BY <1>3
<1>9. ASSUME NEW i \in 1..n + added, NEW j \in 1..n + added, w[i] = w[j] PROVE i = j
  <2>1. CASE i \in 1..n /\ j \in 1..n
    <3>1. i - 1 = j - 1
      BY <1>6, <1>9, <2>1, PortFields
    <3> QED
      BY <3>1
  <2>2. CASE i \in 1..n /\ j \in n + 1..n + added
    BY <1>6, <1>7, <1>9, <2>2, PortFields
  <2>3. CASE i \in n + 1..n + added /\ j \in 1..n
    BY <1>6, <1>7, <1>9, <2>3, PortFields
  <2>4. CASE i \in n + 1..n + added /\ j \in n + 1..n + added
    <3> DEFINE x == i - n
               y == j - n
    <3>1. x \in 1..added /\ y \in 1..added /\ w[i] = DpdkPort(queues[x])
          /\ w[j] = DpdkPort(queues[y])
      BY <1>7, <2>4
    <3>2. x = y => i = j
      BY <2>4
    <3> HIDE DEF x, y
    <3>3. x \in DOMAIN queues /\ y \in DOMAIN queues
      BY <1>1, <1>3, <3>1
    <3>4. queues[x] = queues[y]
      BY <1>9, <3>1, PortFields
    <3> QED
      BY <3>2, <3>3, <3>4 DEF IsQueueList, IsInjective
  <2> QED
    BY <1>8, <2>1, <2>2, <2>3, <2>4
<1>10. ASSUME NEW i \in 1..n + added
       PROVE  IF i <= NPorts THEN w[i] = TapPort(i - 1) ELSE w[i].type = "DPDK_LCORE"
  <2>1. CASE i \in 1..n
    BY <1>1, <1>6, <2>1
  <2>2. CASE i \in n + 1..n + added
    <3>1. n = NPorts
      BY <1>1, <1>3, <2>2
    <3> QED
      BY <1>1, <1>7, <2>2, <3>1, PortFields
  <2> QED
    BY <1>8, <2>1, <2>2
<1>11. Shape(w) /\ HasTaps(w)
  BY <1>1, <1>3, <1>5, <1>9, <1>10 DEF Shape, HasTaps
<1> QED
  BY <1>5, <1>11 DEF AddDpdkPorts, w, taps, more, added

(* The invariant of the vswitch at the start. *)
LEMMA SwitchInit == Init => SwitchInv
<1> SUFFICES ASSUME Init PROVE SwitchInv
  OBVIOUS
<1>1. pub = [info |-> FALSE, ver |-> 0, queues |-> << >>]
  BY DEF Init
<1>2. IsQueueList(pub.queues)
  BY <1>1 DEF IsQueueList, IsInjective
<1>3. vswitch = << >> /\ tpc = "off" /\ idx = 1
  BY DEF Init
<1>4. vswitch \in Seq(VPorts) /\ Shape(vswitch)
  BY <1>3, VswitchAssumption DEF Shape
<1>5. pub = [info |-> pub.info, ver |-> pub.ver, queues |-> pub.queues]
  BY <1>1
<1> QED
  BY <1>2, <1>3, <1>4, <1>5 DEF SwitchInv

(* Most steps leave the rib and the vswitch alone. *)
LEMMA SwitchFrame ==
  ASSUME SwitchInv, UNCHANGED <<pub, vswitch>>,
         tpc' \in {tpc, "off", "crashed"} \/ tpc \notin {"off", "crashed"},
         idx' \in {idx, 1, idx + 1}
  PROVE  SwitchInv'
BY DEF SwitchInv

(* Every step keeps the vswitch in shape. *)
LEMMA SwitchStep ==
  ASSUME SwitchInv, [Next]_vars
  PROVE  SwitchInv'
<1>1. CASE PublishZero
  <2>1. pub' = [pub EXCEPT !.info = FALSE] /\ UNCHANGED <<vswitch, tpc, idx>>
    BY <1>1 DEF PublishZero, tap_vars
  <2>2. /\ pub'.queues = pub.queues
        /\ pub' = [info |-> pub'.info, ver |-> pub'.ver, queues |-> pub'.queues]
    BY <2>1 DEF SwitchInv
  <2> QED
    BY <2>1, <2>2 DEF SwitchInv
<1>2. ASSUME NEW queues \in QueueLists, PublishRib(queues) PROVE SwitchInv'
  <2>1. /\ pub' = [info |-> TRUE, ver |-> pub.ver + 1, queues |-> queues]
        /\ UNCHANGED <<vswitch, tpc, idx>>
    BY <1>2 DEF PublishRib, tap_vars
  <2>2. IsQueueList(queues)
    <3>1. PICK n \in 0..Cardinality(PortQueues) : queues \in [1..n -> PortQueues]
                                                  /\ IsInjective(queues)
      BY DEF QueueLists
    <3>2. n \in Nat
      OBVIOUS
    <3> QED
      BY <3>1, <3>2 DEF IsQueueList
  <2>3. /\ pub'.queues = queues
        /\ pub' = [info |-> pub'.info, ver |-> pub'.ver, queues |-> pub'.queues]
    BY <2>1
  <2> QED
    BY <2>1, <2>2, <2>3 DEF SwitchInv
<1>3. CASE TapHandlerStart
  <2> DEFINE taps == [i \in 1..NPorts |-> TapPort(i - 1)]
             n == IF NPorts <= VSWITCH_PORT_SIZE THEN NPorts ELSE VSWITCH_PORT_SIZE
             fit == [i \in 1..n |-> TapPort(i - 1)]
  <2>1. /\ vswitch' = IF NPorts <= VSWITCH_PORT_SIZE THEN taps
                      ELSE SubSeq(taps, 1, VSWITCH_PORT_SIZE)
        /\ UNCHANGED <<pub, idx>>
    BY <1>3 DEF TapHandlerStart
  <2>2. NPorts \in Nat /\ VSWITCH_PORT_SIZE \in Nat
    BY VswitchAssumption
  <2>3. n \in Nat /\ n <= NPorts /\ n <= VSWITCH_PORT_SIZE
        /\ (n = NPorts \/ n = VSWITCH_PORT_SIZE)
    BY <2>2
  <2>4. \A i \in 1..NPorts : TapPort(i - 1) \in VPorts
    BY <2>2 DEF VPorts, Ports
  <2>5. taps \in Seq(VPorts) /\ Len(taps) = NPorts
    BY <2>2, <2>4
  <2>6. vswitch' = fit
    <3>1. CASE NPorts <= VSWITCH_PORT_SIZE
      BY <2>1, <3>1
    <3>2. CASE ~(NPorts <= VSWITCH_PORT_SIZE)
      <4>1. n = VSWITCH_PORT_SIZE /\ n \in 0..Len(taps)
        BY <2>2, <2>5, <3>2
      <4> HIDE DEF n, taps
      <4>2. /\ SubSeq(taps, 1, n) \in Seq(VPorts) /\ Len(SubSeq(taps, 1, n)) = n
            /\ \A i \in 1..n : SubSeq(taps, 1, n)[i] = taps[i]
        BY <2>5, <4>1, Cut
      <4>3. \A i \in 1..n : taps[i] = TapPort(i - 1)
        BY <2>2, <2>3 DEF taps
      <4> QED
        <5> DEFINE cut == SubSeq(taps, 1, n)
        <5>1. vswitch' = cut
          BY <2>1, <3>2, <4>1
        <5> HIDE DEF cut
        <5>2. cut = [i \in 1..n |-> cut[i]]
          BY <2>3, <4>2 DEF cut
        <5>3. \A i \in 1..n : cut[i] = TapPort(i - 1)
          BY <4>2, <4>3 DEF cut
        <5> QED
          BY <5>1, <5>2, <5>3
    <3> QED
      BY <3>1, <3>2
  <2> HIDE DEF n
  <2>7. fit \in Seq(VPorts) /\ Len(fit) = n /\ \A i \in 1..n : fit[i] = TapPort(i - 1)
    BY <2>2, <2>3, <2>4
  <2> HIDE DEF fit
  <2>8. ASSUME NEW i \in 1..n, NEW j \in 1..n, fit[i] = fit[j] PROVE i = j
    <3>1. i - 1 = j - 1
      BY <2>7, <2>8, PortFields
    <3> QED
      BY <3>1
  <2>9. Shape(fit) /\ HasTaps(fit)
    BY <2>2, <2>3, <2>7, <2>8 DEF Shape, HasTaps
  <2> QED
    BY <2>1, <2>6, <2>7, <2>9 DEF SwitchInv
<1>4. ASSUME NEW v, ReadRib(v) PROVE SwitchInv'
  <2>1. tpc = "read" /\ tpc' = "up" /\ idx' = 1 /\ UNCHANGED pub
        /\ (vswitch' = vswitch \/ vswitch' = vswitch_port_update(vswitch, pub.queues))
    BY <1>4 DEF ReadRib
  <2>2. CASE vswitch' = vswitch
    BY <2>1, <2>2 DEF SwitchInv
  <2>3. CASE vswitch' = vswitch_port_update(vswitch, pub.queues)
    <3> DEFINE n == IF Len(vswitch) <= NPorts THEN Len(vswitch) ELSE NPorts
    <3>1. vswitch \in Seq(VPorts) /\ Shape(vswitch) /\ HasTaps(vswitch)
          /\ IsQueueList(pub.queues)
      BY <2>1 DEF SwitchInv
    <3>2. RemoveDpdkPorts(vswitch) = [k \in 1..n |-> TapPort(k - 1)]
      BY <3>1, RemoveLeavesTaps
    <3>3. /\ n \in Nat /\ n <= NPorts /\ n <= VSWITCH_PORT_SIZE
          /\ n = NPorts \/ n = VSWITCH_PORT_SIZE
      <4>1. /\ NPorts \in Nat /\ VSWITCH_PORT_SIZE \in Nat /\ Len(vswitch) \in Nat
            /\ Len(vswitch) <= VSWITCH_PORT_SIZE
        BY <3>1, VswitchAssumption DEF Shape
      <4> QED
        BY <3>1, <4>1 DEF HasTaps
    <3> HIDE DEF n
    <3>4. vswitch' \in Seq(VPorts) /\ Shape(vswitch') /\ HasTaps(vswitch')
      BY <2>3, <3>1, <3>2, <3>3, AddKeepsShape DEF vswitch_port_update
    <3> QED
      BY <2>1, <3>4 DEF SwitchInv
  <2> QED
    BY <2>1, <2>2, <2>3
<1>5. ASSUME \/ DequeueUp \/ HandlePacketUp \/ UpDone \/ ReadTap \/ FloodSkip \/ FloodCrash
             \/ \E ready \in SUBSET Polled : Poll(ready)
             \/ \E m \in Mbufs : Flood(m)
             \/ \E stop \in BOOLEAN : LoopEnd(stop)
      PROVE  SwitchInv'
  <2>1. /\ UNCHANGED <<pub, vswitch>> /\ tpc \notin {"off", "crashed"}
        /\ idx' \in {idx, 1, idx + 1}
    BY <1>5 DEF DequeueUp, HandlePacketUp, UpDone, ReadTap, FloodSkip, FloodCrash, Poll,
                Flood, LoopEnd
  <2> QED
    BY <2>1, SwitchFrame
<1>6. CASE RepeaterAndNic
  <2>1. UNCHANGED <<pub, tap_vars>>
    BY <1>6 DEF RepeaterAndNic, RxPacket, TxBurst, NicDone
  <2> QED
    BY <2>1, SwitchFrame DEF tap_vars
<1>7. CASE NettlpThread
  <2>1. UNCHANGED <<pub, vswitch, idx>> /\ tpc' \in {tpc, "crashed"}
    BY <1>7 DEF NettlpThread, NettlpTurn, NettlpReceive, NettlpComplete, NettlpSendDma,
                NettlpUdpSend, NettlpFree, tap_vars
  <2> QED
    BY <2>1, SwitchFrame
<1>8. CASE UNCHANGED vars
  BY <1>8 DEF SwitchInv, vars, tap_vars
<1> QED
  BY <1>1, <1>2, <1>3, <1>4, <1>5, <1>6, <1>7, <1>8 DEF Next, TapHandler

(* However often vswitch_port_update() removes and adds the queues of a rib, *)
(* the vswitch is the taps followed by queues, none twice and none beyond   *)
(* its size: for every number of ports and queues and every size.           *)
THEOREM VswitchKeepsShape == Spec => []VswitchShape
<1>1. SwitchInv => VswitchShape
  BY DEF SwitchInv, Shape, VswitchShape
<1>2. SwitchInv /\ [Next]_vars => SwitchInv'
  BY SwitchStep
<1> QED
  BY SwitchInit, <1>1, <1>2, PTL DEF Spec
-----------------------------------------------------------------------------
(* The mbufs.  What each owner owns, as one function of the owners. *)
At(x) == <<x, NULL>>
Up(q) == <<"ring_up", q>>
Down(q) == <<"ring_dn", q>>

(* What each owner has. *)
Shares(free, tx, lost, worker, burst, up, dn) ==
  [o \in Owners |->
     CASE o[1] = "pool" -> free
       [] o[1] = "nic" -> tx
       [] o[1] = "leaked" -> lost
       [] o[1] = "nettlp" -> worker
       [] o[1] = "tap_handler" -> burst
       [] o[1] = "ring_up" -> Queued(up[o[2]])
       [] o[1] = "ring_dn" -> ToSet(dn[o[2]])]

(* Every mbuf has one owner. *)
Exact(O) == \A m \in Mbufs : \E o \in Owners : \A p \in Owners : m \in O[p] <=> p = o

(* The owners are five and the rings of each queue, all of them different. *)
LEMMA OwnersAre ==
  /\ {At("pool"), At("nic"), At("leaked"), At("nettlp"), At("tap_handler")} \subseteq Owners
  /\ \A q \in PortQueues : Up(q) \in Owners /\ Down(q) \in Owners
  /\ \A p \in Owners : \/ p \in {At("pool"), At("nic"), At("leaked"), At("nettlp"),
                                 At("tap_handler")}
                       \/ \E q \in PortQueues : p = Up(q) \/ p = Down(q)
BY DEF Owners, At, Up, Down

(* The owners are told apart. *)
LEMMA OwnersDiffer ==
  /\ At("pool") \notin {At("nic"), At("leaked"), At("nettlp"), At("tap_handler")}
  /\ At("nic") \notin {At("leaked"), At("nettlp"), At("tap_handler")}
  /\ At("leaked") \notin {At("nettlp"), At("tap_handler")}
  /\ At("nettlp") # At("tap_handler")
  /\ \A q : {Up(q), Down(q)} \cap {At("pool"), At("nic"), At("leaked"), At("nettlp"),
                                   At("tap_handler")} = {}
  /\ \A q, r : Up(q) # Down(r) /\ (Up(q) = Up(r) => q = r) /\ (Down(q) = Down(r) => q = r)
BY DEF At, Up, Down

(* What each owner has, by its name. *)
LEMMA ShareOf ==
  ASSUME NEW free, NEW tx, NEW lost, NEW worker, NEW burst, NEW up, NEW dn
  PROVE  LET O == Shares(free, tx, lost, worker, burst, up, dn)
         IN  /\ O[At("pool")] = free /\ O[At("nic")] = tx /\ O[At("leaked")] = lost
             /\ O[At("nettlp")] = worker /\ O[At("tap_handler")] = burst
             /\ \A q \in PortQueues :
                  O[Up(q)] = Queued(up[q]) /\ O[Down(q)] = ToSet(dn[q])
<1> DEFINE O == Shares(free, tx, lost, worker, burst, up, dn)
<1>1. ASSUME NEW x \in {"pool", "nic", "leaked", "nettlp", "tap_handler"}
      PROVE  At(x) \in Owners /\ At(x)[1] = x
  BY DEF Owners, At
<1>2. O[At("pool")] = free /\ O[At("nic")] = tx /\ O[At("leaked")] = lost
      /\ O[At("nettlp")] = worker /\ O[At("tap_handler")] = burst
  BY <1>1 DEF Shares
<1>3. ASSUME NEW q \in PortQueues
      PROVE  O[Up(q)] = Queued(up[q]) /\ O[Down(q)] = ToSet(dn[q])
  <2>1. Up(q) \in Owners /\ Up(q)[1] = "ring_up" /\ Up(q)[2] = q
    BY DEF Owners, Up
  <2>2. Down(q) \in Owners /\ Down(q)[1] = "ring_dn" /\ Down(q)[2] = q
    BY DEF Owners, Down
  <2> QED
    BY <2>1, <2>2 DEF Shares
<1> QED
  BY <1>2, <1>3

(* When every mbuf has exactly one owner, who owns one is the only one. *)
LEMMA OneOwner ==
  ASSUME NEW O, Exact(O), NEW a \in Owners, NEW b \in Owners, a # b,
         NEW m \in Mbufs, m \in O[a]
  PROVE  m \notin O[b]
BY DEF Exact

(* An owner hands the mbufs M1 to b and M2 to c. *)
Moves(O, N, a, b, c, M1, M2) ==
  /\ {a, b, c} \subseteq Owners /\ a # b /\ a # c /\ b # c
  /\ M1 \subseteq O[a] /\ M2 \subseteq O[a] /\ M1 \cap M2 = {}
  /\ N[a] = O[a] \ (M1 \union M2)
  /\ N[b] = O[b] \union M1
  /\ N[c] = O[c] \union M2
  /\ \A p \in Owners \ {a, b, c} : N[p] = O[p]

(* Ownership stays exact when an owner passes mbufs on to two others. *)
LEMMA Transfer ==
  ASSUME NEW O, Exact(O), NEW N, NEW a, NEW b, NEW c, NEW M1, NEW M2,
         Moves(O, N, a, b, c, M1, M2)
  PROVE  Exact(N)
<1> SUFFICES ASSUME NEW m \in Mbufs
             PROVE  \E o \in Owners : \A p \in Owners : m \in N[p] <=> p = o
  BY DEF Exact
<1>1. PICK o \in Owners : \A p \in Owners : m \in O[p] <=> p = o
  BY DEF Exact
<1>2. CASE m \in M1
  BY <1>1, <1>2 DEF Moves
<1>3. CASE m \in M2
  BY <1>1, <1>3 DEF Moves
<1>4. CASE m \notin M1 \union M2
  <2>1. \A p \in Owners : m \in N[p] <=> m \in O[p]
    BY <1>4 DEF Moves
  <2> QED
    BY <1>1, <2>1
<1> QED
  BY <1>2, <1>3, <1>4

(* The inductive invariant of the mbufs. *)
Worker == {nettlp.m} \ {NULL}
(* Who owns what now. *)
HeldNow == Shares(pool, nic, leaked, Worker, Queued(pkts_burst), ring_up, ring_dn)

(* The places where mbufs are hold mbufs. *)
MbufTypes ==
  /\ pool \subseteq Mbufs /\ nic \subseteq Mbufs /\ leaked \subseteq Mbufs
  /\ nettlp \in [rx : PortQueues \union {NULL}, m : Mbufs \union {NULL}]
  /\ ring_up \in [PortQueues -> Seq(Copies)]
  /\ ring_dn \in [PortQueues -> Seq(Mbufs)]
  /\ pkts_burst \in Seq(Copies)

(* No place has an mbuf twice. *)
RingsOnce ==
  /\ \A q \in PortQueues : QueuedOnce(ring_up[q]) /\ IsInjective(ring_dn[q])
  /\ QueuedOnce(pkts_burst)

(* The inductive invariant of the mbufs. *)
MbufInv == MbufTypes /\ RingsOnce /\ Exact(HeldNow)

(* It says what MbufOnce says. *)
LEMMA MbufInvIs == MbufInv => MbufOnce
<1>1. \A o \in Owners : HeldNow[o] = Owned(o)
  BY DEF HeldNow, Shares, Owned, Worker
<1> QED
  BY <1>1 DEF MbufInv, Exact, RingsOnce, MbufOnce

(* What the owners own now, and after a step. *)
Holds(O, free, tx, lost, worker, burst, up, dn) ==
  /\ O[At("pool")] = free /\ O[At("nic")] = tx /\ O[At("leaked")] = lost
  /\ O[At("nettlp")] = worker /\ O[At("tap_handler")] = burst
  /\ \A q \in PortQueues : O[Up(q)] = Queued(up[q]) /\ O[Down(q)] = ToSet(dn[q])

(* Who owns what before a step. *)
LEMMA NowHolds ==
  Holds(HeldNow, pool, nic, leaked, Worker, Queued(pkts_burst), ring_up, ring_dn)
BY ShareOf DEF HeldNow, Holds

(* Who owns what after it. *)
LEMMA ThenHolds ==
  Holds(HeldNow', pool', nic', leaked', Worker', Queued(pkts_burst)', ring_up', ring_dn')
<1>1. HeldNow' = Shares(pool', nic', leaked', Worker', Queued(pkts_burst)', ring_up', ring_dn')
  BY DEF HeldNow, Shares, Queued, ToSet
<1> HIDE DEF HeldNow
<1> QED
  BY <1>1, ShareOf DEF Holds

(* At first all mbufs are in the pool. *)
LEMMA InitMbufs == Init => MbufInv
<1> SUFFICES ASSUME Init PROVE MbufInv
  OBVIOUS
<1>1. /\ pool = Mbufs /\ nic = {} /\ leaked = {} /\ nettlp = [rx |-> NULL, m |-> NULL]
      /\ ring_up = [q \in PortQueues |-> << >>] /\ ring_dn = [q \in PortQueues |-> << >>]
      /\ pkts_burst = << >>
  BY DEF Init
<1>2. MbufTypes
  BY <1>1 DEF MbufTypes
<1>3. RingsOnce
  BY <1>1 DEF RingsOnce, QueuedOnce, IsInjective
<1>4. Worker = {} /\ Queued(pkts_burst) = {}
  BY <1>1 DEF Worker, Queued, ToSet
<1>5. \A q \in PortQueues : Queued(ring_up[q]) = {} /\ ToSet(ring_dn[q]) = {}
  BY <1>1 DEF Queued, ToSet
<1>6. Exact(HeldNow)
  <2>1. \A p \in Owners : p # At("pool") => HeldNow[p] = {}
    BY <1>1, <1>4, <1>5, NowHolds, OwnersAre DEF Holds
  <2>2. HeldNow[At("pool")] = Mbufs
    BY <1>1, NowHolds DEF Holds
  <2> QED
    BY <2>1, <2>2, OwnersAre DEF Exact
<1> QED
  BY <1>2, <1>3, <1>6 DEF MbufInv

(* A free mbuf is in no ring. *)
LEMMA FreeIsNotQueued ==
  ASSUME MbufInv, NEW m \in pool, NEW q \in PortQueues
  PROVE  m \notin Queued(ring_up[q]) /\ m \notin ToSet(ring_dn[q])
<1>1. m \in Mbufs /\ m \in HeldNow[At("pool")] /\ Exact(HeldNow)
  BY NowHolds DEF MbufInv, MbufTypes, Holds
<1>2. HeldNow[Up(q)] = Queued(ring_up[q]) /\ HeldNow[Down(q)] = ToSet(ring_dn[q])
  BY NowHolds DEF Holds
<1>3. At("pool") \in Owners /\ Up(q) \in Owners /\ Down(q) \in Owners
  BY OwnersAre
<1>4. At("pool") # Up(q) /\ At("pool") # Down(q)
  BY OwnersDiffer
<1>5. m \notin HeldNow[Up(q)]
  BY <1>1, <1>3, <1>4, OneOwner
<1>6. m \notin HeldNow[Down(q)]
  BY <1>1, <1>3, <1>4, OneOwner
<1> QED
  BY <1>2, <1>5, <1>6

(* `up` is ring_up with the mbufs M, none or one, added to the ring of q. *)
TakesUp(up, q, M) ==
  /\ up \in [PortQueues -> Seq(Copies)]
  /\ \A r \in PortQueues : QueuedOnce(up[r])
  /\ Queued(up[q]) = Queued(ring_up[q]) \union M
  /\ \A r \in PortQueues \ {q} : up[r] = ring_up[r]

(* Copy c, or NULL, of a packet goes to ring_up of q. *)
LEMMA UpAppend ==
  ASSUME MbufInv, NEW q \in PortQueues, NEW c \in pool \union {NULL},
         NEW src \in EtherAddrs \union {ZeroAddr}, NEW port \in Ports \union {NPorts}
  PROVE  TakesUp([ring_up EXCEPT ![q] = Append(@, Packet(c, src, port))], q, {c} \ {NULL})
<1> DEFINE k == Packet(c, src, port)
           up == [ring_up EXCEPT ![q] = Append(@, k)]
<1>1. ring_up \in [PortQueues -> Seq(Copies)] /\ \A r \in PortQueues : QueuedOnce(ring_up[r])
  BY DEF MbufInv, MbufTypes, RingsOnce
<1>2. k \in Copies /\ (k = NULL <=> c = NULL) /\ (c # NULL => k.mbuf = c)
  <2>1. CASE c = NULL
    BY <2>1 DEF Packet, Copies
  <2>2. CASE c # NULL
    <3>1. c \in Mbufs
      BY <2>2 DEF MbufInv, MbufTypes
    <3>2. k = [mbuf |-> c, src |-> src, port |-> port]
      BY <2>2 DEF Packet
    <3>3. k \in Packets
      BY <3>1, <3>2 DEF Packets
    <3> QED
      BY <2>2, <3>2, <3>3, VswitchAssumption DEF Copies
  <2> QED
    BY <2>1, <2>2
<1> HIDE DEF k
<1>3. c # NULL => c \notin Queued(ring_up[q])
  BY FreeIsNotQueued
<1>4. up = [ring_up EXCEPT ![q] = Append(ring_up[q], k)]
  BY DEF k
<1>5. /\ Append(ring_up[q], k) \in Seq(Copies) /\ QueuedOnce(Append(ring_up[q], k))
      /\ Queued(Append(ring_up[q], k)) = Queued(ring_up[q]) \union (IF k = NULL THEN {} ELSE {k.mbuf})
  <2>1. ring_up[q] \in Seq(Copies) /\ QueuedOnce(ring_up[q])
    BY <1>1
  <2> QED
    BY <1>2, <1>3, <2>1, QueuedAppend
<1> DEFINE longer == Append(ring_up[q], k)
<1> HIDE DEF longer, up
<1>6. up[q] = longer /\ \A r \in PortQueues \ {q} : up[r] = ring_up[r]
  BY <1>1, <1>4 DEF longer
<1>7. up \in [PortQueues -> Seq(Copies)]
  BY <1>1, <1>4, <1>5 DEF longer
<1> QED
  <2>1. TakesUp(up, q, {c} \ {NULL})
    BY <1>1, <1>2, <1>5, <1>6, <1>7 DEF longer, TakesUp
  <2> QED
    BY <2>1 DEF up, k

(* A step that takes the mbufs M1 of the pool for b, the devices, the worker *)
(* or nobody, and M2 of them for ring_up of q.                               *)
LEMMA FromPool ==
  ASSUME MbufInv, NEW b \in {At("nic"), At("leaked"), At("nettlp")}, NEW q \in PortQueues,
         NEW M1, NEW M2, M1 \subseteq pool, M2 \subseteq pool, M1 \cap M2 = {},
         pool' = pool \ (M1 \union M2),
         nic' = IF b = At("nic") THEN nic \union M1 ELSE nic,
         leaked' = IF b = At("leaked") THEN leaked \union M1 ELSE leaked,
         Worker' = IF b = At("nettlp") THEN Worker \union M1 ELSE Worker,
         Queued(ring_up'[q]) = Queued(ring_up[q]) \union M2,
         \A r \in PortQueues \ {q} : ring_up'[r] = ring_up[r],
         UNCHANGED <<ring_dn, pkts_burst>>
  PROVE  Exact(HeldNow')
<1>1. b \in Owners /\ At("pool") \in Owners /\ Up(q) \in Owners
  BY OwnersAre
<1>2. At("pool") # b /\ At("pool") # Up(q) /\ b # Up(q)
  BY OwnersDiffer
<1>3. Queued(pkts_burst)' = Queued(pkts_burst)
  BY DEF Queued, ToSet
<1>4. /\ HeldNow[At("pool")] = pool /\ HeldNow'[At("pool")] = HeldNow[At("pool")] \ (M1 \union M2)
      /\ HeldNow'[b] = HeldNow[b] \union M1
      /\ HeldNow'[Up(q)] = HeldNow[Up(q)] \union M2
  BY NowHolds, ThenHolds, OwnersDiffer DEF Holds
<1>5. ASSUME NEW p \in Owners \ {At("pool"), b, Up(q)} PROVE HeldNow'[p] = HeldNow[p]
  <2>1. CASE p \in {At("nic"), At("leaked"), At("nettlp"), At("tap_handler")}
    BY <1>3, <1>5, <2>1, NowHolds, ThenHolds DEF Holds
  <2>2. CASE \E r \in PortQueues : p = Up(r) \/ p = Down(r)
    BY <1>5, <2>2, NowHolds, ThenHolds DEF Holds
  <2> QED
    BY <1>5, <2>1, <2>2, OwnersAre
<1>6. Moves(HeldNow, HeldNow', At("pool"), b, Up(q), M1, M2)
  BY <1>1, <1>2, <1>4, <1>5 DEF Moves
<1> QED
  BY <1>6, Transfer DEF MbufInv

(* The port of a queue. *)
LEMMA PortIsPort ==
  ASSUME NEW q \in PortQueues
  PROVE  q.port_id \in Ports \union {NPorts}
BY VswitchAssumption

(* The repeater fills the device and the ring to the taps from the pool. *)
LEMMA RxKeeps ==
  ASSUME MbufInv, NEW q \in PortQueues, NEW m \in Mbufs,
         NEW src \in EtherAddrs \union {ZeroAddr}, NEW links, RxPacket(q, m, src, links)
  PROVE  MbufInv'
<1>1. PICK c \in IF pool = {m} THEN {NULL} ELSE pool \ {m} :
        LET taken == IF Full(ring_up[q]) THEN {} ELSE {c}
            free == pool \ ({m} \union taken)
            wanted == Cardinality(links)
            copied == IF wanted <= Cardinality(free) THEN wanted ELSE Cardinality(free)
        IN  \E copies \in kSubset(copied, free) :
              /\ nic' = nic \union copies
              /\ pool' = pool \ (copies \union taken)
              /\ ring_up' = IF taken = {} THEN ring_up
                            ELSE [ring_up EXCEPT ![q] = Append(@, Packet(c, src, q.port_id))]
  BY DEF RxPacket
<1> DEFINE taken == IF Full(ring_up[q]) THEN {} ELSE {c}
           M == taken \ {NULL}
<1>2. PICK copies : /\ copies \subseteq pool \ ({m} \union taken)
                    /\ nic' = nic \union copies
                    /\ pool' = pool \ (copies \union taken)
                    /\ ring_up' = IF taken = {} THEN ring_up
                                  ELSE [ring_up EXCEPT ![q] = Append(@, Packet(c, src, q.port_id))]
  BY <1>1 DEF kSubset
<1>3. UNCHANGED <<ring_dn, leaked, nettlp, pkts_burst>>
  BY DEF RxPacket, tap_vars
<1>4. c \in pool \union {NULL}
  BY <1>1
<1>5. NULL \notin pool
  BY VswitchAssumption DEF MbufInv, MbufTypes
<1>6. TakesUp(ring_up', q, M) /\ M \subseteq pool
  <2>1. CASE Full(ring_up[q])
    BY <1>2, <2>1 DEF TakesUp, MbufInv, MbufTypes, RingsOnce
  <2>2. CASE ~Full(ring_up[q])
    <3>1. ring_up' = [ring_up EXCEPT ![q] = Append(@, Packet(c, src, q.port_id))] /\ M = {c} \ {NULL}
      BY <1>2, <2>2
    <3> HIDE DEF M, taken
    <3>2. TakesUp(ring_up', q, {c} \ {NULL})
      BY <1>4, <3>1, UpAppend, PortIsPort
    <3> QED
      BY <1>4, <3>1, <3>2
  <2> QED
    BY <2>1, <2>2
<1>7. copies \subseteq pool /\ copies \cap M = {} /\ pool' = pool \ (copies \union M)
  BY <1>2, <1>5
<1> HIDE DEF M, taken
<1>8. Worker' = Worker
  BY <1>3 DEF Worker
<1>9. Exact(HeldNow')
  BY <1>2, <1>3, <1>6, <1>7, <1>8, FromPool, OwnersDiffer DEF TakesUp
<1>10. MbufTypes'
  BY <1>2, <1>3, <1>6, <1>7 DEF TakesUp, MbufInv, MbufTypes
<1>11. RingsOnce'
  BY <1>3, <1>6 DEF TakesUp, MbufInv, RingsOnce
<1> QED
  BY <1>9, <1>10, <1>11 DEF MbufInv

(* What nettlp_send_packet_tap_up() does to ring_up of a queue. *)
LEMMA TapUpsAre ==
  ASSUME MbufInv, NEW q \in PortQueues, NEW free \in SUBSET pool,
         NEW src \in EtherAddrs \union {ZeroAddr}, NEW port \in Ports \union {NPorts},
         NEW t \in TapUps(q, free, src, port)
  PROVE  t.taken \subseteq free /\ TakesUp(t.ring, q, t.taken)
<1>1. CASE t = [ring |-> ring_up, taken |-> {}]
  BY <1>1 DEF TakesUp, MbufInv, MbufTypes, RingsOnce
<1>2. CASE \E c \in IF free = {} THEN {NULL} ELSE free :
             t = [ring  |-> [ring_up EXCEPT ![q] = Append(@, Packet(c, src, port))],
                  taken |-> {c} \ {NULL}]
  <2>1. PICK c \in IF free = {} THEN {NULL} ELSE free :
             t = [ring  |-> [ring_up EXCEPT ![q] = Append(@, Packet(c, src, port))],
                  taken |-> {c} \ {NULL}]
    BY <1>2
  <2>2. t.ring = [ring_up EXCEPT ![q] = Append(@, Packet(c, src, port))]
        /\ t.taken = {c} \ {NULL}
    BY <2>1
  <2>3. c \in pool \union {NULL} /\ t.taken \subseteq free
    BY <2>1, <2>2
  <2>4. TakesUp([ring_up EXCEPT ![q] = Append(@, Packet(c, src, port))], q, {c} \ {NULL})
    BY <2>3, UpAppend
  <2>5. TakesUp(t.ring, q, t.taken)
    BY <2>2, <2>4, Zenon
  <2> QED
    BY <2>3, <2>5
<1> QED
  BY <1>1, <1>2 DEF TapUps

(* The worker fills its hand and the ring to the taps from the pool. *)
LEMMA ReceiveKeeps ==
  ASSUME MbufInv, NEW q \in PortQueues, NEW m \in Mbufs,
         NEW src \in EtherAddrs \union {ZeroAddr}, NEW udp \in BOOLEAN,
         NettlpReceive(q, m, src, udp)
  PROVE  MbufInv'
<1>1. PICK t \in TapUps(q, pool \ {m}, src, q.port_id) :
        ring_up' = t.ring /\ pool' = pool \ ({m} \union t.taken)
  BY DEF NettlpReceive
<1>2. /\ nettlp.m = NULL /\ m \in pool
      /\ nettlp' = [rx |-> q, m |-> IF udp THEN m ELSE NULL]
      /\ leaked' = IF udp THEN leaked ELSE leaked \union {m}
      /\ UNCHANGED <<ring_dn, nic, pkts_burst>>
  BY DEF NettlpReceive, tap_vars
<1>3. t.taken \subseteq pool \ {m} /\ TakesUp(ring_up', q, t.taken)
  BY <1>1, TapUpsAre, PortIsPort
<1>4. NULL \notin Mbufs
  BY VswitchAssumption
<1>5. Worker = {} /\ Worker' = IF udp THEN {m} ELSE {}
  BY <1>2, <1>4 DEF Worker
<1> DEFINE b == IF udp THEN At("nettlp") ELSE At("leaked")
<1>6. /\ b \in {At("nic"), At("leaked"), At("nettlp")}
      /\ nic' = IF b = At("nic") THEN nic \union {m} ELSE nic
      /\ leaked' = IF b = At("leaked") THEN leaked \union {m} ELSE leaked
      /\ Worker' = IF b = At("nettlp") THEN Worker \union {m} ELSE Worker
  BY <1>2, <1>5, OwnersDiffer
<1> HIDE DEF b
<1>7. Exact(HeldNow')
  <2>1. {m} \subseteq pool /\ t.taken \subseteq pool /\ {m} \cap t.taken = {}
    BY <1>2, <1>3
  <2> QED
    BY <1>1, <1>2, <1>3, <1>6, <2>1, FromPool DEF TakesUp
<1>8. MbufTypes'
  BY <1>1, <1>2, <1>3 DEF TakesUp, MbufInv, MbufTypes
<1>9. RingsOnce'
  BY <1>2, <1>3 DEF TakesUp, MbufInv, RingsOnce
<1> QED
  BY <1>7, <1>8, <1>9 DEF MbufInv

(* A packet of the worker's own goes to the device or is forgotten. *)
LEMMA SendKeeps ==
  ASSUME MbufInv, NEW buffer \in BOOLEAN, NettlpUdpSend(buffer)
  PROVE  MbufInv'
<1>1. CASE pool = {} /\ UNCHANGED <<mbuf_vars, pkts_burst>>
  <2>1. Worker' = Worker /\ HeldNow' = HeldNow
    BY <1>1 DEF Worker, HeldNow, Shares, Queued, ToSet, mbuf_vars, rings
  <2>2. MbufTypes' /\ RingsOnce'
    BY <1>1 DEF MbufInv, MbufTypes, RingsOnce, QueuedOnce, mbuf_vars, rings
  <2> QED
    BY <2>1, <2>2 DEF MbufInv
<1>2. ASSUME NEW m \in pool, NEW t \in TapUps(nettlp.rx, pool \ {m}, LocalEther, NPorts),
             ring_up' = t.ring, pool' = pool \ ({m} \union t.taken),
             nic' = IF buffer THEN nic \union {m} ELSE nic,
             leaked' = IF buffer THEN leaked ELSE leaked \union {m},
             UNCHANGED <<ring_dn, nettlp, pkts_burst>>
      PROVE  MbufInv'
  <2> DEFINE b == IF buffer THEN At("nic") ELSE At("leaked")
  <2>1. Worker' = Worker
    BY <1>2 DEF Worker
  <2>2. /\ b \in {At("nic"), At("leaked"), At("nettlp")}
        /\ nic' = IF b = At("nic") THEN nic \union {m} ELSE nic
        /\ leaked' = IF b = At("leaked") THEN leaked \union {m} ELSE leaked
        /\ Worker' = IF b = At("nettlp") THEN Worker \union {m} ELSE Worker
    BY <1>2, <2>1, OwnersDiffer
  <2> HIDE DEF b
  <2>3. CASE nettlp.rx \in PortQueues
    <3> DEFINE q == nettlp.rx
    <3> HIDE DEF q
    <3>1. t.taken \subseteq pool \ {m} /\ TakesUp(ring_up', q, t.taken)
      <4>1. t \in TapUps(q, pool \ {m}, LocalEther, NPorts) /\ q \in PortQueues
        BY <2>3 DEF q
      <4>2. LocalEther \in EtherAddrs \union {ZeroAddr}
        BY VswitchAssumption
      <4> QED
        BY <1>2, <4>1, <4>2, TapUpsAre
    <3>2. {m} \subseteq pool /\ t.taken \subseteq pool /\ {m} \cap t.taken = {}
      BY <3>1
    <3>3. Exact(HeldNow')
      BY <1>2, <2>2, <2>3, <3>1, <3>2, FromPool DEF TakesUp, q
    <3>4. MbufTypes'
      BY <1>2, <3>1 DEF TakesUp, MbufInv, MbufTypes
    <3>5. RingsOnce'
      BY <1>2, <3>1 DEF TakesUp, MbufInv, RingsOnce
    <3> QED
      BY <3>3, <3>4, <3>5 DEF MbufInv
  <2>4. CASE nettlp.rx = NULL
    <3>1. t = [ring |-> ring_up, taken |-> {}]
      BY <2>4 DEF TapUps
    <3>2. ring_up' = ring_up /\ pool' = pool \ {m}
      BY <1>2, <3>1
    <3>3. Queued(pkts_burst)' = Queued(pkts_burst)
      BY <1>2 DEF Queued, ToSet
    <3>4. Moves(HeldNow, HeldNow', At("pool"), b, At("tap_handler"), {m}, {})
      <4>1. {At("pool"), b, At("tap_handler")} \subseteq Owners
            /\ At("pool") # b /\ At("pool") # At("tap_handler") /\ b # At("tap_handler")
        BY <2>2, OwnersAre, OwnersDiffer
      <4>2. /\ HeldNow[At("pool")] = pool /\ HeldNow'[At("pool")] = pool \ {m}
            /\ HeldNow'[b] = HeldNow[b] \union {m}
            /\ HeldNow'[At("tap_handler")] = HeldNow[At("tap_handler")]
        BY <2>2, <3>2, <3>3, NowHolds, ThenHolds, OwnersDiffer DEF Holds
      <4>3. ASSUME NEW p \in Owners \ {At("pool"), b, At("tap_handler")}
            PROVE  HeldNow'[p] = HeldNow[p]
        <5>1. CASE p \in {At("nic"), At("leaked"), At("nettlp")}
          BY <2>2, <4>3, <5>1, NowHolds, ThenHolds DEF Holds
        <5>2. CASE \E r \in PortQueues : p = Up(r) \/ p = Down(r)
          BY <1>2, <3>2, <5>2, NowHolds, ThenHolds DEF Holds
        <5> QED
          BY <4>3, <5>1, <5>2, OwnersAre
      <4> QED
        BY <4>1, <4>2, <4>3 DEF Moves
    <3>5. Exact(HeldNow')
      BY <3>4, Transfer DEF MbufInv
    <3>6. MbufTypes' /\ RingsOnce'
      BY <1>2, <3>2 DEF MbufInv, MbufTypes, RingsOnce, QueuedOnce
    <3> QED
      BY <3>5, <3>6 DEF MbufInv
  <2> QED
    BY <2>3, <2>4 DEF MbufInv, MbufTypes
<1> QED
  BY <1>1, <1>2 DEF NettlpUdpSend, tap_vars

(* l2_repeater_tx_burst(): the burst goes to the device and to nobody. *)
LEMMA TxKeeps ==
  ASSUME MbufInv, NEW q \in PortQueues, NEW sent, TxBurst(q, sent)
  PROVE  MbufInv'
<1> DEFINE ring == ring_dn[q]
           l == Len(ring)
           n == IF l < MAX_PKT_BURST THEN l ELSE MAX_PKT_BURST
           burst == SubSeq(ring, 1, n)
           rest == SubSeq(ring, n + 1, l)
           M1 == ToSet(SubSeq(burst, 1, sent))
           M2 == ToSet(SubSeq(burst, sent + 1, Len(burst)))
<1>1. ring \in Seq(Mbufs) /\ IsInjective(ring) /\ ring_dn \in [PortQueues -> Seq(Mbufs)]
  BY DEF MbufInv, MbufTypes, RingsOnce
<1>2. MAX_PKT_BURST \in Nat
  BY VswitchAssumption
<1>3. n \in 0..l
  BY <1>1, <1>2
<1>4. burst = Burst(ring)
  BY DEF Burst
<1> HIDE DEF n
<1>5. /\ burst \in Seq(Mbufs) /\ rest \in Seq(Mbufs) /\ Len(burst) = n
      /\ IsInjective(burst) /\ IsInjective(rest)
      /\ ToSet(burst) \subseteq ToSet(ring) /\ ToSet(rest) = ToSet(ring) \ ToSet(burst)
  BY <1>1, <1>3, DownCut
<1>6. rest = Rest(ring)
  <2>1. Rest(ring) = SubSeq(ring, Len(Burst(ring)) + 1, Len(ring))
    BY DEF Rest
  <2> QED
    BY <1>4, <1>5, <2>1
<1>7. /\ sent \in 0..Len(burst) /\ ring_dn' = [ring_dn EXCEPT ![q] = rest]
      /\ nic' = nic \union M1 /\ leaked' = leaked \union M2
      /\ UNCHANGED <<ring_up, pool, nettlp, pkts_burst>>
  <2> HIDE DEF burst, rest
  <2> QED
    BY <1>4, <1>6 DEF TxBurst, tap_vars
<1> HIDE DEF burst, rest
<1>8. M1 \subseteq ToSet(burst) /\ M2 = ToSet(burst) \ M1
  BY <1>5, <1>7, DownCut
<1> HIDE DEF M1, M2
<1>9. ring_dn'[q] = rest /\ \A r \in PortQueues \ {q} : ring_dn'[r] = ring_dn[r]
  BY <1>1, <1>7
<1>10. ToSet(ring_dn'[q]) = ToSet(ring_dn[q]) \ (M1 \union M2) /\ M1 \cap M2 = {}
       /\ M1 \subseteq ToSet(ring_dn[q]) /\ M2 \subseteq ToSet(ring_dn[q])
  BY <1>5, <1>8, <1>9
<1>11. Worker' = Worker /\ Queued(pkts_burst)' = Queued(pkts_burst)
  BY <1>7 DEF Worker, Queued, ToSet
<1>12. Moves(HeldNow, HeldNow', Down(q), At("nic"), At("leaked"), M1, M2)
  <2>1. {Down(q), At("nic"), At("leaked")} \subseteq Owners /\ Down(q) # At("nic")
        /\ Down(q) # At("leaked") /\ At("nic") # At("leaked")
    BY OwnersAre, OwnersDiffer
  <2>2. /\ HeldNow[Down(q)] = ToSet(ring_dn[q]) /\ HeldNow'[Down(q)] = ToSet(ring_dn'[q])
        /\ HeldNow'[At("nic")] = HeldNow[At("nic")] \union M1
        /\ HeldNow'[At("leaked")] = HeldNow[At("leaked")] \union M2
    BY <1>7, NowHolds, ThenHolds DEF Holds
  <2>3. ASSUME NEW p \in Owners \ {Down(q), At("nic"), At("leaked")}
        PROVE  HeldNow'[p] = HeldNow[p]
    BY <1>7, <1>9, <1>11, <2>3, NowHolds, ThenHolds, OwnersAre DEF Holds
  <2> QED
    BY <1>10, <2>1, <2>2, <2>3 DEF Moves
<1>13. Exact(HeldNow')
  BY <1>12, Transfer DEF MbufInv
<1>14. M1 \subseteq Mbufs /\ M2 \subseteq Mbufs
  <2>1. ToSet(ring) \subseteq Mbufs
    BY <1>1 DEF ToSet
  <2> QED
    BY <1>10, <2>1
<1>15. MbufTypes'
  BY <1>1, <1>5, <1>7, <1>14 DEF MbufInv, MbufTypes
<1>16. RingsOnce'
  BY <1>5, <1>7, <1>9 DEF MbufInv, RingsOnce, QueuedOnce
<1> QED
  BY <1>13, <1>15, <1>16 DEF MbufInv

(* A device, the worker or the tap handler frees one mbuf. *)
LEMMA ToPool ==
  ASSUME MbufInv, NEW a \in {At("nic"), At("nettlp"), At("tap_handler")},
         NEW M, M \subseteq HeldNow[a],
         pool' = pool \union M,
         nic' = IF a = At("nic") THEN nic \ M ELSE nic,
         Worker' = IF a = At("nettlp") THEN Worker \ M ELSE Worker,
         Queued(pkts_burst)' = IF a = At("tap_handler") THEN Queued(pkts_burst) \ M
                               ELSE Queued(pkts_burst),
         UNCHANGED <<rings, leaked>>
  PROVE  Exact(HeldNow')
<1> DEFINE c == At("leaked")
<1>1. {a, At("pool"), c} \subseteq Owners /\ a # At("pool") /\ a # c /\ At("pool") # c
  BY OwnersAre, OwnersDiffer
<1>2. UNCHANGED <<ring_up, ring_dn, leaked>>
  BY DEF rings
<1>3. HeldNow'[a] = HeldNow[a] \ M
  BY NowHolds, ThenHolds, OwnersDiffer DEF Holds
<1>4. HeldNow'[At("pool")] = HeldNow[At("pool")] \union M /\ HeldNow'[c] = HeldNow[c] \union {}
  BY <1>2, NowHolds, ThenHolds DEF Holds
<1>5. ASSUME NEW p \in Owners \ {a, At("pool"), c} PROVE HeldNow'[p] = HeldNow[p]
  <2>1. CASE p \in {At("nic"), At("nettlp"), At("tap_handler")}
    BY <1>5, <2>1, NowHolds, ThenHolds DEF Holds
  <2>2. CASE \E r \in PortQueues : p = Up(r) \/ p = Down(r)
    BY <1>2, <2>2, NowHolds, ThenHolds DEF Holds
  <2> QED
    BY <1>5, <2>1, <2>2, OwnersAre
<1> HIDE DEF c
<1>6. Moves(HeldNow, HeldNow', a, At("pool"), c, M, {})
  BY <1>1, <1>3, <1>4, <1>5 DEF Moves
<1> QED
  BY <1>6, Transfer DEF MbufInv

(* The device gives back to the pool. *)
LEMMA NicKeeps ==
  ASSUME MbufInv, NEW m \in Mbufs, NicDone(m)
  PROVE  MbufInv'
<1>1. m \in nic /\ nic' = nic \ {m} /\ pool' = pool \union {m}
      /\ UNCHANGED <<rings, leaked, nettlp, pkts_burst>>
  BY DEF NicDone, tap_vars
<1>2. Worker' = Worker /\ Queued(pkts_burst)' = Queued(pkts_burst)
  BY <1>1 DEF Worker, Queued, ToSet
<1>3. Exact(HeldNow')
  <2>1. {m} \subseteq HeldNow[At("nic")]
    BY <1>1, NowHolds DEF Holds
  <2> QED
    BY <1>1, <1>2, <2>1, ToPool, OwnersDiffer
<1>4. MbufTypes' /\ RingsOnce'
  BY <1>1 DEF MbufInv, MbufTypes, RingsOnce, QueuedOnce, rings
<1> QED
  BY <1>3, <1>4 DEF MbufInv

(* The worker frees what it took. *)
LEMMA FreeKeeps ==
  ASSUME MbufInv, NettlpFree
  PROVE  MbufInv'
<1> DEFINE m == nettlp.m
<1>1. m # NULL /\ pool' = pool \union {m} /\ nettlp' = [nettlp EXCEPT !.m = NULL]
      /\ UNCHANGED <<rings, nic, leaked, pkts_burst>>
  BY DEF NettlpFree, tap_vars
<1>2. m \in Mbufs /\ nettlp \in [rx : PortQueues \union {NULL}, m : Mbufs \union {NULL}]
  BY <1>1 DEF MbufInv, MbufTypes
<1>3. /\ Worker = {m} /\ Worker' = Worker \ {m}
      /\ Queued(pkts_burst)' = Queued(pkts_burst)
  BY <1>1, <1>2 DEF Worker, Queued, ToSet
<1>4. MbufTypes' /\ RingsOnce'
  BY <1>1, <1>2 DEF MbufInv, MbufTypes, RingsOnce, QueuedOnce, rings
<1> HIDE DEF m
<1>5. Exact(HeldNow')
  <2>1. {m} \subseteq HeldNow[At("nettlp")]
    BY <1>3, NowHolds DEF Holds
  <2> QED
    BY <1>1, <1>3, <2>1, ToPool, OwnersDiffer
<1> QED
  BY <1>4, <1>5 DEF MbufInv

(* A turn without a packet changes the rx ids only. *)
LEMMA TurnKeeps ==
  ASSUME MbufInv, SwitchInv, NettlpTurn
  PROVE  MbufInv'
<1> DEFINE rx == IF RxQueueList = {} THEN NULL ELSE pub.queues[Max(RxQueueList)]
<1>1. nettlp' = [nettlp EXCEPT !.rx = rx] /\ UNCHANGED <<rings, pool, nic, leaked, pkts_burst>>
  BY DEF NettlpTurn, tap_vars
<1>2. rx \in PortQueues \union {NULL}
  <2> SUFFICES ASSUME RxQueueList # {} PROVE pub.queues[Max(RxQueueList)] \in PortQueues
    OBVIOUS
  <2>1. pub.queues \in Seq(PortQueues)
    BY DEF SwitchInv, IsQueueList
  <2>2. RxQueueList \subseteq 1..Len(pub.queues) /\ Len(pub.queues) \in Nat
    BY <2>1 DEF RxQueueList
  <2>3. Max(RxQueueList) \in RxQueueList
    BY <2>2, GreatestNumber
  <2>4. Max(RxQueueList) \in 1..Len(pub.queues)
    BY <2>2, <2>3
  <2> QED
    BY <2>1, <2>4
<1> HIDE DEF rx
<1>3. nettlp \in [rx : PortQueues \union {NULL}, m : Mbufs \union {NULL}]
  BY DEF MbufInv, MbufTypes
<1>4. nettlp'.m = nettlp.m
      /\ nettlp' \in [rx : PortQueues \union {NULL}, m : Mbufs \union {NULL}]
  BY <1>1, <1>2, <1>3
<1>5. HeldNow' = HeldNow
  BY <1>1, <1>4 DEF HeldNow, Worker, Shares, Queued, ToSet, rings
<1>6. MbufTypes' /\ RingsOnce'
  BY <1>1, <1>4 DEF MbufInv, MbufTypes, RingsOnce, QueuedOnce, rings
<1> QED
  BY <1>5, <1>6 DEF MbufInv

(* tap_handler_handle_packet_up() takes the first packet of its burst. *)
LEMMA QueuedTail ==
  ASSUME NEW r \in Seq(Copies), QueuedOnce(r), r # << >>
  PROVE  LET M == IF Head(r) = NULL THEN {} ELSE {Head(r).mbuf}
         IN  /\ Head(r) \in Copies /\ Tail(r) \in Seq(Copies) /\ QueuedOnce(Tail(r))
             /\ M \subseteq Queued(r) /\ Queued(Tail(r)) = Queued(r) \ M
<1> DEFINE a == SubSeq(r, 1, 1)
           b == SubSeq(r, 1 + 1, Len(r))
           M == IF Head(r) = NULL THEN {} ELSE {Head(r).mbuf}
<1>1. 1 \in 0..Len(r) /\ Len(r) \in Nat /\ Head(r) = r[1] /\ Head(r) \in Copies
  OBVIOUS
<1>2. Tail(r) = b
  BY <1>1
<1>3. /\ a \in Seq(Copies) /\ b \in Seq(Copies) /\ QueuedOnce(b)
      /\ Queued(a) \subseteq Queued(r) /\ Queued(b) = Queued(r) \ Queued(a)
  BY <1>1, QueuedCut
<1>4. Len(a) = 1 /\ a[1] = r[1]
  BY <1>1, Cut
<1> HIDE DEF a, b
<1>5. ASSUME NEW m PROVE m \in Queued(a) <=> m \in M
  <2>1. m \in Queued(a) <=> a[1] # NULL /\ a[1].mbuf = m
    <3>1. m \in Queued(a) <=> \E i \in 1..Len(a) : a[i] # NULL /\ a[i].mbuf = m
      BY <1>3, QueuedIs
    <3>2. 1..Len(a) = {1}
      BY <1>4
    <3> QED
      BY <3>1, <3>2
  <2> QED
    BY <1>1, <1>4, <2>1
<1> QED
  BY <1>1, <1>2, <1>3, <1>5

(* The tap handler gives the mbuf of a packet back to the pool. *)
LEMMA HandleKeeps ==
  ASSUME MbufInv, HandlePacketUp
  PROVE  MbufInv'
<1> DEFINE k == Head(pkts_burst)
           M == IF k = NULL THEN {} ELSE {k.mbuf}
<1>1. pkts_burst # << >> /\ pkts_burst' = Tail(pkts_burst) /\ pool' = pool \union M
      /\ UNCHANGED <<rings, nic, leaked, nettlp>>
  BY DEF HandlePacketUp
<1>2. pkts_burst \in Seq(Copies) /\ QueuedOnce(pkts_burst)
  BY DEF MbufInv, MbufTypes, RingsOnce
<1>3. /\ k \in Copies /\ pkts_burst' \in Seq(Copies) /\ QueuedOnce(pkts_burst')
      /\ M \subseteq Queued(pkts_burst) /\ Queued(pkts_burst') = Queued(pkts_burst) \ M
  BY <1>1, <1>2, QueuedTail
<1>4. M \subseteq Mbufs
  BY <1>3 DEF Copies, Packets
<1> HIDE DEF M
<1>5. Worker' = Worker /\ M \subseteq HeldNow[At("tap_handler")]
  BY <1>1, <1>3, NowHolds DEF Worker, Holds
<1>6. Exact(HeldNow')
  BY <1>1, <1>3, <1>5, ToPool, OwnersDiffer
<1>7. MbufTypes' /\ RingsOnce'
  BY <1>1, <1>3, <1>4 DEF MbufInv, MbufTypes, RingsOnce, rings
<1> QED
  BY <1>6, <1>7 DEF MbufInv

(* A burst for one port of the vswitch. *)
LEMMA DequeueKeeps ==
  ASSUME MbufInv, SwitchInv, DequeueUp
  PROVE  MbufInv'
<1> DEFINE port == vswitch[idx]
<1>1. pkts_burst = << >> /\ idx \in 1..Len(vswitch)
      /\ UNCHANGED <<ring_dn, pool, nic, leaked, nettlp>>
  BY DEF DequeueUp, SwitchInv
<1>2. Worker' = Worker
  BY <1>1 DEF Worker
<1>3. CASE port.type # "DPDK_LCORE"
  <2>1. UNCHANGED <<ring_up, pkts_burst>>
    BY <1>3 DEF DequeueUp
  <2>2. HeldNow' = HeldNow
    BY <1>1, <1>2, <2>1 DEF HeldNow, Shares, Queued, ToSet
  <2>3. MbufTypes' /\ RingsOnce'
    BY <1>1, <2>1 DEF MbufInv, MbufTypes, RingsOnce, QueuedOnce
  <2> QED
    BY <2>2, <2>3 DEF MbufInv
<1>4. CASE port.type = "DPDK_LCORE"
  <2> DEFINE q == port.queue
             ring == ring_up[q]
             l == Len(ring)
             n == IF l < MAX_PKT_BURST THEN l ELSE MAX_PKT_BURST
             burst == SubSeq(ring, 1, n)
             rest == SubSeq(ring, n + 1, l)
  <2>1. ring_up' = [ring_up EXCEPT ![q] = Rest(ring)] /\ pkts_burst' = Burst(ring)
    BY <1>4 DEF DequeueUp
  <2>2. q \in PortQueues
    BY <1>1, <1>4, PortHasQueue DEF SwitchInv
  <2> HIDE DEF q
  <2>3. ring \in Seq(Copies) /\ QueuedOnce(ring) /\ ring_up \in [PortQueues -> Seq(Copies)]
    BY <2>2 DEF MbufInv, MbufTypes, RingsOnce
  <2>4. n \in 0..l
    BY <2>3, VswitchAssumption
  <2>5. burst = Burst(ring)
    BY DEF Burst
  <2> HIDE DEF n
  <2>6. /\ burst \in Seq(Copies) /\ rest \in Seq(Copies) /\ Len(burst) = n
        /\ QueuedOnce(burst) /\ QueuedOnce(rest)
        /\ Queued(burst) \subseteq Queued(ring) /\ Queued(rest) = Queued(ring) \ Queued(burst)
    <3>1. Len(burst) = n
      BY <2>3, <2>4, Cut
    <3>2. /\ burst \in Seq(Copies) /\ rest \in Seq(Copies)
          /\ QueuedOnce(burst) /\ QueuedOnce(rest)
          /\ Queued(burst) \subseteq Queued(ring)
          /\ Queued(rest) = Queued(ring) \ Queued(burst)
      BY <2>3, <2>4, QueuedCut
    <3> QED
      BY <3>1, <3>2
  <2>7. rest = Rest(ring)
    <3>1. Rest(ring) = SubSeq(ring, Len(Burst(ring)) + 1, Len(ring))
      BY DEF Rest
    <3> QED
      BY <2>5, <2>6, <3>1
  <2> HIDE DEF burst, rest
  <2>8. pkts_burst' = burst /\ ring_up'[q] = rest
        /\ \A r \in PortQueues \ {q} : ring_up'[r] = ring_up[r]
    BY <2>1, <2>2, <2>3, <2>5, <2>7
  <2> DEFINE M == Queued(burst)
  <2>9. Queued(pkts_burst) = {} /\ Queued(pkts_burst)' = M
    <3>1. Queued(pkts_burst) = {}
      BY <1>1 DEF Queued, ToSet
    <3>2. Queued(pkts_burst)' = Queued(pkts_burst')
      BY DEF Queued, ToSet
    <3> QED
      BY <2>8, <3>1, <3>2
  <2>10. M \subseteq Queued(ring_up[q]) /\ Queued(ring_up'[q]) = Queued(ring_up[q]) \ M
    BY <2>6, <2>8
  <2> HIDE DEF M
  <2>11. Moves(HeldNow, HeldNow', Up(q), At("tap_handler"), At("leaked"), M, {})
    <3>1. {Up(q), At("tap_handler"), At("leaked")} \subseteq Owners /\ Up(q) # At("tap_handler")
          /\ Up(q) # At("leaked") /\ At("tap_handler") # At("leaked")
      BY <2>2, OwnersAre, OwnersDiffer
    <3>2. HeldNow[Up(q)] = Queued(ring_up[q]) /\ HeldNow'[Up(q)] = Queued(ring_up'[q])
      BY <2>2, NowHolds, ThenHolds DEF Holds
    <3>3. HeldNow'[At("tap_handler")] = HeldNow[At("tap_handler")] \union M
      BY <2>9, NowHolds, ThenHolds DEF Holds
    <3>4. HeldNow'[At("leaked")] = HeldNow[At("leaked")] \union {}
      BY <1>1, NowHolds, ThenHolds DEF Holds
    <3>5. ASSUME NEW p \in Owners \ {Up(q), At("tap_handler"), At("leaked")}
          PROVE  HeldNow'[p] = HeldNow[p]
      <4>1. CASE p \in {At("pool"), At("nic"), At("nettlp")}
        BY <1>1, <1>2, <4>1, NowHolds, ThenHolds DEF Holds
      <4>2. CASE \E r \in PortQueues : p = Up(r) \/ p = Down(r)
        BY <1>1, <2>8, <3>5, <4>2, NowHolds, ThenHolds DEF Holds
      <4> QED
        BY <3>5, <4>1, <4>2, OwnersAre
    <3> QED
      BY <2>10, <3>1, <3>2, <3>3, <3>4, <3>5 DEF Moves
  <2>12. Exact(HeldNow')
    BY <2>11, Transfer DEF MbufInv
  <2>13. ring_up' \in [PortQueues -> Seq(Copies)] /\ pkts_burst' \in Seq(Copies)
    BY <2>1, <2>3, <2>6, <2>7, <2>8
  <2>14. MbufTypes'
    BY <1>1, <2>13 DEF MbufInv, MbufTypes
  <2>15. RingsOnce'
    BY <1>1, <2>6, <2>8 DEF MbufInv, RingsOnce
  <2> QED
    BY <2>12, <2>14, <2>15 DEF MbufInv
<1> QED
  BY <1>3, <1>4

(* The packet read from a tap, in a new mbuf for one queue. *)
LEMMA FloodKeeps ==
  ASSUME MbufInv, SwitchInv, NEW m \in Mbufs, Flood(m)
  PROVE  MbufInv'
<1> DEFINE q == vswitch[idx].queue
<1>1. m \in pool /\ pool' = pool \ {m} /\ UNCHANGED <<ring_up, nic, nettlp, pkts_burst>>
      /\ vswitch[idx].type = "DPDK_LCORE" /\ idx \in 1..Len(vswitch)
  BY DEF Flood, SwitchInv
<1>2. IF Full(ring_dn[q])
      THEN leaked' = leaked \union {m} /\ UNCHANGED ring_dn
      ELSE ring_dn' = [ring_dn EXCEPT ![q] = Append(@, m)] /\ UNCHANGED leaked
  BY DEF Flood
<1>3. q \in PortQueues
  BY <1>1, PortHasQueue DEF SwitchInv
<1> HIDE DEF q
<1>4. Worker' = Worker /\ Queued(pkts_burst)' = Queued(pkts_burst)
  BY <1>1 DEF Worker, Queued, ToSet
<1>5. CASE Full(ring_dn[q])
  <2>1. leaked' = leaked \union {m} /\ UNCHANGED ring_dn
    BY <1>2, <1>5
  <2>2. Exact(HeldNow')
    <3> DEFINE M1 == {m}
               M2 == {}
    <3>1. M1 \subseteq pool /\ M2 \subseteq pool /\ M1 \cap M2 = {}
          /\ pool' = pool \ (M1 \union M2) /\ leaked' = leaked \union M1
          /\ Queued(ring_up'[q]) = Queued(ring_up[q]) \union M2
      BY <1>1, <2>1
    <3> HIDE DEF M1, M2
    <3> QED
      BY <1>1, <1>3, <1>4, <2>1, <3>1, FromPool, OwnersDiffer
  <2>3. MbufTypes' /\ RingsOnce'
    BY <1>1, <2>1 DEF MbufInv, MbufTypes, RingsOnce, QueuedOnce
  <2> QED
    BY <2>2, <2>3 DEF MbufInv
<1>6. CASE ~Full(ring_dn[q])
  <2> DEFINE ring == ring_dn[q]
             longer == Append(ring, m)
  <2>1. ring_dn' = [ring_dn EXCEPT ![q] = longer] /\ UNCHANGED leaked
    BY <1>2, <1>6
  <2>2. ring \in Seq(Mbufs) /\ IsInjective(ring) /\ ring_dn \in [PortQueues -> Seq(Mbufs)]
    BY <1>3 DEF MbufInv, MbufTypes, RingsOnce
  <2>3. m \notin ToSet(ring)
    BY <1>1, <1>3, FreeIsNotQueued
  <2>4. longer \in Seq(Mbufs) /\ IsInjective(longer) /\ ToSet(longer) = ToSet(ring) \union {m}
    BY <2>2, <2>3, DownAppend
  <2> HIDE DEF longer
  <2>5. ring_dn'[q] = longer /\ \A r \in PortQueues \ {q} : ring_dn'[r] = ring_dn[r]
    BY <1>3, <2>1, <2>2
  <2>6. Moves(HeldNow, HeldNow', At("pool"), Down(q), At("leaked"), {m}, {})
    <3>1. {At("pool"), Down(q), At("leaked")} \subseteq Owners /\ At("pool") # Down(q)
          /\ At("pool") # At("leaked") /\ Down(q) # At("leaked")
      BY <1>3, OwnersAre, OwnersDiffer
    <3>2. HeldNow[At("pool")] = pool /\ HeldNow'[At("pool")] = pool \ {m}
      BY <1>1, NowHolds, ThenHolds DEF Holds
    <3>3. HeldNow'[Down(q)] = HeldNow[Down(q)] \union {m}
      BY <1>3, <2>4, <2>5, NowHolds, ThenHolds DEF Holds
    <3>4. HeldNow'[At("leaked")] = HeldNow[At("leaked")] \union {}
      BY <2>1, NowHolds, ThenHolds DEF Holds
    <3>5. ASSUME NEW p \in Owners \ {At("pool"), Down(q), At("leaked")}
          PROVE  HeldNow'[p] = HeldNow[p]
      <4>1. CASE p \in {At("nic"), At("nettlp"), At("tap_handler")}
        BY <1>1, <1>4, <4>1, NowHolds, ThenHolds DEF Holds
      <4>2. CASE \E r \in PortQueues : p = Up(r) \/ p = Down(r)
        BY <1>1, <2>5, <3>5, <4>2, NowHolds, ThenHolds DEF Holds
      <4> QED
        BY <3>5, <4>1, <4>2, OwnersAre
    <3> QED
      BY <1>1, <3>1, <3>2, <3>3, <3>4, <3>5 DEF Moves
  <2>7. Exact(HeldNow')
    BY <2>6, Transfer DEF MbufInv
  <2>8. MbufTypes'
    BY <1>1, <2>1, <2>2, <2>4 DEF MbufInv, MbufTypes
  <2>9. RingsOnce'
    BY <1>1, <2>4, <2>5 DEF MbufInv, RingsOnce, QueuedOnce
  <2> QED
    BY <2>7, <2>8, <2>9 DEF MbufInv
<1> QED
  BY <1>5, <1>6

(* Steps that handle no mbuf. *)
LEMMA MbufFrame ==
  ASSUME MbufInv, UNCHANGED <<mbuf_vars, pkts_burst>>
  PROVE  MbufInv'
<1>1. UNCHANGED <<ring_up, ring_dn, pool, nic, leaked, nettlp, pkts_burst>>
  BY DEF mbuf_vars, rings
<1>2. HeldNow' = HeldNow
  BY <1>1 DEF HeldNow, Worker, Shares, Queued, ToSet
<1>3. MbufTypes' /\ RingsOnce'
  BY <1>1 DEF MbufInv, MbufTypes, RingsOnce, QueuedOnce
<1> QED
  BY <1>2, <1>3 DEF MbufInv

(* Every step keeps ownership exact. *)
LEMMA MbufStep ==
  ASSUME MbufInv, SwitchInv, [Next]_vars
  PROVE  MbufInv'
<1>1. CASE RepeaterAndNic
  BY <1>1, RxKeeps, TxKeeps, NicKeeps DEF RepeaterAndNic
<1>2. CASE NettlpThread
  BY <1>2, TurnKeeps, ReceiveKeeps, SendKeeps, FreeKeeps
  DEF NettlpThread, NettlpComplete, NettlpSendDma
<1>3. ASSUME DequeueUp \/ HandlePacketUp \/ \E m \in Mbufs : Flood(m)
      PROVE  MbufInv'
  BY <1>3, DequeueKeeps, HandleKeeps, FloodKeeps
<1>4. ASSUME \/ PublishZero \/ TapHandlerStart \/ UpDone \/ ReadTap \/ FloodSkip \/ FloodCrash
             \/ \E queues \in QueueLists : PublishRib(queues)
             \/ \E v \in StackValues \union {rib_ver} : ReadRib(v)
             \/ \E ready \in SUBSET Polled : Poll(ready)
             \/ \E stop \in BOOLEAN : LoopEnd(stop)
             \/ UNCHANGED vars
      PROVE  MbufInv'
  <2>1. UNCHANGED <<mbuf_vars, pkts_burst>>
    BY <1>4 DEF PublishZero, PublishRib, TapHandlerStart, ReadRib, UpDone, Poll, ReadTap,
                FloodSkip, FloodCrash, LoopEnd, tap_vars, vars
  <2> QED
    BY <2>1, MbufFrame
<1> QED
  BY <1>1, <1>2, <1>3, <1>4 DEF Next, TapHandler

(* Whichever copy, enqueue or allocation fails in the repeater, the nettlp *)
(* worker or the tap handler, in any interleaving of them and of changes   *)
(* of the rib, each mbuf of the pool has exactly one owner.                *)
THEOREM MbufsOwnedOnce == Spec => []MbufOnce
<1>1. SwitchInv /\ MbufInv /\ [Next]_vars => SwitchInv' /\ MbufInv'
  BY SwitchStep, MbufStep
<1> QED
  BY SwitchInit, InitMbufs, MbufInvIs, <1>1, PTL DEF Spec
-----------------------------------------------------------------------------
(* The fdb. *)
Entries == [l2addr : EtherAddrs, port : Ports \union {NPorts}]

(* The fdb has an address once, at the port it was seen last. *)
Tracks(table, seen) ==
  /\ table \in Seq(Entries) /\ Len(table) <= FDB_SIZE
  /\ \A i, j \in 1..Len(table) : table[i].l2addr = table[j].l2addr => i = j
  /\ \A i \in 1..Len(table) : table[i].port = seen[table[i].l2addr]

(* tap_handler_register_fdb() of one packet. *)
LEMMA RegisterKeeps ==
  ASSUME NEW table, NEW seen, Tracks(table, seen),
         NEW src \in EtherAddrs \union {ZeroAddr}, NEW port \in Ports \union {NPorts}
  PROVE  Tracks(register_fdb(table, src, port),
                [a \in EtherAddrs |-> IF a = src THEN port ELSE seen[a]])
<1> DEFINE n == Len(table)
           here == {j \in 1..n : table[j].l2addr = src}
           now == [a \in EtherAddrs |-> IF a = src THEN port ELSE seen[a]]
           entry == [l2addr |-> src, port |-> port]
<1>1. /\ table \in Seq(Entries) /\ n \in Nat /\ n <= FDB_SIZE /\ FDB_SIZE \in Nat
      /\ \A i \in 1..n : table[i] \in Entries /\ table[i].l2addr \in EtherAddrs
  <2>1. table \in Seq(Entries) /\ n \in Nat /\ n <= FDB_SIZE /\ FDB_SIZE \in Nat
    BY VswitchAssumption DEF Tracks
  <2>2. ASSUME NEW i \in 1..n PROVE table[i] \in Entries /\ table[i].l2addr \in EtherAddrs
    <3>1. table[i] \in Entries
      BY <2>1
    <3> QED
      BY <3>1 DEF Entries
  <2> QED
    BY <2>1, <2>2
<1>2. /\ \A i, j \in 1..n : table[i].l2addr = table[j].l2addr => i = j
      /\ \A i \in 1..n : table[i].port = seen[table[i].l2addr]
  BY DEF Tracks
<1>3. \A i \in 1..n : table[i].l2addr # src => table[i].port = now[table[i].l2addr]
  BY <1>1, <1>2
<1>4. CASE here # {}
  <2> DEFINE x == Min(here)
             new == [table EXCEPT ![x].port = port]
  <2>1. x \in here
    <3>1. here \subseteq Nat
      BY <1>1
    <3> HIDE DEF here
    <3> QED
      BY <1>4, <3>1, LeastNumber
  <2>2. x \in 1..n /\ table[x].l2addr = src /\ src \in EtherAddrs
    BY <1>1, <2>1
  <2>3. register_fdb(table, src, port) = new
    BY <1>4 DEF register_fdb
  <2> HIDE DEF x, here
  <2>4. new = [table EXCEPT ![x] = [table[x] EXCEPT !.port = port]]
    OBVIOUS
  <2>5. [table[x] EXCEPT !.port = port] = entry /\ entry \in Entries
    BY <1>1, <2>2 DEF Entries
  <2>6. new = [table EXCEPT ![x] = entry]
    BY <2>4, <2>5
  <2> HIDE DEF new
  <2>7. /\ new \in Seq(Entries) /\ Len(new) = n /\ new[x] = entry
        /\ \A i \in 1..n : i # x => new[i] = table[i]
    BY <1>1, <2>2, <2>5, <2>6
  <2>8. entry.l2addr = src /\ entry.port = port /\ now[src] = port
    BY <2>2
  <2> HIDE DEF entry, now
  <2>9. \A i \in 1..n : new[i].l2addr = table[i].l2addr
    BY <2>2, <2>7, <2>8
  <2>10. \A i \in 1..n : i # x => table[i].l2addr # src
    BY <1>2, <2>2
  <2>11. \A i \in 1..n : new[i].port = now[new[i].l2addr]
    BY <1>3, <2>7, <2>8, <2>9, <2>10
  <2>12. Tracks(new, now)
    BY <1>1, <1>2, <2>7, <2>9, <2>11 DEF Tracks
  <2> QED
    BY <2>3, <2>12 DEF now
<1>5. CASE here = {}
  <2>1. \A i \in 1..n : table[i].l2addr # src
    BY <1>5
  <2>2. CASE src # ZeroAddr /\ n < FDB_SIZE
    <3> DEFINE new == Append(table, entry)
               l == n + 1
    <3>1. register_fdb(table, src, port) = new
      BY <1>5, <2>2 DEF register_fdb
    <3>2. src \in EtherAddrs /\ entry \in Entries
      BY <2>2 DEF Entries
    <3>3. entry.l2addr = src /\ entry.port = port /\ now[src] = port
      BY <3>2
    <3> HIDE DEF entry, now
    <3>4. /\ new \in Seq(Entries) /\ Len(new) = l /\ new[l] = entry
          /\ \A i \in 1..n : new[i] = table[i]
      BY <1>1, <3>2
    <3>5. l \in Nat /\ l <= FDB_SIZE /\ \A i \in 1..l : i \in 1..n \/ i = l
      BY <1>1, <2>2
    <3> HIDE DEF new, l
    <3>6. \A i, j \in 1..l : new[i].l2addr = new[j].l2addr => i = j
      BY <1>2, <2>1, <3>3, <3>4, <3>5
    <3>7. \A i \in 1..l : new[i].port = now[new[i].l2addr]
      BY <1>3, <2>1, <3>3, <3>4, <3>5
    <3>8. Tracks(new, now)
      BY <3>4, <3>5, <3>6, <3>7 DEF Tracks
    <3> QED
      BY <3>1, <3>8 DEF now
  <2>3. CASE ~(src # ZeroAddr /\ n < FDB_SIZE)
    <3>1. register_fdb(table, src, port) = table
      BY <1>5, <2>3 DEF register_fdb
    <3> HIDE DEF now
    <3>2. Tracks(table, now)
      BY <1>1, <1>2, <1>3, <2>1 DEF Tracks
    <3> QED
      BY <3>1, <3>2 DEF now
  <2> QED
    BY <2>2, <2>3
<1> QED
  BY <1>4, <1>5

(* A table without entries tracks whatever was seen. *)
LEMMA EmptyTracks ==
  ASSUME NEW seen
  PROVE  Tracks(<< >>, seen)
BY VswitchAssumption DEF Tracks

(* Every step keeps the fdb so. *)
LEMMA FdbStep ==
  ASSUME MbufInv, Tracks(fdb, last_port), [Next]_vars
  PROVE  Tracks(fdb', last_port')
<1>1. CASE TapHandlerStart
  BY <1>1, EmptyTracks DEF TapHandlerStart
<1>2. CASE HandlePacketUp
  <2> DEFINE k == Head(pkts_burst)
  <2>1. k \in Copies
    BY <1>2 DEF HandlePacketUp, MbufInv, MbufTypes
  <2>2. CASE k = NULL
    BY <1>2, <2>2 DEF HandlePacketUp
  <2>3. CASE k # NULL
    <3>1. k.src \in EtherAddrs \union {ZeroAddr} /\ k.port \in Ports \union {NPorts}
      BY <2>1, <2>3 DEF Copies, Packets
    <3>2. /\ fdb' = register_fdb(fdb, k.src, k.port)
          /\ last_port' = [a \in EtherAddrs |-> IF a = k.src THEN k.port ELSE last_port[a]]
      BY <1>2, <2>3 DEF HandlePacketUp
    <3> QED
      BY <3>1, <3>2, RegisterKeeps
  <2> QED
    BY <2>2, <2>3
<1>3. ASSUME \/ PublishZero \/ DequeueUp \/ UpDone \/ ReadTap \/ FloodSkip \/ FloodCrash
             \/ \E queues \in QueueLists : PublishRib(queues)
             \/ \E v \in StackValues \union {rib_ver} : ReadRib(v)
             \/ \E ready \in SUBSET Polled : Poll(ready)
             \/ \E m \in Mbufs : Flood(m)
             \/ \E stop \in BOOLEAN : LoopEnd(stop)
             \/ RepeaterAndNic \/ NettlpThread
             \/ UNCHANGED vars
      PROVE  Tracks(fdb', last_port')
  <2>1. CASE RepeaterAndNic
    BY <2>1 DEF RepeaterAndNic, RxPacket, TxBurst, NicDone, tap_vars
  <2>2. CASE NettlpThread
    BY <2>2 DEF NettlpThread, NettlpTurn, NettlpReceive, NettlpComplete, NettlpSendDma,
                NettlpUdpSend, NettlpFree, tap_vars
  <2>3. CASE ~RepeaterAndNic /\ ~NettlpThread
    <3>1. UNCHANGED <<fdb, last_port>>
      BY <1>3, <2>3 DEF PublishZero, PublishRib, ReadRib, DequeueUp, UpDone, Poll, ReadTap,
                        Flood, FloodSkip, FloodCrash, LoopEnd, tap_vars, vars
    <3> QED
      BY <3>1
  <2> QED
    BY <2>1, <2>2, <2>3
<1> QED
  BY <1>1, <1>2, <1>3 DEF Next, TapHandler

(* For every fdb size and every order of packets from the rings, the fdb    *)
(* has one entry for an address, which is the port of the last packet from  *)
(* it that tap_handler_register_fdb() has seen.                             *)
THEOREM FdbKeepsTrack == Spec => []FdbTracks
<1> DEFINE T == Tracks(fdb, last_port)
<1>1. Init => T
  BY EmptyTracks DEF Init
<1>2. MbufInv /\ T /\ [Next]_vars => T'
  BY FdbStep
<1>3. T => FdbTracks
  BY DEF Tracks, FdbTracks
<1>4. SwitchInv /\ MbufInv /\ [Next]_vars => SwitchInv' /\ MbufInv'
  BY SwitchStep, MbufStep
<1> HIDE DEF T
<1> QED
  BY SwitchInit, InitMbufs, <1>1, <1>2, <1>3, <1>4, PTL DEF Spec
=============================================================================
