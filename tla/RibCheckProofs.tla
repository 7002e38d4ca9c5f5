--------------------------- MODULE RibCheckProofs ---------------------------
(***************************************************************************)
(* The tables of the shell and of the rib under any sequence of commands   *)
(* and messages, for every number of lcores, ports, queues and edits.      *)
(* rib_check() is taken loop by loop: what collecting, sorting and counting*)
(* the queues leaves behind.                                               *)
(***************************************************************************)
EXTENDS RibCheck, FiniteSetTheorems, NaturalsInduction, TLAPS

(* A list that names no pair twice.                                        *)
Once(s) == \A i, j \in 1..Len(s) : s[i] = s[j] => i = j

(* No two lcores have a pair.                                              *)
Apart(qc) == \A l, m \in Lcores : l # m => Elems(qc[l]) \cap Elems(qc[m]) = {}

(* What the command keeps: TableConsistent with the type it needs.         *)
GoodTable(qc) ==
  /\ qc \in Qconf
  /\ Apart(qc)
  /\ \A l \in Lcores : Once(qc[l]) /\ Len(qc[l]) <= MAX_RX_QUEUE_PER_LCORE

(* The memmove() takes the pair out, and nothing else.                     *)
LEMMA WithoutFacts ==
  ASSUME NEW s \in Seq(PortQueue), Once(s), NEW pq
  PROVE  LET t == Without(s, pq)
         IN  /\ t \in Seq(PortQueue) /\ Len(t) <= Len(s) /\ Once(t)
             /\ Elems(t) \subseteq Elems(s) \ {pq}
<1>1. CASE pq \notin Elems(s)
  BY <1>1 DEF Without
<1>2. CASE pq \in Elems(s)
  <2> DEFINE j == CHOOSE k \in 1..Len(s) : s[k] = pq
             t == [i \in 1..Len(s) - 1 |-> IF i < j THEN s[i] ELSE s[i + 1]]
  <2>1. j \in 1..Len(s) /\ s[j] = pq
    BY <1>2 DEF Elems
  <2>2. Without(s, pq) = t
    BY <1>2 DEF Without
  <2> HIDE DEF j
  <2>3. Len(s) \in Nat /\ Len(s) - 1 \in Nat
    BY <2>1
  <2>4. \A i \in 1..Len(s) - 1 : t[i] \in PortQueue
    BY <2>1
  <2>5. t \in Seq(PortQueue) /\ Len(t) = Len(s) - 1
    BY <2>3, <2>4
  <2>6. \A i \in 1..Len(s) - 1 : \E k \in 1..Len(s) :
           k # j /\ t[i] = s[k] /\ k = IF i < j THEN i ELSE i + 1
    BY <2>1, <2>3
  <2> HIDE DEF t
  <2>7. Once(t)
    <3>1. SUFFICES ASSUME NEW a \in 1..Len(t), NEW b \in 1..Len(t), t[a] = t[b]
                   PROVE  a = b
      BY DEF Once
    <3>2. a \in 1..Len(s) - 1 /\ b \in 1..Len(s) - 1
      BY <2>5
    <3>3. PICK k \in 1..Len(s) : t[a] = s[k] /\ k = IF a < j THEN a ELSE a + 1
      BY <2>6, <3>2
    <3>4. PICK m \in 1..Len(s) : t[b] = s[m] /\ m = IF b < j THEN b ELSE b + 1
      BY <2>6, <3>2
    <3>5. k = m
      BY <3>1, <3>3, <3>4 DEF Once
    <3> QED
      BY <2>1, <2>3, <3>2, <3>3, <3>4, <3>5
  <2>8. ASSUME NEW e \in Elems(t)
        PROVE  e \in Elems(s) \ {pq}
    <3>1. PICK a \in 1..Len(t) : e = t[a]
      BY DEF Elems
    <3>2. PICK k \in 1..Len(s) : k # j /\ e = s[k]
      BY <2>5, <2>6, <3>1
    <3>3. e # pq
      BY <2>1, <3>2 DEF Once
    <3> QED
      BY <3>2, <3>3 DEF Elems
  <2>9. Len(t) <= Len(s) /\ Elems(t) \subseteq Elems(s) \ {pq}
    BY <2>3, <2>5, <2>8
  <2> QED
    BY <2>2, <2>5, <2>7, <2>9
<1> QED
  BY <1>1, <1>2

(* Appending a pair that is not there.                                     *)
LEMMA AppendFacts ==
  ASSUME NEW s \in Seq(PortQueue), Once(s), NEW pq \in PortQueue, pq \notin Elems(s)
  PROVE  LET t == Append(s, pq)
         IN  /\ t \in Seq(PortQueue) /\ Len(t) = Len(s) + 1 /\ Once(t)
             /\ Elems(t) \subseteq Elems(s) \cup {pq}
<1> DEFINE t == Append(s, pq)
<1>1. /\ t \in Seq(PortQueue) /\ Len(s) \in Nat /\ Len(t) = Len(s) + 1
      /\ \A i \in 1..Len(s) : t[i] = s[i]
      /\ t[Len(s) + 1] = pq
  OBVIOUS
<1>2. \A i \in 1..Len(s) : s[i] # pq
  BY DEF Elems
<1> HIDE DEF t
<1>3. Once(t)
  BY <1>1, <1>2 DEF Once
<1>4. Elems(t) \subseteq Elems(s) \cup {pq}
  <2>1. SUFFICES ASSUME NEW i \in 1..Len(t) PROVE t[i] \in Elems(s) \cup {pq}
    BY DEF Elems
  <2>2. i \in 1..Len(s) \/ i = Len(s) + 1
    BY <1>1
  <2> QED
    BY <1>1, <2>2 DEF Elems
<1> QED
  BY <1>1, <1>3, <1>4 DEF t

(* "set thread N port P queue Q" keeps a good table good.                  *)
LEMMA SetThreadKeeps ==
  ASSUME NEW qc, GoodTable(qc), NEW lcore \in Lcores, NEW pq \in PortQueue
  PROVE  GoodTable(set_thread_lcore_port_queue(qc, lcore, pq))
<1> DEFINE new == set_thread_lcore_port_queue(qc, lcore, pq)
<1>1. new = [l \in Lcores |-> new[l]]
  BY DEF set_thread_lcore_port_queue
<1>2. \A l \in Lcores : qc[l] \in Seq(PortQueue) /\ Once(qc[l])
                        /\ Len(qc[l]) <= MAX_RX_QUEUE_PER_LCORE
  BY DEF GoodTable, Qconf
<1>3. \A l \in Lcores : l # lcore => new[l] = Without(qc[l], pq)
  BY DEF set_thread_lcore_port_queue
<1>4. new[lcore] = IF pq \in Elems(qc[lcore]) \/ Len(qc[lcore]) >= MAX_RX_QUEUE_PER_LCORE
                   THEN qc[lcore] ELSE Append(qc[lcore], pq)
  BY DEF set_thread_lcore_port_queue
<1> HIDE DEF new
<1>5. ASSUME NEW l \in Lcores, l # lcore
      PROVE  /\ new[l] \in Seq(PortQueue) /\ Once(new[l])
             /\ Len(new[l]) <= MAX_RX_QUEUE_PER_LCORE
             /\ Elems(new[l]) \subseteq Elems(qc[l]) \ {pq}
  <2>1. /\ new[l] \in Seq(PortQueue) /\ Len(new[l]) <= Len(qc[l]) /\ Once(new[l])
        /\ Elems(new[l]) \subseteq Elems(qc[l]) \ {pq}
    BY <1>2, <1>3, <1>5, WithoutFacts
  <2>2. Len(new[l]) \in Nat /\ Len(qc[l]) \in Nat /\ MAX_RX_QUEUE_PER_LCORE \in Nat
    BY <1>2, <2>1, QueueConfAssumption
  <2> QED
    BY <1>2, <2>1, <2>2
<1>6. /\ new[lcore] \in Seq(PortQueue) /\ Once(new[lcore])
      /\ Len(new[lcore]) <= MAX_RX_QUEUE_PER_LCORE
      /\ Elems(new[lcore]) \subseteq Elems(qc[lcore]) \cup {pq}
  <2>1. CASE pq \in Elems(qc[lcore]) \/ Len(qc[lcore]) >= MAX_RX_QUEUE_PER_LCORE
    BY <1>2, <1>4, <2>1
  <2>2. CASE pq \notin Elems(qc[lcore]) /\ ~(Len(qc[lcore]) >= MAX_RX_QUEUE_PER_LCORE)
    <3>1. /\ new[lcore] \in Seq(PortQueue) /\ Len(new[lcore]) = Len(qc[lcore]) + 1
          /\ Once(new[lcore]) /\ Elems(new[lcore]) \subseteq Elems(qc[lcore]) \cup {pq}
      BY <1>2, <1>4, <2>2, AppendFacts
    <3>2. Len(qc[lcore]) \in Nat /\ MAX_RX_QUEUE_PER_LCORE \in Nat
      BY <1>2, QueueConfAssumption
    <3> QED
      BY <2>2, <3>1, <3>2
  <2> QED
    BY <2>1, <2>2
<1>7. Apart(new)
  <2>1. SUFFICES ASSUME NEW l \in Lcores, NEW m \in Lcores, l # m
                 PROVE  Elems(new[l]) \cap Elems(new[m]) = {}
    BY DEF Apart
  <2>2. Elems(qc[l]) \cap Elems(qc[m]) = {}
    BY <2>1 DEF GoodTable, Apart
  <2>3. CASE l = lcore
    BY <1>5, <1>6, <2>1, <2>2, <2>3
  <2>4. CASE m = lcore
    BY <1>5, <1>6, <2>1, <2>2, <2>4
  <2>5. CASE l # lcore /\ m # lcore
    BY <1>5, <2>2, <2>5
  <2> QED
    BY <2>3, <2>4, <2>5
<1>8. \A l \in Lcores : new[l] \in Seq(PortQueue) /\ Once(new[l])
                        /\ Len(new[l]) <= MAX_RX_QUEUE_PER_LCORE
  BY <1>5, <1>6
<1>9. new \in Qconf
  BY <1>1, <1>8 DEF Qconf
<1> QED
  BY <1>7, <1>8, <1>9 DEF GoodTable, new

(* The shell's table never gives a queue to two lcores or twice to one and *)
(* never overfills an lcore, for any number of commands and of lcores.     *)
THEOREM TableStaysConsistent == Spec => []TableConsistent
<1>1. Init => GoodTable(thread_qconf)
  <2>1. SUFFICES ASSUME Init PROVE GoodTable(thread_qconf)
    OBVIOUS
  <2>2. \A l \in Lcores : thread_qconf[l] = << >>
    BY <2>1 DEF Init, NoQueues
  <2>3. thread_qconf \in Qconf
    BY <2>1 DEF Init, NoQueues, Qconf
  <2>4. \A l \in Lcores : Once(thread_qconf[l]) /\ Elems(thread_qconf[l]) = {}
    BY <2>2 DEF Once, Elems
  <2>5. \A l \in Lcores : Len(thread_qconf[l]) <= MAX_RX_QUEUE_PER_LCORE
    BY <2>2, QueueConfAssumption
  <2> QED
    BY <2>3, <2>4, <2>5 DEF GoodTable, Apart
<1>2. GoodTable(thread_qconf) /\ [Next]_vars => GoodTable(thread_qconf')
  <2>1. SUFFICES ASSUME GoodTable(thread_qconf), [Next]_vars
                 PROVE  GoodTable(thread_qconf')
    OBVIOUS
  <2>2. ASSUME NEW l \in Lcores, NEW pq \in PortQueue, SetThread(l, pq)
        PROVE  GoodTable(thread_qconf')
    BY <2>1, <2>2, SetThreadKeeps DEF SetThread
  <2>3. CASE Process \/ UNCHANGED vars
    BY <2>1, <2>3 DEF Process, vars
  <2> QED
    BY <2>1, <2>2, <2>3 DEF Next
<1>3. GoodTable(thread_qconf) => TableConsistent
  <2>1. SUFFICES ASSUME GoodTable(thread_qconf) PROVE TableConsistent
    OBVIOUS
  <2>2. ASSUME NEW l \in Lcores, NEW m \in Lcores, NEW i \in 1..Len(thread_qconf[l]),
               NEW j \in 1..Len(thread_qconf[m]), thread_qconf[l][i] = thread_qconf[m][j]
        PROVE  l = m /\ i = j
    <3>1. l = m
      BY <2>1, <2>2 DEF GoodTable, Apart, Elems
    <3> QED
      BY <2>1, <2>2, <3>1 DEF GoodTable, Once
  <2> QED
    BY <2>1, <2>2 DEF TableConsistent, GoodTable
<1> DEFINE Good == GoodTable(thread_qconf)
<1>4. Init => Good
  BY <1>1
<1>5. Good /\ [Next]_vars => Good'
  BY <1>2 DEF GoodTable, Qconf, Apart, Once, Elems
<1>6. Good => TableConsistent
  BY <1>3
<1> HIDE DEF Good
<1> QED
  BY <1>4, <1>5, <1>6, PTL DEF Spec

(* The number of tx queues grows with the lcores that have a queue.        *)
LEMMA NtxqGrows ==
  ASSUME NEW a, NEW b, BusyLcores(a) \subseteq BusyLcores(b)
  PROVE  Ntxq(a) <= Ntxq(b)
<1> DEFINE S(qc) == {m \in ActiveLcores :
                       m = 0 \/ \E l \in ActiveLcores : m <= l /\ qc[l] # << >>}
<1>1. S(a) \subseteq S(b)
  BY DEF BusyLcores
<1>2. IsFiniteSet(ActiveLcores)
  BY QueueConfAssumption, FS_Interval DEF ActiveLcores
<1>3. IsFiniteSet(S(b))
  BY <1>2, FS_Subset
<1> HIDE DEF S
<1>4. Cardinality(S(a)) <= Cardinality(S(b))
  BY <1>1, <1>3, FS_Subset
<1> QED
  BY <1>4 DEF Ntxq, S

(* An lcore with a queue in the rib keeps having one and no port loses a   *)
(* tx queue, whatever the QCONF messages say and whatever rib_check()      *)
(* accepts: the merge copies no empty list.                                *)
THEOREM BusyLcoresStay == Spec => BusyLcoresGrow
<1>1. [Next]_vars =>
        [/\ BusyLcores(rib_qconf) \subseteq BusyLcores(rib_qconf')
         /\ Ntxq(rib_qconf) <= Ntxq(rib_qconf')]_rib_qconf
  <2>1. SUFFICES ASSUME [Next]_vars, rib_qconf' # rib_qconf
                 PROVE  /\ BusyLcores(rib_qconf) \subseteq BusyLcores(rib_qconf')
                        /\ Ntxq(rib_qconf) <= Ntxq(rib_qconf')
    OBVIOUS
  <2>2. rib_qconf' = MergeQconf(rib_qconf, thread_qconf)
    BY <2>1 DEF Next, SetThread, Process, Candidate, vars
  <2>3. ActiveLcores \subseteq Lcores
    BY QueueConfAssumption DEF ActiveLcores, Lcores
  <2>4. BusyLcores(rib_qconf) \subseteq BusyLcores(rib_qconf')
    BY <2>2, <2>3 DEF BusyLcores, MergeQconf
  <2> QED
    BY <2>4, NtxqGrows
<1> QED
  BY <1>1, PTL DEF Spec, BusyLcoresGrow

-----------------------------------------------------------------------------
(* A set of numbers has a least one.                                       *)
LEMMA Least ==
  ASSUME NEW S, S \subseteq Nat, S # {}
  PROVE  \E x \in S : \A y \in S : x <= y
<1>1. PICK x \in S : \A y \in S : ~ (<<y, x>> \in OpToRel(<, Nat))
  BY NatLessThanWellFounded, WFMin
<1>2. ASSUME NEW y \in S PROVE x <= y
  <2>1. ~ (y < x)
    BY <1>1, Zenon DEF OpToRel
  <2> QED
    BY <2>1
<1> QED
  BY <1>2

(* Induction up to n: a set that has zero, and k + 1 whenever it has k < n,*)
(* has every number up to n.                                               *)
LEMMA UpTo ==
  ASSUME NEW n \in Nat, NEW P, 0 \in P, \A k \in 0..n - 1 : k \in P => k + 1 \in P
  PROVE  \A k \in 0..n : k \in P
<1> DEFINE T == (0..n) \ P
<1> SUFFICES ASSUME T # {} PROVE FALSE
  OBVIOUS
<1>1. PICK x \in T : \A y \in T : x <= y
  <2>1. T \subseteq Nat
    OBVIOUS
  <2> HIDE DEF T
  <2> QED
    BY <2>1, Least
<1>2. x # 0 /\ x - 1 \in 0..n - 1
  BY <1>1
<1>3. x - 1 \in P
  BY <1>1, <1>2
<1>4. (x - 1) + 1 \in P
  BY <1>2, <1>3
<1> QED
  BY <1>1, <1>4

(* A recursion on a number up to n has a solution.                         *)
Solves(f, n, base, step) ==
  f[0] = base /\ \A k \in 1..n : f[k] = step[k][f[k - 1]]

(* A function defined by recursion on a number exists.                     *)
LEMMA Recursion ==
  ASSUME NEW n \in Nat, NEW V, NEW base \in V, NEW step \in [1..n -> [V -> V]]
  PROVE  \E f \in [0..n -> V] : Solves(f, n, base, step)
<1> DEFINE P == {m \in Nat : \E f \in [0..m -> V] : Solves(f, m, base, step)}
<1>1. 0 \in P
  <2>1. [k \in 0..0 |-> base] \in [0..0 -> V] /\ Solves([k \in 0..0 |-> base], 0, base, step)
    BY DEF Solves
  <2> QED
    BY <2>1
<1>2. ASSUME NEW m \in 0..n - 1, m \in P PROVE m + 1 \in P
  <2>1. PICK f \in [0..m -> V] : Solves(f, m, base, step)
    BY <1>2
  <2> DEFINE g == [k \in 0..m + 1 |-> IF k = m + 1 THEN step[m + 1][f[m]] ELSE f[k]]
  <2>2. m + 1 \in 1..n /\ f[m] \in V
    OBVIOUS
  <2>3. step[m + 1][f[m]] \in V
    BY <2>2
  <2>4. g \in [0..m + 1 -> V]
    BY <2>3
  <2>5. g[0] = base
    BY <2>1 DEF Solves
  <2>6. ASSUME NEW k \in 1..m + 1 PROVE g[k] = step[k][g[k - 1]]
    <3>1. k - 1 \in 0..m /\ k - 1 # m + 1 /\ g[k - 1] = f[k - 1]
      OBVIOUS
    <3>2. CASE k = m + 1
      BY <3>1, <3>2
    <3>3. CASE k # m + 1
      <4>1. k \in 1..m /\ g[k] = f[k]
        BY <3>3
      <4> QED
        BY <2>1, <3>1, <4>1 DEF Solves
    <3> QED
      BY <3>2, <3>3
  <2> HIDE DEF g
  <2>7. Solves(g, m + 1, base, step)
    BY <2>5, <2>6 DEF Solves
  <2> QED
    BY <2>4, <2>7
<1>3. \A m \in 0..n : m \in P
  <2> HIDE DEF P
  <2> QED
    BY <1>1, <1>2, UpTo
<1>4. n \in P
  BY <1>3
<1> QED
  BY <1>4

-----------------------------------------------------------------------------
(* What the collecting loop holds: lists of queues and an lcore.           *)
Collection == [port_qconf : Seq(PortQueue), max_lcore : Nat]

(* One lcore is added to a collection.                                     *)
Collect(acc, s, l) ==
  [port_qconf |-> acc.port_qconf \o s,
   max_lcore  |-> IF s # << >> /\ acc.max_lcore < l THEN l ELSE acc.max_lcore]

(* The collecting loop, lcore by lcore.                                    *)
LEMMA CollectedIs ==
  ASSUME NEW qc \in Qconf
  PROVE  /\ Collected(qc) \in [0..LcoreCount -> Collection]
         /\ Collected(qc)[0] = [port_qconf |-> << >>, max_lcore |-> 0]
         /\ \A k \in 1..LcoreCount :
              Collected(qc)[k] = Collect(Collected(qc)[k - 1], qc[k - 1], k - 1)
<1> DEFINE base == [port_qconf |-> << >>, max_lcore |-> 0]
           step == [k \in 1..LcoreCount |->
                      [v \in Collection |-> Collect(v, qc[k - 1], k - 1)]]
           Rec(f) == f = [k \in 0..LcoreCount |->
                            IF k = 0 THEN base
                            ELSE [port_qconf |-> f[k - 1].port_qconf \o qc[k - 1],
                                  max_lcore |-> IF qc[k - 1] # << >> /\ f[k - 1].max_lcore < k - 1
                                                THEN k - 1 ELSE f[k - 1].max_lcore]]
<1>1. base \in Collection /\ LcoreCount \in Nat
  BY QueueConfAssumption DEF Collection
<1>2. \A k \in 1..LcoreCount : k - 1 \in Nat /\ qc[k - 1] \in Seq(PortQueue)
  BY QueueConfAssumption DEF Qconf, Lcores
<1>3. ASSUME NEW v \in Collection, NEW s \in Seq(PortQueue), NEW l \in Nat
      PROVE  Collect(v, s, l) \in Collection
  <2>1. v.port_qconf \in Seq(PortQueue) /\ v.max_lcore \in Nat
    BY DEF Collection
  <2>2. v.port_qconf \o s \in Seq(PortQueue)
    BY <2>1
  <2> QED
    BY <2>1, <2>2 DEF Collect, Collection
<1>4. step \in [1..LcoreCount -> [Collection -> Collection]]
  BY <1>2, <1>3
<1>5. \A k \in 1..LcoreCount : \A v \in Collection : step[k][v] = Collect(v, qc[k - 1], k - 1)
  OBVIOUS
<1>6. Collected(qc) = CHOOSE f : Rec(f)
  BY DEF Collected
<1>7. PICK f \in [0..LcoreCount -> Collection] : Solves(f, LcoreCount, base, step)
  <2> HIDE DEF step, base
  <2> QED
    BY <1>1, <1>4, Recursion
<1> HIDE DEF step
<1>8. \A k \in 1..LcoreCount : f[k] = Collect(f[k - 1], qc[k - 1], k - 1)
  <2>1. SUFFICES ASSUME NEW k \in 1..LcoreCount
                 PROVE  f[k] = Collect(f[k - 1], qc[k - 1], k - 1)
    OBVIOUS
  <2>2. f[k - 1] \in Collection
    BY <1>1
  <2> QED
    BY <1>5, <1>7, <2>2 DEF Solves
<1>9. Rec(f)
  <2>1. f = [k \in 0..LcoreCount |-> f[k]]
    OBVIOUS
  <2>2. \A k \in 0..LcoreCount :
          f[k] = IF k = 0 THEN base ELSE Collect(f[k - 1], qc[k - 1], k - 1)
    BY <1>1, <1>7, <1>8 DEF Solves
  <2> HIDE DEF base
  <2> QED
    BY <2>1, <2>2 DEF Collect
<1>10. Rec(Collected(qc))
  <2> HIDE DEF Rec
  <2> QED
    BY <1>6, <1>9
<1> DEFINE g == Collected(qc)
<1> HIDE DEF g
<1>11. /\ g = [k \in 0..LcoreCount |-> g[k]]
       /\ g[0] = base
       /\ \A k \in 1..LcoreCount : g[k] = Collect(g[k - 1], qc[k - 1], k - 1)
  <2>1. Rec(g)
    BY <1>10 DEF g
  <2> HIDE DEF base
  <2>2. \A k \in 0..LcoreCount :
          g[k] = IF k = 0 THEN base ELSE Collect(g[k - 1], qc[k - 1], k - 1)
    BY <2>1 DEF Collect
  <2>3. g = [k \in 0..LcoreCount |-> g[k]]
    BY <2>1
  <2>4. g[0] = base
    BY <1>1, <2>2
  <2>5. \A k \in 1..LcoreCount : k \in 0..LcoreCount /\ k # 0
    BY <1>1
  <2> QED
    BY <2>2, <2>3, <2>4, <2>5, Zenon
<1>12. \A k \in 0..LcoreCount : g[k] \in Collection
  <2> DEFINE P == {k \in 0..LcoreCount : g[k] \in Collection}
  <2>1. 0 \in P
    BY <1>1, <1>11
  <2>2. ASSUME NEW k \in 0..LcoreCount - 1, k \in P PROVE k + 1 \in P
    <3>1. k + 1 \in 1..LcoreCount /\ (k + 1) - 1 = k
      BY <1>1
    <3>2. g[k + 1] = Collect(g[k], qc[k], k)
      BY <1>11, <3>1
    <3>3. qc[k] \in Seq(PortQueue) /\ k \in Nat
      BY <1>2, <3>1
    <3>4. g[k + 1] \in Collection
      BY <1>3, <2>2, <3>2, <3>3
    <3> QED
      BY <3>1, <3>4
  <2>3. \A k \in 0..LcoreCount : k \in P
    <3> HIDE DEF P
    <3> QED
      BY <1>1, <2>1, <2>2, UpTo
  <2> QED
    BY <2>3
<1>13. g \in [0..LcoreCount -> Collection]
  BY <1>11, <1>12
<1> QED
  BY <1>11, <1>13 DEF g

(* Two lists one behind the other: what they name, and whether twice.      *)
LEMMA ConcatFacts ==
  ASSUME NEW s \in Seq(PortQueue), NEW t \in Seq(PortQueue)
  PROVE  /\ Elems(s \o t) = Elems(s) \cup Elems(t)
         /\ Once(s \o t) <=> Once(s) /\ Once(t) /\ Elems(s) \cap Elems(t) = {}
<1> DEFINE u == s \o t
<1>1. /\ Len(s) \in Nat /\ Len(t) \in Nat /\ Len(u) = Len(s) + Len(t)
      /\ \A i \in 1..Len(s) : u[i] = s[i]
      /\ \A i \in 1..Len(t) : u[Len(s) + i] = t[i]
  OBVIOUS
<1> HIDE DEF u
<1>2. \A i \in 1..Len(u) : i \in 1..Len(s) \/ i - Len(s) \in 1..Len(t)
  BY <1>1
<1>3. \A i \in 1..Len(u) : i - Len(s) \in 1..Len(t) => u[i] = t[i - Len(s)]
  <2>1. SUFFICES ASSUME NEW i \in 1..Len(u), i - Len(s) \in 1..Len(t)
                 PROVE  u[i] = t[i - Len(s)]
    OBVIOUS
  <2>2. Len(s) + (i - Len(s)) = i
    BY <1>1
  <2>3. u[Len(s) + (i - Len(s))] = t[i - Len(s)]
    BY <1>1, <2>1
  <2> QED
    BY <2>2, <2>3
<1>4. (\A i \in 1..Len(s) : i \in 1..Len(u)) /\ \A i \in 1..Len(t) : Len(s) + i \in 1..Len(u)
  BY <1>1
<1>5. ASSUME NEW e PROVE e \in Elems(u) <=> e \in Elems(s) \/ e \in Elems(t)
  <2>1. ASSUME e \in Elems(u) PROVE e \in Elems(s) \/ e \in Elems(t)
    <3>1. PICK i \in 1..Len(u) : e = u[i]
      BY <2>1 DEF Elems
    <3>2. CASE i \in 1..Len(s)
      BY <1>1, <3>1, <3>2 DEF Elems
    <3>3. CASE i - Len(s) \in 1..Len(t)
      BY <1>3, <3>1, <3>3 DEF Elems
    <3> QED
      BY <1>2, <3>2, <3>3
  <2>2. ASSUME e \in Elems(s) PROVE e \in Elems(u)
    <3>1. PICK i \in 1..Len(s) : e = s[i]
      BY <2>2 DEF Elems
    <3>2. i \in 1..Len(u) /\ u[i] = e
      BY <1>1, <1>4, <3>1
    <3> QED
      BY <3>2 DEF Elems
  <2>3. ASSUME e \in Elems(t) PROVE e \in Elems(u)
    <3>1. PICK i \in 1..Len(t) : e = t[i]
      BY <2>3 DEF Elems
    <3>2. Len(s) + i \in 1..Len(u) /\ u[Len(s) + i] = e
      BY <1>1, <1>4, <3>1
    <3> QED
      BY <3>2 DEF Elems
  <2> QED
    BY <2>1, <2>2, <2>3
<1>6. ASSUME Once(u) PROVE Once(s) /\ Once(t) /\ Elems(s) \cap Elems(t) = {}
  <2>1. Once(s)
    BY <1>1, <1>4, <1>6 DEF Once
  <2>2. Once(t)
    <3>1. SUFFICES ASSUME NEW i \in 1..Len(t), NEW j \in 1..Len(t), t[i] = t[j] PROVE i = j
      BY DEF Once
    <3>2. u[Len(s) + i] = u[Len(s) + j]
      BY <1>1, <3>1
    <3>3. Len(s) + i = Len(s) + j
      BY <1>4, <1>6, <3>2 DEF Once
    <3> QED
      BY <1>1, <3>3
  <2>3. ASSUME NEW i \in 1..Len(s), NEW j \in 1..Len(t), s[i] = t[j] PROVE FALSE
    <3>1. u[i] = u[Len(s) + j]
      BY <1>1, <2>3
    <3>2. i = Len(s) + j
      BY <1>4, <1>6, <3>1 DEF Once
    <3> QED
      BY <1>1, <3>2
  <2> QED
    BY <2>1, <2>2, <2>3 DEF Elems
<1>7. ASSUME Once(s), Once(t), Elems(s) \cap Elems(t) = {} PROVE Once(u)
  <2>1. SUFFICES ASSUME NEW i \in 1..Len(u), NEW j \in 1..Len(u), u[i] = u[j] PROVE i = j
    BY DEF Once
  <2>2. \A a \in 1..Len(s), b \in 1..Len(t) : s[a] # t[b]
    BY <1>7 DEF Elems
  <2>3. CASE i \in 1..Len(s) /\ j \in 1..Len(s)
    BY <1>1, <1>7, <2>1, <2>3 DEF Once
  <2>4. CASE i \in 1..Len(s) /\ j - Len(s) \in 1..Len(t)
    BY <1>1, <1>3, <2>1, <2>2, <2>4
  <2>5. CASE i - Len(s) \in 1..Len(t) /\ j \in 1..Len(s)
    BY <1>1, <1>3, <2>1, <2>2, <2>5
  <2>6. CASE i - Len(s) \in 1..Len(t) /\ j - Len(s) \in 1..Len(t)
    <3>1. t[i - Len(s)] = t[j - Len(s)]
      BY <1>3, <2>1, <2>6
    <3>2. i - Len(s) = j - Len(s)
      BY <1>7, <2>6, <3>1 DEF Once
    <3> QED
      BY <1>1, <3>2
  <2> QED
    BY <1>2, <2>3, <2>4, <2>5, <2>6
<1> QED
  BY <1>5, <1>6, <1>7 DEF u

(* The lcores below k name no pair twice.                                  *)
OnceBelow(qc, k) ==
  /\ \A l \in 0..k - 1 : Once(qc[l])
  /\ \A l, m \in 0..k - 1 : l # m => Elems(qc[l]) \cap Elems(qc[m]) = {}

(* What the collecting loop has after the lcores below k.                  *)
CollectedBelow(acc, qc, k) ==
  /\ \A e : e \in Elems(acc.port_qconf) <=> \E l \in 0..k - 1 : e \in Elems(qc[l])
  /\ Once(acc.port_qconf) <=> OnceBelow(qc, k)
  /\ acc.max_lcore # 0 => acc.max_lcore \in 0..k - 1 /\ qc[acc.max_lcore] # << >>
  /\ \A l \in 0..k - 1 : qc[l] # << >> => l <= acc.max_lcore

(* One more lcore.                                                         *)
LEMMA CollectStep ==
  ASSUME NEW qc \in Qconf, NEW k \in 0..LcoreCount - 1, NEW acc \in Collection,
         CollectedBelow(acc, qc, k)
  PROVE  CollectedBelow(Collect(acc, qc[k], k), qc, k + 1)
<1> DEFINE new == Collect(acc, qc[k], k)
<1>1. /\ LcoreCount \in Nat /\ k \in Nat
      /\ \A l \in 0..k : qc[l] \in Seq(PortQueue)
  BY QueueConfAssumption DEF Qconf, Lcores
<1>2. acc.port_qconf \in Seq(PortQueue) /\ acc.max_lcore \in Nat
  BY DEF Collection
<1>3. /\ Elems(acc.port_qconf \o qc[k]) = Elems(acc.port_qconf) \cup Elems(qc[k])
      /\ Once(acc.port_qconf \o qc[k]) <=>
           Once(acc.port_qconf) /\ Once(qc[k]) /\ Elems(acc.port_qconf) \cap Elems(qc[k]) = {}
  BY <1>1, <1>2, ConcatFacts
<1>4. /\ new.port_qconf = acc.port_qconf \o qc[k]
      /\ new.max_lcore = IF qc[k] # << >> /\ acc.max_lcore < k THEN k ELSE acc.max_lcore
  BY DEF Collect
<1> HIDE DEF new
<1>5. \A l : l \in 0..k <=> l \in 0..k - 1 \/ l = k
  BY <1>1
<1>6. (k + 1) - 1 = k
  BY <1>1
<1>7. \A e : e \in Elems(acc.port_qconf) <=> \E l \in 0..k - 1 : e \in Elems(qc[l])
  BY DEF CollectedBelow
<1>8. \A e : e \in Elems(new.port_qconf) <=> \E l \in 0..k : e \in Elems(qc[l])
  BY <1>3, <1>4, <1>5, <1>7, Zenon
<1>9. k \notin 0..k - 1
  BY <1>1
<1>10. Elems(acc.port_qconf) \cap Elems(qc[k]) = {} <=>
         \A l \in 0..k - 1 : Elems(qc[l]) \cap Elems(qc[k]) = {}
  BY <1>7
<1>11. OnceBelow(qc, k + 1) <=>
         OnceBelow(qc, k) /\ Once(qc[k]) /\ \A l \in 0..k - 1 : Elems(qc[l]) \cap Elems(qc[k]) = {}
  <2>1. OnceBelow(qc, k + 1) <=>
          /\ \A l \in 0..k : Once(qc[l])
          /\ \A l, m \in 0..k : l # m => Elems(qc[l]) \cap Elems(qc[m]) = {}
    BY <1>6 DEF OnceBelow
  <2> DEFINE D == 0..k - 1
             E == 0..k
             Clear(l, m) == Elems(qc[l]) \cap Elems(qc[m]) = {}
  <2>2. \A l, m \in E : Clear(l, m) <=> Clear(m, l)
    OBVIOUS
  <2>3. OnceBelow(qc, k) <=> (\A l \in D : Once(qc[l])) /\ \A l, m \in D : l # m => Clear(l, m)
    BY DEF OnceBelow
  <2>4. \A l : l \in E <=> l \in D \/ l = k
    BY <1>5
  <2>5. k \notin D
    BY <1>9
  <2> HIDE DEF D, E, Clear
  <2>6. (\A l \in E : Once(qc[l])) <=> (\A l \in D : Once(qc[l])) /\ Once(qc[k])
    BY <2>4
  <2>7. (\A l, m \in E : l # m => Clear(l, m)) <=>
          (\A l, m \in D : l # m => Clear(l, m)) /\ \A l \in D : Clear(l, k)
    BY <2>2, <2>4, <2>5
  <2>8. OnceBelow(qc, k + 1) <=>
          (\A l \in E : Once(qc[l])) /\ \A l, m \in E : l # m => Clear(l, m)
    BY <2>1 DEF E, Clear
  <2>9. OnceBelow(qc, k + 1) <=> OnceBelow(qc, k) /\ Once(qc[k]) /\ \A l \in D : Clear(l, k)
    BY <2>3, <2>6, <2>7, <2>8
  <2> QED
    BY <2>9 DEF D, Clear
<1>12. Once(new.port_qconf) <=> OnceBelow(qc, k + 1)
  BY <1>3, <1>4, <1>10, <1>11 DEF CollectedBelow
<1>13. new.max_lcore # 0 => new.max_lcore \in 0..k /\ qc[new.max_lcore] # << >>
  BY <1>1, <1>2, <1>4, <1>5 DEF CollectedBelow
<1>14. \A l \in 0..k : qc[l] # << >> => l <= new.max_lcore
  <2>1. SUFFICES ASSUME NEW l \in 0..k, qc[l] # << >> PROVE l <= new.max_lcore
    OBVIOUS
  <2>2. CASE l = k
    BY <1>1, <1>2, <1>4, <2>1, <2>2
  <2>3. CASE l \in 0..k - 1
    <3>1. l <= acc.max_lcore
      BY <2>1, <2>3 DEF CollectedBelow
    <3> QED
      BY <1>1, <1>2, <1>4, <3>1
  <2> QED
    BY <1>5, <2>2, <2>3
<1> QED
  BY <1>6, <1>8, <1>12, <1>13, <1>14 DEF CollectedBelow, new

(* The collecting loop has what the configuration says.                    *)
LEMMA CollectedAll ==
  ASSUME NEW qc \in Qconf
  PROVE  CollectedBelow(Collected(qc)[LcoreCount], qc, LcoreCount)
<1> DEFINE P == {k \in 0..LcoreCount : CollectedBelow(Collected(qc)[k], qc, k)}
<1>1. LcoreCount \in Nat
  BY QueueConfAssumption
<1>2. 0 \in P
  <2> DEFINE acc == Collected(qc)[0]
  <2>1. acc.port_qconf = << >> /\ acc.max_lcore = 0
    BY CollectedIs
  <2> HIDE DEF acc
  <2>2. Elems(acc.port_qconf) = {} /\ Once(acc.port_qconf)
    BY <2>1 DEF Elems, Once
  <2>3. 0..0 - 1 = {}
    OBVIOUS
  <2>4. OnceBelow(qc, 0)
    BY <2>3 DEF OnceBelow
  <2>5. /\ \A e : e \in Elems(acc.port_qconf) <=> \E l \in 0..0 - 1 : e \in Elems(qc[l])
        /\ \A l \in 0..0 - 1 : qc[l] # << >> => l <= acc.max_lcore
    BY <2>2, <2>3
  <2>6. CollectedBelow(acc, qc, 0)
    <3>1. Once(acc.port_qconf) <=> OnceBelow(qc, 0)
      BY <2>2, <2>4
    <3>2. acc.max_lcore # 0 => acc.max_lcore \in 0..0 - 1 /\ qc[acc.max_lcore] # << >>
      BY <2>1
    <3> QED
      BY <2>5, <3>1, <3>2 DEF CollectedBelow
  <2> QED
    BY <1>1, <2>6 DEF acc
<1>3. ASSUME NEW k \in 0..LcoreCount - 1, k \in P PROVE k + 1 \in P
  <2>1. k + 1 \in 1..LcoreCount /\ (k + 1) - 1 = k /\ k \in 0..LcoreCount
    BY <1>1
  <2>2. Collected(qc)[k + 1] = Collect(Collected(qc)[k], qc[k], k)
    BY <2>1, CollectedIs
  <2>3. Collected(qc)[k] \in Collection
    BY <2>1, CollectedIs
  <2>4. CollectedBelow(Collected(qc)[k + 1], qc, k + 1)
    BY <1>3, <2>2, <2>3, CollectStep
  <2> QED
    BY <2>1, <2>4
<1>4. \A k \in 0..LcoreCount : k \in P
  <2> HIDE DEF P
  <2> QED
    BY <1>1, <1>2, <1>3, UpTo
<1> QED
  BY <1>1, <1>4

-----------------------------------------------------------------------------
(* Entry i of s belongs before entry j: less, or equal and in front of it. *)
Precedes(s, i, j) ==
  \/ port_qconf_compare(s[i], s[j])
  \/ ~port_qconf_compare(s[j], s[i]) /\ i < j

(* It is a strict total order of the entries.                              *)
LEMMA PrecedesOrders ==
  ASSUME NEW s \in Seq(PortQueue)
  PROVE  /\ \A i \in 1..Len(s) : ~Precedes(s, i, i)
         /\ \A i, j \in 1..Len(s) : i # j => Precedes(s, i, j) \/ Precedes(s, j, i)
         /\ \A i, j, k \in 1..Len(s) :
              Precedes(s, i, j) /\ Precedes(s, j, k) => Precedes(s, i, k)
<1>1. \A i \in 1..Len(s) : s[i].port_id \in Nat /\ s[i].queue_id \in Nat /\ i \in Nat
  <2>1. \A i \in 1..Len(s) : s[i] \in PortQueue
    OBVIOUS
  <2> QED
    BY <2>1, QueueConfAssumption DEF PortQueue, Ports
<1>2. \A i \in 1..Len(s) : ~Precedes(s, i, i)
  BY <1>1 DEF Precedes, port_qconf_compare
<1>3. \A i, j \in 1..Len(s) : i # j => Precedes(s, i, j) \/ Precedes(s, j, i)
  BY <1>1 DEF Precedes, port_qconf_compare
<1>4. ASSUME NEW i \in 1..Len(s), NEW j \in 1..Len(s), NEW k \in 1..Len(s),
             Precedes(s, i, j), Precedes(s, j, k)
      PROVE  Precedes(s, i, k)
  BY <1>1, <1>4 DEF Precedes, port_qconf_compare
<1> QED
  BY <1>2, <1>3, <1>4

(* The entries that belong before entry i.                                 *)
Before(s, i) == {j \in 1..Len(s) : Precedes(s, j, i)}

(* The places of the entries are a rearrangement, in order.                *)
LEMMA Places ==
  ASSUME NEW s \in Seq(PortQueue)
  PROVE  \E place \in Bijection(1..Len(s), 1..Len(s)) :
           \A i, j \in 1..Len(s) : Precedes(s, i, j) => place[i] < place[j]
<1> DEFINE D == 1..Len(s)
           place == [i \in D |-> Cardinality(Before(s, i)) + 1]
<1>1. Len(s) \in Nat /\ IsFiniteSet(D) /\ Cardinality(D) = Len(s)
  <2>1. Len(s) \in Nat
    OBVIOUS
  <2>2. 1 \in Int /\ Len(s) \in Int
    BY <2>1
  <2>3. IsFiniteSet(D) /\ Cardinality(D) = IF 1 > Len(s) THEN 0 ELSE Len(s) - 1 + 1
    BY <2>2, FS_Interval
  <2> QED
    BY <2>1, <2>3
<1>2. ASSUME NEW i \in D
      PROVE  /\ IsFiniteSet(Before(s, i)) /\ Cardinality(Before(s, i)) \in Nat
             /\ Cardinality(Before(s, i)) < Len(s)
  <2>1. Before(s, i) \subseteq D /\ i \notin Before(s, i)
    BY PrecedesOrders DEF Before
  <2> DEFINE B == Before(s, i)
  <2> HIDE DEF B, D
  <2>2. B \in SUBSET D /\ i \in D /\ i \notin B
    BY <2>1 DEF B
  <2>3. IsFiniteSet(B) /\ Cardinality(B) <= Cardinality(D) /\ (Cardinality(D) = Cardinality(B) => D = B)
    BY <1>1, <2>2, FS_Subset
  <2>4. Cardinality(B) # Cardinality(D)
    BY <2>2, <2>3
  <2>5. Cardinality(B) \in Nat
    BY <2>3, FS_CardinalityType
  <2>6. Cardinality(B) < Len(s)
    BY <1>1, <2>3, <2>4, <2>5
  <2> QED
    BY <2>3, <2>5, <2>6 DEF B
<1>3. ASSUME NEW i \in D, NEW j \in D, Precedes(s, i, j)
      PROVE  Cardinality(Before(s, i)) < Cardinality(Before(s, j))
  <2>1. Before(s, i) \subseteq Before(s, j)
    BY <1>3, PrecedesOrders DEF Before
  <2>2. i \in Before(s, j) /\ i \notin Before(s, i)
    BY <1>3, PrecedesOrders DEF Before
  <2> DEFINE A == Before(s, i)
             B == Before(s, j)
  <2>3. IsFiniteSet(B) /\ Cardinality(A) \in Nat /\ Cardinality(B) \in Nat
    BY <1>2
  <2>4. A \in SUBSET B /\ A # B
    BY <2>1, <2>2
  <2> HIDE DEF A, B
  <2>5. Cardinality(A) <= Cardinality(B) /\ Cardinality(B) # Cardinality(A)
    BY <2>3, <2>4, FS_Subset
  <2>6. Cardinality(A) < Cardinality(B)
    BY <2>3, <2>5
  <2> QED
    BY <2>6 DEF A, B
<1>4. place \in [D -> D]
  <2>1. \A i \in D : Cardinality(Before(s, i)) + 1 \in D
    BY <1>1, <1>2
  <2> QED
    BY <2>1
<1>5. \A i, j \in D : Precedes(s, i, j) => place[i] < place[j]
  <2>1. SUFFICES ASSUME NEW i \in D, NEW j \in D, Precedes(s, i, j) PROVE place[i] < place[j]
    OBVIOUS
  <2>2. Cardinality(Before(s, i)) < Cardinality(Before(s, j))
    BY <1>3, <2>1
  <2>3. Cardinality(Before(s, i)) \in Nat /\ Cardinality(Before(s, j)) \in Nat
    BY <1>2
  <2>4. place[i] = Cardinality(Before(s, i)) + 1 /\ place[j] = Cardinality(Before(s, j)) + 1
    OBVIOUS
  <2> QED
    BY <2>2, <2>3, <2>4
<1> HIDE DEF place
<1>6. \A i, j \in D : place[i] = place[j] => i = j
  <2>1. SUFFICES ASSUME NEW i \in D, NEW j \in D, i # j PROVE place[i] # place[j]
    OBVIOUS
  <2>2. place[i] < place[j] \/ place[j] < place[i]
    BY <1>5, <2>1, PrecedesOrders
  <2>3. place[i] \in D /\ place[j] \in D
    BY <1>4
  <2>4. place[i] \in Nat /\ place[j] \in Nat
    BY <2>3
  <2> QED
    BY <2>2, <2>4
<1>7. place \in Bijection(D, D)
  <2> HIDE DEF D
  <2>1. place \in Injection(D, D)
    BY <1>4, <1>6 DEF Injection, IsInjective
  <2>2. place \in Surjection(D, D)
    BY <1>1, <2>1, FS_Injection
  <2> QED
    BY <2>1, <2>2 DEF Bijection
<1> QED
  BY <1>5, <1>7

(* qsort () returns a rearrangement, sorted: the same entries, none of     *)
(* them less than one before it.                                           *)
LEMMA QsortFacts ==
  ASSUME NEW s \in Seq(PortQueue)
  PROVE  LET t == qsort(s)
         IN  /\ t \in Seq(PortQueue) /\ Len(t) = Len(s)
             /\ Elems(t) = Elems(s)
             /\ Once(t) <=> Once(s)
             /\ \A i, j \in 1..Len(s) : i < j => ~port_qconf_compare(t[j], t[i])
<1> DEFINE D == 1..Len(s)
           order == CHOOSE f \in Bijection(D, D) : Sorting(s, f)
           t == [i \in D |-> s[order[i]]]
<1>1. Len(s) \in Nat
  OBVIOUS
<1>2. \E f \in Bijection(D, D) : Sorting(s, f)
  <2>1. PICK place \in Bijection(D, D) :
           \A i, j \in D : Precedes(s, i, j) => place[i] < place[j]
    BY Places
  <2> DEFINE f == [k \in D |-> CHOOSE i \in D : place[i] = k]
  <2>2. /\ place \in [D -> D]
        /\ \A i, j \in D : place[i] = place[j] => i = j
        /\ \A k \in D : \E i \in D : place[i] = k
    BY <2>1, Zenon DEF Bijection, Injection, Surjection, IsInjective
  <2>3. \A k \in D : f[k] \in D /\ place[f[k]] = k
    BY <2>2
  <2>4. f \in [D -> D]
    BY <2>3
  <2> HIDE DEF f
  <2>5. \A i, j \in D : f[i] = f[j] => i = j
    BY <2>3
  <2>6. \A k \in D : \E i \in D : f[i] = k
    <3>1. SUFFICES ASSUME NEW k \in D PROVE f[place[k]] = k
      BY <2>2
    <3>2. place[k] \in D /\ place[f[place[k]]] = place[k] /\ f[place[k]] \in D
      BY <2>2, <2>3
    <3> QED
      BY <2>2, <3>2
  <2>7. f \in Bijection(D, D)
    <3> HIDE DEF D
    <3> QED
      BY <2>4, <2>5, <2>6, Zenon DEF Bijection, Injection, Surjection, IsInjective
  <2>8. Sorting(s, f)
    <3>1. SUFFICES ASSUME NEW i \in D, NEW j \in D, i < j, port_qconf_compare(s[f[j]], s[f[i]])
                   PROVE  FALSE
      BY DEF Sorting
    <3>2. f[i] \in D /\ f[j] \in D /\ place[f[i]] = i /\ place[f[j]] = j
      BY <2>3
    <3>3. Precedes(s, f[j], f[i])
      BY <3>1 DEF Precedes
    <3>4. j < i
      BY <2>1, <3>2, <3>3
    <3> QED
      BY <1>1, <3>1, <3>4
  <2> QED
    BY <2>7, <2>8
<1>3. qsort(s) = t
  BY DEF qsort
<1>4. order \in Bijection(D, D) /\ Sorting(s, order)
  <2> HIDE DEF D
  <2> QED
    BY <1>2
<1> HIDE DEF order
<1>5. /\ order \in [D -> D]
      /\ \A i, j \in D : order[i] = order[j] => i = j
      /\ \A k \in D : \E i \in D : order[i] = k
  BY <1>4, Zenon DEF Bijection, Injection, Surjection, IsInjective
<1>6. \A i \in D : order[i] \in D /\ t[i] = s[order[i]] /\ s[order[i]] \in PortQueue
  BY <1>5
<1>7. t \in Seq(PortQueue) /\ Len(t) = Len(s)
  BY <1>1, <1>6
<1> HIDE DEF t
<1>8. Elems(t) = Elems(s)
  <2>1. ASSUME NEW i \in D PROVE t[i] \in Elems(s)
    BY <1>6 DEF Elems
  <2>2. ASSUME NEW k \in D PROVE s[k] \in Elems(t)
    <3>1. PICK i \in D : order[i] = k
      BY <1>5
    <3> QED
      BY <1>6, <1>7, <3>1 DEF Elems
  <2> QED
    BY <1>7, <2>1, <2>2 DEF Elems
<1>9. ASSUME Once(s) PROVE Once(t)
  <2>1. SUFFICES ASSUME NEW i \in D, NEW j \in D, t[i] = t[j] PROVE i = j
    BY <1>7 DEF Once
  <2>2. s[order[i]] = s[order[j]] /\ order[i] \in D /\ order[j] \in D
    BY <1>6, <2>1
  <2>3. order[i] = order[j]
    BY <1>9, <2>2 DEF Once
  <2> QED
    BY <1>5, <2>3
<1>10. ASSUME Once(t) PROVE Once(s)
  <2>1. SUFFICES ASSUME NEW a \in D, NEW b \in D, s[a] = s[b] PROVE a = b
    BY DEF Once
  <2>2. PICK i \in D, j \in D : order[i] = a /\ order[j] = b
    BY <1>5
  <2>3. t[i] = t[j]
    BY <1>6, <2>1, <2>2
  <2>4. i = j
    BY <1>7, <1>10, <2>3 DEF Once
  <2> QED
    BY <2>2, <2>4
<1>11. \A i, j \in D : i < j => ~port_qconf_compare(t[j], t[i])
  BY <1>4, <1>6 DEF Sorting
<1> QED
  BY <1>3, <1>7, <1>8, <1>9, <1>10, <1>11

-----------------------------------------------------------------------------
(* What the counting loop holds.                                           *)
Counts == [ret : {0, -1}, port_nrxq : [Ports -> Nat]]

(* A port has one more queue.                                              *)
Counted(count, port) == [count EXCEPT ![port] = @ + 1]

(* One entry is counted.                                                   *)
Count(acc, pq) ==
  IF acc.ret = 0 /\ acc.port_nrxq[pq.port_id] = pq.queue_id
  THEN [ret |-> 0, port_nrxq |-> Counted(acc.port_nrxq, pq.port_id)]
  ELSE [ret |-> -1, port_nrxq |-> acc.port_nrxq]

(* The count of the port, and of the others.                               *)
LEMMA CountedFacts ==
  ASSUME NEW count \in [Ports -> Nat], NEW port \in Ports
  PROVE  /\ Counted(count, port) \in [Ports -> Nat]
         /\ Counted(count, port)[port] = count[port] + 1
         /\ \A p \in Ports : p # port => Counted(count, port)[p] = count[p]
BY DEF Counted

(* An entry leaves a count of the same shape.                              *)
LEMMA CountType ==
  ASSUME NEW acc \in Counts, NEW pq \in PortQueue
  PROVE  Count(acc, pq) \in Counts
<1>1. acc.port_nrxq \in [Ports -> Nat] /\ pq.port_id \in Ports
  BY DEF Counts, PortQueue
<1>2. Counted(acc.port_nrxq, pq.port_id) \in [Ports -> Nat]
  BY <1>1, CountedFacts
<1> QED
  BY <1>1, <1>2 DEF Count, Counts

(* The counting loop, entry by entry.                                      *)
LEMMA CountLoopIs ==
  ASSUME NEW t \in Seq(PortQueue)
  PROVE  /\ CountLoop(t) \in [0..Len(t) -> Counts]
         /\ CountLoop(t)[0] = [ret |-> 0, port_nrxq |-> [p \in Ports |-> 0]]
         /\ \A k \in 1..Len(t) : CountLoop(t)[k] = Count(CountLoop(t)[k - 1], t[k])
<1> DEFINE base == [ret |-> 0, port_nrxq |-> [p \in Ports |-> 0]]
           step == [k \in 1..Len(t) |-> [v \in Counts |-> Count(v, t[k])]]
           Rec(f) == f = [i \in 0..Len(t) |->
                            IF i = 0 THEN base
                            ELSE IF /\ f[i - 1].ret = 0
                                    /\ f[i - 1].port_nrxq[t[i].port_id] = t[i].queue_id
                                 THEN [ret |-> 0,
                                       port_nrxq |-> [f[i - 1].port_nrxq EXCEPT ![t[i].port_id] = @ + 1]]
                                 ELSE [ret |-> -1, port_nrxq |-> f[i - 1].port_nrxq]]
           Rec2(f) == f = [i \in 0..Len(t) |-> IF i = 0 THEN base ELSE Count(f[i - 1], t[i])]
<1>1. base \in Counts /\ Len(t) \in Nat
  BY DEF Counts
<1>2. \A k \in 1..Len(t) : t[k] \in PortQueue
  OBVIOUS
<1>3. step \in [1..Len(t) -> [Counts -> Counts]]
  BY <1>2, CountType
<1>4. \A k \in 1..Len(t) : \A v \in Counts : step[k][v] = Count(v, t[k])
  OBVIOUS
<1>5. CountLoop(t) = CHOOSE f : Rec(f)
  BY DEF CountLoop
<1>6. \A f : Rec(f) <=> Rec2(f)
  <2> HIDE DEF base
  <2> QED
    BY Zenon DEF Count, Counted
<1>7. PICK f \in [0..Len(t) -> Counts] : Solves(f, Len(t), base, step)
  <2> HIDE DEF step, base
  <2> QED
    BY <1>1, <1>3, Recursion
<1> HIDE DEF step
<1>8. \A k \in 1..Len(t) : f[k] = Count(f[k - 1], t[k])
  <2>1. SUFFICES ASSUME NEW k \in 1..Len(t) PROVE f[k] = Count(f[k - 1], t[k])
    OBVIOUS
  <2>2. f[k - 1] \in Counts
    BY <1>1
  <2> QED
    BY <1>4, <1>7, <2>2 DEF Solves
<1>9. Rec2(f)
  <2>1. f = [k \in 0..Len(t) |-> f[k]]
    OBVIOUS
  <2>2. \A k \in 0..Len(t) : f[k] = IF k = 0 THEN base ELSE Count(f[k - 1], t[k])
    BY <1>1, <1>7, <1>8 DEF Solves
  <2> HIDE DEF base
  <2> QED
    BY <2>1, <2>2
<1> DEFINE g == CountLoop(t)
<1>10. Rec2(g)
  <2> HIDE DEF Rec, Rec2
  <2> QED
    BY <1>5, <1>6, <1>9
<1> HIDE DEF g
<1>11. /\ g = [k \in 0..Len(t) |-> g[k]]
       /\ g[0] = base
       /\ \A k \in 1..Len(t) : g[k] = Count(g[k - 1], t[k])
  <2> HIDE DEF base
  <2>2. \A k \in 0..Len(t) : g[k] = IF k = 0 THEN base ELSE Count(g[k - 1], t[k])
    BY <1>10
  <2>3. g = [k \in 0..Len(t) |-> g[k]]
    BY <1>10
  <2>4. g[0] = base
    BY <1>1, <2>2
  <2>5. \A k \in 1..Len(t) : k \in 0..Len(t) /\ k # 0
    BY <1>1
  <2> QED
    BY <2>2, <2>3, <2>4, <2>5, Zenon
<1>12. \A k \in 0..Len(t) : g[k] \in Counts
  <2> DEFINE P == {k \in 0..Len(t) : g[k] \in Counts}
  <2>1. 0 \in P
    BY <1>1, <1>11
  <2>2. ASSUME NEW k \in 0..Len(t) - 1, k \in P PROVE k + 1 \in P
    <3>1. k + 1 \in 1..Len(t) /\ (k + 1) - 1 = k
      BY <1>1
    <3>2. g[k + 1] = Count(g[k], t[k + 1])
      BY <1>11, <3>1
    <3>3. g[k + 1] \in Counts
      BY <1>2, <2>2, <3>1, <3>2, CountType
    <3> QED
      BY <3>1, <3>3
  <2>3. \A k \in 0..Len(t) : k \in P
    <3> HIDE DEF P
    <3> QED
      BY <1>1, <2>1, <2>2, UpTo
  <2> QED
    BY <2>3
<1>13. g \in [0..Len(t) -> Counts]
  BY <1>11, <1>12
<1> QED
  BY <1>11, <1>13 DEF g

(* A pair is its port and its queue.                                       *)
LEMMA PairFacts ==
  /\ \A a \in PortQueue : /\ a.port_id \in Ports /\ a.port_id \in Nat /\ a.queue_id \in Nat
                          /\ a = [port_id |-> a.port_id, queue_id |-> a.queue_id]
  /\ \A a, b \in PortQueue : a.port_id = b.port_id /\ a.queue_id = b.queue_id => a = b
<1>1. Ports \subseteq Nat /\ 0..NQueues - 1 \subseteq Nat
  BY QueueConfAssumption DEF Ports
<1>2. \A a \in PortQueue : /\ a.port_id \in Ports /\ a.queue_id \in 0..NQueues - 1
                           /\ a = [port_id |-> a.port_id, queue_id |-> a.queue_id]
  BY DEF PortQueue
<1>3. \A a \in PortQueue : a.port_id \in Nat /\ a.queue_id \in Nat
  BY <1>1, <1>2
<1>4. \A a, b \in PortQueue : a.port_id = b.port_id /\ a.queue_id = b.queue_id => a = b
  BY <1>2, Zenon
<1> QED
  BY <1>2, <1>3, <1>4, Zenon

(* The counts after k entries that all passed: the queues of a port among  *)
(* them are the ones below its count, each of them there once.             *)
Passed(acc, t, k) ==
  /\ \A i \in 1..k : t[i].queue_id < acc.port_nrxq[t[i].port_id]
  /\ \A p \in Ports : \A q \in Nat : q < acc.port_nrxq[p] =>
       \E i \in 1..k : t[i].port_id = p /\ t[i].queue_id = q
  /\ \A i, j \in 1..k : t[i] = t[j] => i = j

(* An entry that passes keeps it.                                          *)
LEMMA PassedStep ==
  ASSUME NEW t \in Seq(PortQueue), NEW k \in 0..Len(t) - 1, NEW acc \in Counts,
         acc.ret = 0, Passed(acc, t, k), Count(acc, t[k + 1]).ret = 0
  PROVE  Passed(Count(acc, t[k + 1]), t, k + 1)
<1> DEFINE rxq == t[k + 1]
           old == acc.port_nrxq
           new == Count(acc, rxq).port_nrxq
<1>1. Len(t) \in Nat /\ k \in Nat /\ k + 1 \in 1..Len(t)
  OBVIOUS
<1>2. rxq \in PortQueue /\ rxq.port_id \in Ports /\ rxq.queue_id \in Nat
  BY <1>1, PairFacts
<1>3. old \in [Ports -> Nat]
  BY DEF Counts
<1>4. old[rxq.port_id] = rxq.queue_id /\ new = Counted(old, rxq.port_id)
  BY DEF Count
<1> HIDE DEF new, old
<1>5. /\ new \in [Ports -> Nat]
      /\ new[rxq.port_id] = rxq.queue_id + 1
      /\ \A p \in Ports : p # rxq.port_id => new[p] = old[p]
  BY <1>2, <1>3, <1>4, CountedFacts
<1>6. \A i : i \in 1..k + 1 <=> i \in 1..k \/ i = k + 1
  BY <1>1
<1>7. \A i \in 1..k + 1 : t[i] \in PortQueue /\ t[i].port_id \in Ports /\ t[i].queue_id \in Nat
  <2>1. \A i \in 1..k + 1 : t[i] \in PortQueue
    BY <1>1
  <2> QED
    BY <2>1, PairFacts
<1>8. \A i \in 1..k : t[i].queue_id < old[t[i].port_id]
  BY DEF Passed, old
<1>9. \A p \in Ports : old[p] \in Nat /\ new[p] \in Nat /\ old[p] <= new[p]
  <2>1. \A p \in Ports : old[p] \in Nat /\ new[p] \in Nat
    BY <1>3, <1>5
  <2>2. \A p \in Ports : p # rxq.port_id => old[p] <= new[p]
    BY <1>5, <2>1
  <2>3. old[rxq.port_id] <= new[rxq.port_id]
    BY <1>2, <1>4, <1>5
  <2> QED
    BY <2>1, <2>2, <2>3
<1>10. ASSUME NEW i \in 1..k + 1 PROVE t[i].queue_id < new[t[i].port_id]
  <2>1. CASE i = k + 1
    BY <1>2, <1>5, <2>1
  <2>2. CASE i \in 1..k
    <3>1. t[i].queue_id < old[t[i].port_id] /\ old[t[i].port_id] <= new[t[i].port_id]
      BY <1>7, <1>8, <1>9, <2>2
    <3>2. t[i].queue_id \in Nat /\ old[t[i].port_id] \in Nat /\ new[t[i].port_id] \in Nat
      BY <1>7, <1>9
    <3> QED
      BY <3>1, <3>2
  <2> QED
    BY <1>6, <2>1, <2>2
<1>11. ASSUME NEW p \in Ports, NEW q \in Nat, q < new[p]
       PROVE  \E i \in 1..k + 1 : t[i].port_id = p /\ t[i].queue_id = q
  <2>1. CASE q < old[p]
    <3>1. \E i \in 1..k : t[i].port_id = p /\ t[i].queue_id = q
      BY <2>1 DEF Passed, old
    <3> QED
      BY <1>6, <3>1
  <2>2. CASE ~(q < old[p])
    <3>1. p = rxq.port_id
      BY <1>5, <1>11, <2>2
    <3>2. q = rxq.queue_id
      BY <1>2, <1>4, <1>5, <1>11, <2>2, <3>1
    <3> QED
      BY <1>6, <3>1, <3>2
  <2> QED
    BY <2>1, <2>2
<1>12. ASSUME NEW i \in 1..k PROVE t[i] # rxq
  <2>1. SUFFICES ASSUME t[i] = rxq PROVE FALSE
    OBVIOUS
  <2>2. rxq.queue_id < old[rxq.port_id]
    BY <1>8, <2>1
  <2> QED
    BY <1>2, <1>4, <2>2
<1>13. \A i, j \in 1..k : t[i] = t[j] => i = j
  BY DEF Passed
<1>14. \A i, j \in 1..k + 1 : t[i] = t[j] => i = j
  BY <1>6, <1>12, <1>13
<1> QED
  BY <1>10, <1>11, <1>14 DEF Passed, new

(* Every count the loop reaches without an error is one of entries that    *)
(* passed.                                                                 *)
LEMMA LoopPasses ==
  ASSUME NEW t \in Seq(PortQueue)
  PROVE  \A k \in 0..Len(t) : CountLoop(t)[k].ret = 0 => Passed(CountLoop(t)[k], t, k)
<1> DEFINE P == {k \in 0..Len(t) : CountLoop(t)[k].ret = 0 => Passed(CountLoop(t)[k], t, k)}
<1>1. Len(t) \in Nat
  OBVIOUS
<1>2. 0 \in P
  <2>1. \A p \in Ports : CountLoop(t)[0].port_nrxq[p] = 0
    BY CountLoopIs
  <2>2. \A p \in Ports : \A q \in Nat : ~(q < CountLoop(t)[0].port_nrxq[p])
    BY <2>1
  <2>3. 1..0 = {}
    OBVIOUS
  <2>4. Passed(CountLoop(t)[0], t, 0)
    BY <2>2, <2>3 DEF Passed
  <2> QED
    BY <1>1, <2>4
<1>3. ASSUME NEW k \in 0..Len(t) - 1, k \in P PROVE k + 1 \in P
  <2>1. k + 1 \in 1..Len(t) /\ (k + 1) - 1 = k /\ k \in 0..Len(t) /\ k + 1 \in 0..Len(t)
    BY <1>1
  <2> DEFINE acc == CountLoop(t)[k]
  <2>2. CountLoop(t)[k + 1] = Count(acc, t[k + 1]) /\ acc \in Counts
    BY <2>1, CountLoopIs
  <2>3. acc.ret = 0 => Passed(acc, t, k)
    BY <1>3
  <2> HIDE DEF acc
  <2>4. ASSUME Count(acc, t[k + 1]).ret = 0 PROVE Passed(Count(acc, t[k + 1]), t, k + 1)
    <3>1. acc.ret = 0
      BY <2>4 DEF Count
    <3> QED
      BY <2>2, <2>3, <2>4, <3>1, PassedStep
  <2> QED
    BY <2>1, <2>2, <2>4
<1>4. \A k \in 0..Len(t) : k \in P
  <2> HIDE DEF P
  <2> QED
    BY <1>1, <1>2, <1>3, UpTo
<1> QED
  BY <1>4

(* The queue below a queue that is not its port's first is named too.      *)
Closed(Q) ==
  \A pq \in Q : pq.queue_id > 0 => [port_id |-> pq.port_id, queue_id |-> pq.queue_id - 1] \in Q

(* No entry of a sorted, closed list without repetition is refused.        *)
LEMMA LoopAccepts ==
  ASSUME NEW t \in Seq(PortQueue), Once(t), Closed(Elems(t)),
         \A i, j \in 1..Len(t) : i < j => ~port_qconf_compare(t[j], t[i])
  PROVE  CountLoop(t)[Len(t)].ret = 0
<1> DEFINE P == {k \in 0..Len(t) : CountLoop(t)[k].ret = 0}
<1>1. Len(t) \in Nat
  OBVIOUS
<1>2. 0 \in P
  BY <1>1, CountLoopIs
<1>3. ASSUME NEW k \in 0..Len(t) - 1, k \in P PROVE k + 1 \in P
  <2>1. k + 1 \in 1..Len(t) /\ (k + 1) - 1 = k /\ k \in 0..Len(t) /\ k + 1 \in 0..Len(t)
    BY <1>1
  <2> DEFINE acc == CountLoop(t)[k]
             rxq == t[k + 1]
             n == acc.port_nrxq[rxq.port_id]
  <2>2. CountLoop(t)[k + 1] = Count(acc, t[k + 1]) /\ acc \in Counts
    BY <2>1, CountLoopIs
  <2>3. acc.ret = 0 /\ Passed(acc, t, k)
    BY <1>3, <2>1, LoopPasses
  <2> HIDE DEF acc
  <2>4. rxq \in PortQueue /\ rxq.port_id \in Ports /\ rxq.queue_id \in Nat /\ rxq.port_id \in Nat
    BY <2>1, PairFacts
  <2>5. n \in Nat
    BY <2>2, <2>4 DEF Counts
  <2>6. \A i \in 1..k : t[i] \in PortQueue /\ i \in 1..Len(t) /\ i # k + 1
    BY <1>1
  <2>7. ~(rxq.queue_id < n)
    <3>1. SUFFICES ASSUME rxq.queue_id < n PROVE FALSE
      OBVIOUS
    <3>2. PICK i \in 1..k : t[i].port_id = rxq.port_id /\ t[i].queue_id = rxq.queue_id
      BY <2>3, <2>4, <3>1 DEF Passed
    <3>3. t[i] = rxq
      BY <2>4, <2>6, <3>2, PairFacts
    <3> QED
      BY <2>1, <2>6, <3>3 DEF Once
  <2>8. ~(n < rxq.queue_id)
    <3>1. SUFFICES ASSUME n < rxq.queue_id PROVE FALSE
      OBVIOUS
    <3>2. rxq.queue_id > 0 /\ rxq.queue_id - 1 \in Nat
      BY <2>4, <2>5, <3>1
    <3> DEFINE low == [port_id |-> rxq.port_id, queue_id |-> rxq.queue_id - 1]
    <3>3. low.port_id = rxq.port_id /\ low.queue_id = rxq.queue_id - 1
      OBVIOUS
    <3>4. rxq \in Elems(t)
      BY <2>1 DEF Elems
    <3>5. low \in Elems(t)
      BY <3>2, <3>4 DEF Closed
    <3> HIDE DEF low
    <3>6. PICK j \in 1..Len(t) : t[j] = low
      BY <3>5 DEF Elems
    <3>7. port_qconf_compare(t[j], rxq)
      BY <2>4, <3>2, <3>3, <3>6 DEF port_qconf_compare
    <3>8. ~(k + 1 < j)
      BY <2>1, <3>7
    <3>9. j # k + 1
      BY <2>4, <3>2, <3>3, <3>6
    <3>10. j \in 1..k
      BY <1>1, <3>8, <3>9
    <3>11. t[j].queue_id < acc.port_nrxq[t[j].port_id]
      BY <2>3, <3>10 DEF Passed
    <3>12. rxq.queue_id - 1 < n
      BY <3>3, <3>6, <3>11
    <3> QED
      BY <2>4, <2>5, <3>1, <3>12
  <2>9. n = rxq.queue_id
    BY <2>4, <2>5, <2>7, <2>8
  <2>10. Count(acc, t[k + 1]).ret = 0
    BY <2>3, <2>9 DEF Count
  <2> QED
    BY <2>1, <2>2, <2>10
<1>4. \A k \in 0..Len(t) : k \in P
  <2> HIDE DEF P
  <2> QED
    BY <1>1, <1>2, <1>3, UpTo
<1> QED
  BY <1>1, <1>4

(* The counting loop accepts a sorted list just when it is closed and has  *)
(* no repetition, and has then counted each port's queues.                 *)
LEMMA LoopFacts ==
  ASSUME NEW t \in Seq(PortQueue),
         \A i, j \in 1..Len(t) : i < j => ~port_qconf_compare(t[j], t[i])
  PROVE  LET end == CountLoop(t)[Len(t)]
         IN  /\ end.ret = 0 <=> Once(t) /\ Closed(Elems(t))
             /\ end.ret = 0 => \A p \in Ports :
                  end.port_nrxq[p] = Cardinality({pq \in Elems(t) : pq.port_id = p})
<1> DEFINE end == CountLoop(t)[Len(t)]
<1>1. Once(t) /\ Closed(Elems(t)) => end.ret = 0
  BY LoopAccepts
<1>2. end \in Counts
  <2>1. Len(t) \in 0..Len(t)
    OBVIOUS
  <2> QED
    BY <2>1, CountLoopIs
<1>3. end.ret = 0 => Passed(end, t, Len(t))
  <2>1. Len(t) \in 0..Len(t)
    OBVIOUS
  <2> QED
    BY <2>1, LoopPasses
<1> HIDE DEF end
<1>4. \A p \in Ports : end.port_nrxq[p] \in Nat
  BY <1>2 DEF Counts
<1>5. \A e \in Elems(t) : e \in PortQueue
  BY DEF Elems
<1>6. ASSUME end.ret = 0
      PROVE  /\ \A e \in Elems(t) : e.queue_id < end.port_nrxq[e.port_id]
             /\ \A p \in Ports : \A q \in Nat : q < end.port_nrxq[p] =>
                  [port_id |-> p, queue_id |-> q] \in Elems(t)
             /\ Once(t)
  <2>1. Passed(end, t, Len(t))
    BY <1>3, <1>6
  <2>2. \A e \in Elems(t) : e.queue_id < end.port_nrxq[e.port_id]
    BY <2>1 DEF Passed, Elems
  <2>3. ASSUME NEW p \in Ports, NEW q \in Nat, q < end.port_nrxq[p]
        PROVE  [port_id |-> p, queue_id |-> q] \in Elems(t)
    <3>1. PICK i \in 1..Len(t) : t[i].port_id = p /\ t[i].queue_id = q
      BY <2>1, <2>3 DEF Passed
    <3>2. t[i] \in PortQueue
      OBVIOUS
    <3>3. t[i] = [port_id |-> p, queue_id |-> q]
      BY <3>1, <3>2, PairFacts
    <3> QED
      BY <3>3 DEF Elems
  <2>4. Once(t)
    BY <2>1 DEF Passed, Once
  <2> QED
    BY <2>2, <2>3, <2>4
<1>7. ASSUME end.ret = 0 PROVE Closed(Elems(t))
  <2>1. SUFFICES ASSUME NEW e \in Elems(t), e.queue_id > 0
                 PROVE  [port_id |-> e.port_id, queue_id |-> e.queue_id - 1] \in Elems(t)
    BY DEF Closed
  <2>2. e.port_id \in Ports /\ e.queue_id \in Nat
    BY <1>5, PairFacts
  <2>3. e.queue_id < end.port_nrxq[e.port_id]
    BY <1>6, <1>7
  <2>4. e.queue_id - 1 \in Nat /\ e.queue_id - 1 < end.port_nrxq[e.port_id]
    BY <1>4, <2>1, <2>2, <2>3
  <2> QED
    BY <1>6, <1>7, <2>2, <2>4
<1>8. ASSUME end.ret = 0, NEW p \in Ports
      PROVE  end.port_nrxq[p] = Cardinality({pq \in Elems(t) : pq.port_id = p})
  <2> DEFINE n == end.port_nrxq[p]
             S == 0..n - 1
             T == {pq \in Elems(t) : pq.port_id = p}
             f == [q \in S |-> [port_id |-> p, queue_id |-> q]]
  <2>1. n \in Nat
    BY <1>4
  <2>2. \A q \in S : q \in Nat /\ q < n
    BY <2>1
  <2>3. \A q \in S : f[q] \in T /\ f[q].queue_id = q
    <3>1. \A q \in S : [port_id |-> p, queue_id |-> q] \in Elems(t)
      BY <1>6, <1>8, <2>2
    <3> QED
      BY <3>1
  <2>4. f \in [S -> T]
    BY <2>3
  <2>5. \A e \in T : e.queue_id \in S /\ f[e.queue_id] = e
    <3>1. SUFFICES ASSUME NEW e \in T PROVE e.queue_id \in S /\ f[e.queue_id] = e
      OBVIOUS
    <3>2. e \in Elems(t) /\ e.port_id = p /\ e.queue_id \in Nat
          /\ e = [port_id |-> e.port_id, queue_id |-> e.queue_id]
      BY <1>5, PairFacts
    <3>3. e.queue_id < n
      BY <1>6, <1>8, <3>2
    <3>4. e.queue_id \in S
      BY <2>1, <3>2, <3>3
    <3> QED
      BY <3>2, <3>4
  <2> HIDE DEF f, T
  <2>6. f \in Bijection(S, T)
    <3> HIDE DEF S
    <3>1. f \in Injection(S, T)
      BY <2>3, <2>4 DEF Injection, IsInjective
    <3>2. f \in Surjection(S, T)
      BY <2>4, <2>5 DEF Surjection
    <3> QED
      BY <3>1, <3>2 DEF Bijection
  <2>7. IsFiniteSet(S) /\ Cardinality(S) = n
    <3>1. 0 \in Int /\ n - 1 \in Int
      BY <2>1
    <3> HIDE DEF n
    <3>2. IsFiniteSet(0..n - 1) /\ Cardinality(0..n - 1) = IF 0 > n - 1 THEN 0 ELSE (n - 1) - 0 + 1
      BY <3>1, FS_Interval
    <3> QED
      BY <2>1, <3>2
  <2>8. Cardinality(T) = Cardinality(S)
    <3> HIDE DEF S
    <3> QED
      BY <2>6, <2>7, FS_Bijection DEF ExistsBijection
  <2> QED
    BY <2>7, <2>8 DEF T
<1> QED
  BY <1>1, <1>6, <1>7, <1>8 DEF end

(* What rib_check() decides and computes of a configuration.               *)
LEMMA RibCheckFacts ==
  ASSUME NEW qc \in Qconf
  PROVE  LET chk == rib_check(qc)
         IN  /\ chk.ret = 0 <=> Ordered(qc)
             /\ chk.ret = 0 => \A p \in Ports : chk.port_nrxq[p] = PortNrxq(qc, p)
             /\ chk.ntxq = Ntxq(qc)
<1> DEFINE all == Collected(qc)[LcoreCount]
           s == all.port_qconf
           t == qsort(s)
           end == CountLoop(t)[Len(t)]
           chk == rib_check(qc)
<1>1. LcoreCount \in Nat /\ LcoreCount > 0 /\ ActiveLcores = 0..LcoreCount - 1
  BY QueueConfAssumption DEF ActiveLcores
<1>2. all \in Collection /\ CollectedBelow(all, qc, LcoreCount)
  <2>1. LcoreCount \in 0..LcoreCount
    BY <1>1
  <2> QED
    BY <2>1, CollectedIs, CollectedAll
<1>3. s \in Seq(PortQueue) /\ all.max_lcore \in Nat
  BY <1>2 DEF Collection
<1>4. /\ t \in Seq(PortQueue) /\ Len(t) = Len(s)
      /\ Elems(t) = Elems(s)
      /\ Once(t) <=> Once(s)
      /\ \A i, j \in 1..Len(t) : i < j => ~port_qconf_compare(t[j], t[i])
  <2> HIDE DEF s
  <2> QED
    BY <1>3, QsortFacts
<1>5. chk.ret = end.ret /\ chk.port_nrxq = end.port_nrxq /\ chk.ntxq = all.max_lcore + 1
  <2>1. rib_check(qc) = [ret |-> CountLoop(t)[Len(s)].ret,
                         port_nrxq |-> CountLoop(t)[Len(s)].port_nrxq,
                         ntxq |-> all.max_lcore + 1]
    BY DEF rib_check
  <2>2. Len(t) = Len(s)
    BY <1>4
  <2> HIDE DEF t, s, all
  <2> QED
    BY <2>1, <2>2
<1> HIDE DEF all, t
<1>6. /\ end.ret = 0 <=> Once(t) /\ Closed(Elems(t))
      /\ end.ret = 0 => \A p \in Ports :
           end.port_nrxq[p] = Cardinality({pq \in Elems(t) : pq.port_id = p})
  BY <1>4, LoopFacts
<1> HIDE DEF end, chk
<1>7. Elems(s) = RxQueues(qc)
  <2>1. \A e : e \in Elems(s) <=> \E l \in 0..LcoreCount - 1 : e \in Elems(qc[l])
    BY <1>2 DEF CollectedBelow
  <2>2. \A e : e \in RxQueues(qc) <=> \E l \in 0..LcoreCount - 1 : e \in Elems(qc[l])
    BY <1>1 DEF RxQueues
  <2> QED
    BY <2>1, <2>2
<1>8. Once(s) <=> NamedOnce(qc)
  <2>1. Once(s) <=> OnceBelow(qc, LcoreCount)
    BY <1>2 DEF CollectedBelow
  <2>2. ASSUME OnceBelow(qc, LcoreCount) PROVE NamedOnce(qc)
    <3>1. SUFFICES ASSUME NEW l \in ActiveLcores, NEW m \in ActiveLcores,
                          NEW i \in 1..Len(qc[l]), NEW j \in 1..Len(qc[m]), qc[l][i] = qc[m][j]
                   PROVE  l = m /\ i = j
      BY DEF NamedOnce
    <3>2. qc[l][i] \in Elems(qc[l]) /\ qc[l][i] \in Elems(qc[m])
      BY <3>1 DEF Elems
    <3>3. l = m
      BY <1>1, <2>2, <3>2 DEF OnceBelow
    <3> QED
      BY <1>1, <2>2, <3>1, <3>3 DEF OnceBelow, Once
  <2>3. ASSUME NamedOnce(qc) PROVE OnceBelow(qc, LcoreCount)
    <3>1. \A l \in ActiveLcores : Once(qc[l])
      BY <2>3 DEF NamedOnce, Once
    <3>2. ASSUME NEW l \in ActiveLcores, NEW m \in ActiveLcores, l # m
          PROVE  Elems(qc[l]) \cap Elems(qc[m]) = {}
      BY <2>3, <3>2 DEF NamedOnce, Elems
    <3> QED
      BY <1>1, <3>1, <3>2 DEF OnceBelow
  <2> QED
    BY <2>1, <2>2, <2>3
<1>9. Ordered(qc) <=> NamedOnce(qc) /\ Closed(RxQueues(qc))
  BY DEF Ordered, Closed
<1>10. chk.ret = 0 <=> Ordered(qc)
  BY <1>4, <1>5, <1>6, <1>7, <1>8, <1>9
<1>11. chk.ret = 0 => \A p \in Ports : chk.port_nrxq[p] = PortNrxq(qc, p)
  BY <1>4, <1>5, <1>6, <1>7 DEF PortNrxq
<1>12. chk.ntxq = Ntxq(qc)
  <2> DEFINE M == all.max_lcore
             S == {m \in ActiveLcores :
                     m = 0 \/ \E l \in ActiveLcores : m <= l /\ qc[l] # << >>}
  <2>1. /\ M \in Nat
        /\ M # 0 => M \in 0..LcoreCount - 1 /\ qc[M] # << >>
        /\ \A l \in 0..LcoreCount - 1 : qc[l] # << >> => l <= M
    BY <1>2, <1>3 DEF CollectedBelow
  <2> HIDE DEF M
  <2>2. ASSUME NEW m \in S PROVE m \in 0..M
    <3>1. m \in Nat
      BY <1>1
    <3>2. CASE m = 0
      BY <2>1, <3>2
    <3>3. CASE \E l \in ActiveLcores : m <= l /\ qc[l] # << >>
      <4>1. PICK l \in 0..LcoreCount - 1 : m <= l /\ qc[l] # << >>
        BY <1>1, <3>3
      <4>2. l <= M
        BY <2>1, <4>1
      <4> QED
        BY <1>1, <2>1, <3>1, <4>1, <4>2
    <3> QED
      BY <3>2, <3>3
  <2>3. ASSUME NEW m \in 0..M PROVE m \in S
    <3>1. m \in 0..LcoreCount - 1
      BY <1>1, <2>1
    <3>2. CASE m = 0
      BY <1>1, <3>1, <3>2
    <3>3. CASE m # 0
      <4>1. M # 0 /\ m <= M
        BY <2>1, <3>3
      <4> QED
        BY <1>1, <2>1, <3>1, <4>1
    <3> QED
      BY <3>2, <3>3
  <2>4. S = 0..M
    <3> HIDE DEF S
    <3> QED
      BY <2>2, <2>3
  <2>5. Cardinality(0..M) = M + 1
    <3>1. 0 \in Int /\ M \in Int
      BY <2>1
    <3>2. Cardinality(0..M) = IF 0 > M THEN 0 ELSE M - 0 + 1
      BY <3>1, FS_Interval
    <3> QED
      BY <2>1, <3>2
  <2>6. Ntxq(qc) = Cardinality(S)
    BY DEF Ntxq
  <2> HIDE DEF S
  <2> QED
    BY <1>5, <2>4, <2>5, <2>6 DEF M
<1> QED
  BY <1>10, <1>11, <1>12 DEF chk

(* The sorting and counting of rib_check() accept just the configurations  *)
(* in which each port's queues are 0..n-1, each named once, and dimension  *)
(* the ports as the declarative definitions say, for every number of       *)
(* lcores, ports and queues and after any sequence of commands.            *)
THEOREM CheckOrders == Spec => []CheckIsOrdered
<1> DEFINE Typed == thread_qconf \in Qconf /\ rib_qconf \in Qconf
<1>1. Init => Typed
  BY DEF Init, NoQueues, Qconf
<1>2. Typed /\ TableConsistent /\ [Next]_vars => Typed'
  <2>1. SUFFICES ASSUME Typed, TableConsistent, [Next]_vars PROVE Typed'
    OBVIOUS
  <2>2. ASSUME NEW l \in Lcores, NEW pq \in PortQueue, SetThread(l, pq) PROVE Typed'
    <3>1. GoodTable(thread_qconf)
      <4>1. Apart(thread_qconf)
        BY <2>1 DEF Apart, TableConsistent, Elems
      <4>2. \A m \in Lcores : Once(thread_qconf[m])
        BY <2>1 DEF Once, TableConsistent
      <4> QED
        BY <2>1, <4>1, <4>2 DEF GoodTable, TableConsistent
    <3>2. GoodTable(set_thread_lcore_port_queue(thread_qconf, l, pq))
      BY <3>1, SetThreadKeeps
    <3> QED
      BY <2>1, <2>2, <3>2 DEF SetThread, GoodTable
  <2>3. CASE Process
    BY <2>1, <2>3 DEF Process, Candidate, MergeQconf, Qconf
  <2>4. CASE UNCHANGED vars
    BY <2>1, <2>4 DEF vars
  <2> QED
    BY <2>1, <2>2, <2>3, <2>4 DEF Next
<1>3. Typed => CheckIsOrdered
  <2>1. SUFFICES ASSUME Typed PROVE CheckIsOrdered
    OBVIOUS
  <2>2. Candidate \in Qconf
    BY <2>1 DEF Candidate, MergeQconf, Qconf
  <2> QED
    BY <2>2, RibCheckFacts DEF CheckIsOrdered
<1>4. Spec => []TableConsistent
  BY TableStaysConsistent
<1> HIDE DEF Typed
<1> QED
  BY <1>1, <1>2, <1>3, <1>4, PTL DEF Spec
=============================================================================
