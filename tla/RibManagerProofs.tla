-------------------------- MODULE RibManagerProofs --------------------------
(***************************************************************************)
(* RibManager for every number of workers, ports, queues, ribs, commands   *)
(* and managers: what userspace RCU and the zero rib guarantee.            *)
(***************************************************************************)
EXTENDS RibManager, FiniteSetTheorems, SequenceTheorems, TLAPS

-----------------------------------------------------------------------------
(* What the operators of QueueConf return, for every configuration.        *)

(* Taking a pair out of a list leaves a list of pairs.                     *)
LEMMA WithoutType ==
  ASSUME NEW s \in Seq(PortQueue), NEW pq
  PROVE  Without(s, pq) \in Seq(PortQueue)
<1>1. CASE pq \notin Elems(s)
  BY <1>1 DEF Without
<1>2. CASE pq \in Elems(s)
  <2> DEFINE j == CHOOSE k \in 1..Len(s) : s[k] = pq
             t == [i \in 1..Len(s) - 1 |-> IF i < j THEN s[i] ELSE s[i + 1]]
  <2>1. j \in 1..Len(s)
    BY <1>2 DEF Elems
  <2>2. Len(s) - 1 \in Nat
    BY <2>1
  <2>3. \A i \in 1..Len(s) - 1 : t[i] \in PortQueue
    BY <2>1
  <2>4. t \in Seq(PortQueue)
    BY <2>2, <2>3
  <2> QED
    BY <1>2, <2>4 DEF Without
<1> QED
  BY <1>1, <1>2

(* The shell command maps configurations to configurations.                *)
LEMMA SetThreadType ==
  ASSUME NEW qc \in Qconf, NEW lcore \in Lcores, NEW pq \in PortQueue
  PROVE  set_thread_lcore_port_queue(qc, lcore, pq) \in Qconf
<1>1. ASSUME NEW l \in Lcores
      PROVE  /\ Without(qc[l], pq) \in Seq(PortQueue)
             /\ qc[l] \in Seq(PortQueue)
             /\ Append(qc[l], pq) \in Seq(PortQueue)
  BY WithoutType DEF Qconf
<1> QED
  BY <1>1 DEF set_thread_lcore_port_queue, Qconf

(* So does the merge of a QCONF message.                                   *)
LEMMA MergeType ==
  ASSUME NEW qc \in Qconf, NEW msg \in Qconf
  PROVE  MergeQconf(qc, msg) \in Qconf
BY DEF MergeQconf, Qconf

(* The empty configuration names no queue.                                 *)
LEMMA NoQueuesFacts == NoQueues \in Qconf /\ NamedOnce(NoQueues)
BY QueueConfAssumption DEF NoQueues, Qconf, NamedOnce, Lcores, ActiveLcores

(* Queues collected from a configuration are pairs of existing ports.      *)
LEMMA RxQueuesType ==
  ASSUME NEW qc \in Qconf
  PROVE  RxQueues(qc) \subseteq PortQueue
BY QueueConfAssumption DEF RxQueues, Elems, Qconf, ActiveLcores, Lcores

(* There are finitely many (port, queue) pairs.                           *)
LEMMA PortQueueFinite == IsFiniteSet(PortQueue)
<1> DEFINE P == Ports \X (0..NQueues - 1)
           f == [x \in P |-> [port_id |-> x[1], queue_id |-> x[2]]]
<1>1. IsFiniteSet(P)
  <2>1. 0 \in Int /\ NPorts - 1 \in Int /\ NQueues - 1 \in Int
    BY QueueConfAssumption
  <2>2. IsFiniteSet(0..NPorts - 1) /\ IsFiniteSet(0..NQueues - 1)
    BY <2>1, FS_Interval
  <2> QED BY <2>2, FS_Product DEF Ports
<1>2. f \in Surjection(P, PortQueue)
  <2>1. f \in [P -> PortQueue]
    BY DEF PortQueue
  <2>2. ASSUME NEW y \in PortQueue PROVE \E x \in P : f[x] = y
    <3>1. <<y.port_id, y.queue_id>> \in P
      BY DEF PortQueue
    <3>2. f[<<y.port_id, y.queue_id>>] = y
      BY <3>1 DEF PortQueue
    <3> QED BY <3>1, <3>2
  <2> QED BY <2>1, <2>2 DEF Surjection
<1> QED
  BY <1>1, <1>2, FS_Surjection

(* A port is configured with a natural number of rx queues.                *)
LEMMA PortNrxqType ==
  ASSUME NEW qc \in Qconf, NEW p
  PROVE  PortNrxq(qc, p) \in Nat
<1> DEFINE S == {pq \in RxQueues(qc) : pq.port_id = p}
<1>1. S \subseteq PortQueue
  BY RxQueuesType
<1>2. IsFiniteSet(S)
  BY <1>1, PortQueueFinite, FS_Subset
<1> QED
  BY <1>2, FS_CardinalityType DEF PortNrxq

(* No port gets more tx queues than there are lcores, and every lcore with *)
(* an rx queue gets one.                                                   *)
LEMMA NtxqFacts ==
  ASSUME NEW qc \in Qconf
  PROVE  /\ Ntxq(qc) \in Nat
         /\ 0..Ntxq(qc) - 1 \subseteq Lcores
         /\ \A w \in ActiveLcores : qc[w] # << >> => w < Ntxq(qc)
<1> DEFINE S == {m \in ActiveLcores :
                   m = 0 \/ \E l \in ActiveLcores : m <= l /\ qc[l] # << >>}
<1>1. /\ IsFiniteSet(ActiveLcores)
      /\ Cardinality(ActiveLcores) = LcoreCount
  <2>1. 0 \in Int /\ LcoreCount - 1 \in Int /\ ~(0 > LcoreCount - 1)
        /\ (LcoreCount - 1) - 0 + 1 = LcoreCount
    BY QueueConfAssumption
  <2> QED BY <2>1, FS_Interval DEF ActiveLcores
<1>2. /\ IsFiniteSet(S)
      /\ Cardinality(S) \in Nat
      /\ Cardinality(S) <= LcoreCount
  BY <1>1, FS_Subset, FS_CardinalityType
<1>3. ASSUME NEW w \in ActiveLcores, qc[w] # << >>
      PROVE  w < Cardinality(S)
  <2>1. 0..w \subseteq S
    BY <1>3, QueueConfAssumption DEF ActiveLcores
  <2>2. w \in Int /\ 0 \in Int /\ ~(0 > w) /\ w - 0 + 1 = w + 1
    BY QueueConfAssumption DEF ActiveLcores
  <2>3. Cardinality(0..w) = w + 1
    BY <2>2, FS_Interval
  <2>4. Cardinality(0..w) <= Cardinality(S)
    BY <1>2, <2>1, FS_Subset
  <2> QED BY <1>2, <2>2, <2>3, <2>4
<1>4. \A n \in Nat : n <= LcoreCount => 0..n - 1 \subseteq Lcores
  BY QueueConfAssumption DEF Lcores
<1> QED
  BY <1>2, <1>3, <1>4 DEF Ntxq

-----------------------------------------------------------------------------
(* Where the manager waits for the workers, and where it has a rib in hand. *)
Syncing == mpc \in {"sync_zero", "sync_new"}
Building == mpc \in {"dev_stop", "dev_start", "zero", "sync_zero", "publish"}

(* Who owns which rib at every point of rib_manager_process_message().     *)
Ownership ==
  /\ ptr # NULL => ptr \in live
  /\ IF Building THEN new \in live /\ new # ptr ELSE new = NULL
  /\ IF Syncing THEN old \in live /\ old # ptr /\ old # new ELSE old = NULL

(* A worker holds the published rib, or the replaced one while the grace   *)
(* period still waits for it.                                              *)
Readers ==
  \A w \in Workers :
    /\ wpc[w] # "read" => held[w] = NULL
    /\ held[w] \in {NULL, ptr} \/ (held[w] = old /\ w \in gp)

(* Inductive: type correctness with ownership and readers.                 *)
RcuInv == TypeOK /\ Ownership /\ Readers

-----------------------------------------------------------------------------
(* A prefix of a sequence is a sequence of the same elements, also when    *)
(* its length is given as zero or less.                                    *)
LEMMA PrefixType ==
  ASSUME NEW S, NEW s \in Seq(S), NEW k \in Int, k <= Len(s)
  PROVE  SubSeq(s, 1, k) \in Seq(S) /\ Len(SubSeq(s, 1, k)) <= Len(s)
<1>1. CASE k >= 1
  <2>1. SubSeq(s, 1, k) = [i \in 1..k |-> s[i]]
    BY <1>1
  <2> QED BY <1>1, <2>1
<1>2. CASE k < 1
  <2>1. SubSeq(s, 1, k) = << >>
    BY <1>2
  <2> QED BY <2>1
<1> QED BY <1>1, <1>2

(* The messages taken by the ring join those in it.                        *)
LEMMA SendType ==
  ASSUME NEW msgs \in Seq(Messages), RibManagerAssumption,
         msg_queue \in Seq(Messages), lost \in BOOLEAN,
         internal_msg_send_to(msgs)
  PROVE  msg_queue' \in Seq(Messages) /\ lost' \in BOOLEAN
<1> DEFINE room == IF ring = "up" THEN MsgRingSize - Len(msg_queue) ELSE 0
           taken == IF Len(msgs) <= room THEN Len(msgs) ELSE room
<1>1. taken \in Int /\ taken <= Len(msgs)
  BY DEF RibManagerAssumption
<1>2. SubSeq(msgs, 1, taken) \in Seq(Messages)
  BY <1>1, PrefixType
<1>3. msg_queue' = msg_queue \o SubSeq(msgs, 1, taken)
  BY DEF internal_msg_send_to
<1>4. lost' = (lost \/ taken < Len(msgs))
  BY DEF internal_msg_send_to
<1>5. msg_queue' \in Seq(Messages)
  BY <1>2, <1>3
<1> QED BY <1>4, <1>5

(* A rib of zeros is a rib.                                                *)
LEMMA ZeroRibType == ZeroRib \in RibContents
BY NoQueuesFacts DEF ZeroRib, RibContents, NoDesc, Desc

(* The copy that rib_create() makes is a rib.                              *)
LEMMA RibCreateType ==
  ASSUME TypeOK
  PROVE  rib_create(ptr) \in RibContents
<1> DEFINE base == IF ptr = NULL THEN ZeroRib ELSE rib[ptr]
<1>1. base \in RibContents
  BY ZeroRibType DEF TypeOK
<1>2. [base EXCEPT !.rib_info = TRUE, !.ver = base.ver + 1] \in RibContents
  <2> HIDE DEF base
  <2> DEFINE b == [base EXCEPT !.rib_info = TRUE]
  <2>1. b \in RibContents
    BY <1>1 DEF RibContents
  <2>2. [base EXCEPT !.rib_info = TRUE, !.ver = base.ver + 1] =
        [b EXCEPT !.ver = base.ver + 1]
    BY <1>1 DEF RibContents
  <2>3. base.ver + 1 \in Nat
    BY <1>1 DEF RibContents
  <2>4. [b EXCEPT !.ver = base.ver + 1] \in RibContents
    <3> HIDE DEF b
    <3> QED BY <2>1, <2>3 DEF RibContents
  <2> QED BY <2>2, <2>4
<1> QED BY <1>2 DEF rib_create

(* So is that copy with the update of the message.                         *)
LEMMA ReceiveType ==
  ASSUME TypeOK, NEW msg \in Messages
  PROVE  Updated(rib_create(ptr), msg) \in RibContents
<1> DEFINE r == rib_create(ptr)
<1>1. r \in RibContents
  BY RibCreateType
<1>2. CASE msg.type = "PORT_STATUS"
  <2>1. [p \in Ports |-> dev[p].nrxq] \in [Ports -> Nat]
    BY DEF TypeOK, Device
  <2> QED BY <1>1, <1>2, <2>1 DEF Updated, RibContents
<1>3. CASE msg.type = "ETH_LINK"
  BY <1>1, <1>3 DEF Updated
<1>4. CASE msg.type = "QCONF"
  <2>1. msg.qconf \in Qconf
    BY <1>4 DEF Messages
  <2>2. MergeQconf(r.lcore_qconf, msg.qconf) \in Qconf
    BY <1>1, <2>1, MergeType DEF RibContents
  <2> QED BY <1>1, <1>4, <2>2 DEF Updated, RibContents
<1>5. CASE msg.type = "TXRX_DESC"
  <2>1. msg.portid \in Ports /\ msg.desc \in Desc
    BY <1>5 DEF Messages
  <2> QED BY <1>1, <1>5, <2>1 DEF Updated, RibContents
<1> QED
  BY <1>2, <1>3, <1>4, <1>5 DEF Messages
-----------------------------------------------------------------------------
(* What a shell command leaves alone.                                      *)
LEMMA CommandFacts ==
  ASSUME NEW name, TypeOK, Command(name)
  PROVE  /\ sent' \in Nat /\ mpc = "idle"
         /\ UNCHANGED <<managers, started, ring, mpc, new, old, nextport, ptr,
                        live, rib, dev, tx_buffer, rings, gp, force_quit,
                        force_stop, wpc, held, idx, verb, todo, leaked>>
BY DEF Command, TypeOK, main_vars, rib_vars, dev_vars, worker_vars

(* The messages of the shell commands are messages.                        *)
LEMMA CommandMessages ==
  /\ \A qc \in Qconf : <<[type |-> "QCONF", qconf |-> qc]>> \in Seq(Messages)
  /\ <<[type |-> "PORT_STATUS"]>> \in Seq(Messages)
  /\ <<[type |-> "ETH_LINK"]>> \in Seq(Messages)
BY DEF Messages

(* So are those of "set port P nrxdesc N" and of its variant for all ports.*)
LEMMA DescMessages ==
  ASSUME TypeOK, RibManagerAssumption, NEW first \in Ports, NEW last \in Ports,
         first <= last, NEW which, NEW val \in Nat
  PROVE  DescMsgs(first, last, which, val) \in Seq(Messages)
<1>1. ASSUME NEW d \in Desc
      PROVE  SetField(d, which, val) \in Desc
  BY DEF SetField, Desc
<1>2. ASSUME NEW p \in Ports
      PROVE  CurrentDesc(p) \in Desc
  <2> DEFINE cur == IF ptr # NULL THEN rib[ptr].desc[p] ELSE NoDesc[p]
  <2>1. cur \in Desc
    BY DEF TypeOK, RibContents, NoDesc, Desc
  <2>2. DescDefault \in Nat
    BY DEF RibManagerAssumption
  <2> HIDE DEF cur
  <2>3. [nb_rxd |-> IF cur.nb_rxd = 0 THEN DescDefault ELSE cur.nb_rxd,
         nb_txd |-> IF cur.nb_txd = 0 THEN DescDefault ELSE cur.nb_txd] \in Desc
    BY <2>1, <2>2 DEF Desc
  <2> QED BY <2>3 DEF CurrentDesc, cur
<1>3. ASSUME NEW i \in 1..last - first + 1
      PROVE  first + i - 1 \in Ports
  BY QueueConfAssumption DEF Ports
<1>4. \A p \in Ports :
        [type |-> "TXRX_DESC", portid |-> p,
         desc |-> SetField(CurrentDesc(p), which, val)] \in Messages
  BY <1>1, <1>2 DEF Messages
<1>5. last - first + 1 \in Nat
  BY QueueConfAssumption DEF Ports
<1> QED BY <1>3, <1>4, <1>5 DEF DescMsgs
(* A shell command keeps the types.                                        *)
LEMMA ShellType ==
  ASSUME RibManagerAssumption, TypeOK, Shell
  PROVE  TypeOK'
<1>1. ASSUME NEW l \in Lcores, NEW pq \in PortQueue, SetThreadQueue(l, pq)
      PROVE  TypeOK'
  <2>1. thread_qconf' \in Qconf
    BY <1>1, SetThreadType DEF SetThreadQueue, TypeOK
  <2>2. msg_queue' \in Seq(Messages) /\ lost' \in BOOLEAN
    BY <1>1, <2>1, CommandMessages, SendType DEF SetThreadQueue, TypeOK
  <2> QED
    BY <1>1, <2>1, <2>2, CommandFacts DEF SetThreadQueue, TypeOK
<1>2. ASSUME UpdatePortStatus PROVE TypeOK'
  <2>1. msg_queue' \in Seq(Messages) /\ lost' \in BOOLEAN
    BY <1>2, CommandMessages, SendType DEF UpdatePortStatus, TypeOK
  <2> QED BY <1>2, <2>1, CommandFacts DEF UpdatePortStatus, TypeOK
<1>3. ASSUME UpdatePortLinkStatus PROVE TypeOK'
  <2>1. msg_queue' \in Seq(Messages) /\ lost' \in BOOLEAN
    BY <1>3, CommandMessages, SendType DEF UpdatePortLinkStatus, TypeOK
  <2> QED BY <1>3, <2>1, CommandFacts DEF UpdatePortLinkStatus, TypeOK
<1>4. ASSUME NEW first \in Ports, NEW last \in Ports, first <= last,
             NEW f, NEW v \in DescValues, SetPortDesc(first, last, f, v)
      PROVE  TypeOK'
  <2>1. v \in Nat
    BY DEF RibManagerAssumption
  <2>2. msg_queue' \in Seq(Messages) /\ lost' \in BOOLEAN
    BY <1>4, <2>1, DescMessages, SendType DEF SetPortDesc, TypeOK
  <2> QED BY <1>4, <2>2, CommandFacts DEF SetPortDesc, TypeOK
<1>5. /\ 0 \in Ports /\ NPorts - 1 \in Ports /\ 0 <= NPorts - 1
      /\ \A p \in Ports : p <= p
  BY QueueConfAssumption DEF Ports
<1> QED
  BY <1>1, <1>2, <1>3, <1>4, <1>5 DEF Shell

(* The start and the end of a rib_manager lthread keep the types.          *)
LEMMA LthreadType ==
  ASSUME TypeOK, RibManagerStart \/ RibManagerExit
  PROVE  TypeOK'
<1>1. << >> \in Seq(Messages)
  OBVIOUS
<1>2. CASE RibManagerStart
  BY <1>1, <1>2 DEF RibManagerStart, DropMessages, TypeOK, main_vars, rib_vars,
                    worker_vars
<1>3. CASE RibManagerExit
  BY <1>1, <1>3 DEF RibManagerExit, DropMessages, TypeOK, main_vars, rib_vars,
                    dev_vars, worker_vars
<1> QED BY <1>1, <1>2, <1>3

(* What every received message does.                                       *)
LEMMA ReceiveFacts ==
  ASSUME TypeOK, NEW id \in RibIds, Receive(id)
  PROVE  /\ msg_queue' \in Seq(Messages)
         /\ mpc = "idle" /\ id \notin live
         /\ live' = live \union {id}
         /\ rib' = [rib EXCEPT ![id] = Updated(rib_create(ptr), msgp)]
         /\ msgp \in Messages
         /\ rib' \in [RibIds -> RibContents]
         /\ UNCHANGED <<thread_qconf, managers, started, ring, old, ptr, dev,
                        tx_buffer, rings, gp, force_quit, force_stop, wpc,
                        held, idx, verb, todo, sent, lost>>
<1>1. msgp \in Messages /\ msg_queue' \in Seq(Messages)
  BY DEF Receive, TypeOK, msgp
<1>2. Updated(rib_create(ptr), msgp) \in RibContents
  BY <1>1, ReceiveType
<1>3. rib' \in [RibIds -> RibContents]
  BY <1>2 DEF Receive, TypeOK
<1> QED
  BY <1>1, <1>3 DEF Receive, dev_vars, worker_vars

(* The rib manager's steps keep the types.                                 *)
LEMMA ManagerType ==
  ASSUME RibManagerAssumption, RcuInv, Manager
  PROVE  TypeOK'
<1> USE DEF RcuInv
<1>1. CASE RibManagerExit
  BY <1>1, LthreadType
<1>2. ASSUME NEW id \in RibIds, ProcessUpdate(id) PROVE TypeOK'
  <2>1. Receive(id) BY <1>2 DEF ProcessUpdate
  <2> QED BY <1>2, <2>1, ReceiveFacts DEF ProcessUpdate, TypeOK
<1>3. ASSUME NEW id \in RibIds, RefuseQconf(id) PROVE TypeOK'
  <2>1. Receive(id) BY <1>3 DEF RefuseQconf
  <2>2. qconf_stale' \in BOOLEAN BY <1>3 DEF RefuseQconf, TypeOK
  <2>3. leaked' \subseteq RibIds BY <1>3 DEF RefuseQconf, TypeOK
  <2>4. UNCHANGED <<mpc, new, nextport>> BY <1>3 DEF RefuseQconf
  <2> QED BY <2>1, <2>2, <2>3, <2>4, ReceiveFacts DEF TypeOK
<1>4. ASSUME NEW id \in RibIds, AcceptQconf(id) PROVE TypeOK'
  <2>1. Receive(id) BY <1>4 DEF AcceptQconf
  <2>2. 0 \in Ports BY QueueConfAssumption DEF Ports
  <2>3. /\ mpc' = "dev_stop" /\ new' = id /\ nextport' = 0
        /\ UNCHANGED <<leaked, qconf_stale>>
    BY <1>4 DEF AcceptQconf
  <2> QED BY <2>1, <2>2, <2>3, ReceiveFacts DEF TypeOK
<1>5. CASE DevStop
  <2>1. dev' \in [Ports -> Device]
    <3>1. dev \in [Ports -> Device] /\ nextport \in Ports
      BY DEF TypeOK
    <3>2. [dev[nextport] EXCEPT !.started = FALSE] \in Device
      BY <3>1 DEF Device
    <3> QED BY <1>5, <3>1, <3>2 DEF DevStop
  <2> QED
    BY <1>5, <2>1 DEF DevStop, TypeOK, shell_vars, rib_vars, worker_vars, ghost_vars
<1>6. CASE DevStart
  <2> DEFINE qc == rib[new].lcore_qconf
  <2>1. qc \in Qconf
    BY <1>6 DEF DevStart, TypeOK, Ownership, Building, RibContents
  <2>2. PortNrxq(qc, nextport) \in Nat /\ Ntxq(qc) \in Nat
        /\ 0..Ntxq(qc) - 1 \subseteq Lcores
    BY <2>1, PortNrxqType, NtxqFacts
  <2>3. UNION {Elems(qc[l]) : l \in Lcores} \subseteq PortQueue
    BY <2>1 DEF Qconf, Elems
  <2>4. dev' \in [Ports -> Device]
    BY <1>6, <2>2 DEF DevStart, TypeOK, Device
  <2>5. tx_buffer' \in [Ports -> SUBSET Lcores]
    BY <1>6, <2>2 DEF DevStart, TypeOK
  <2>6. rings' \subseteq PortQueue
    BY <1>6, <2>3 DEF DevStart, TypeOK, TapRings
  <2>7. nextport' \in Ports /\ mpc' \in {"zero", "dev_stop"}
    BY <1>6, QueueConfAssumption DEF DevStart, TypeOK, Ports
  <2>8. UNCHANGED <<shell_vars, new, old, rib_vars, gp, worker_vars, ghost_vars>>
    BY <1>6 DEF DevStart
  <2> HIDE DEF qc
  <2> QED
    BY <2>4, <2>5, <2>6, <2>7, <2>8
    DEF TypeOK, shell_vars, rib_vars, worker_vars, ghost_vars
<1>7. ASSUME NEW id \in RibIds, PublishZero(id) PROVE TypeOK'
  <2>1. rib' \in [RibIds -> RibContents]
    BY <1>7, ZeroRibType DEF PublishZero, TypeOK
  <2>2. /\ live' \subseteq RibIds /\ ptr' \in RibIds
        /\ mpc' \in {"sync_zero", "publish"}
        /\ old' \in RibIds \union {NULL}
        /\ gp' \subseteq Workers
    BY <1>7 DEF PublishZero, rib_replace, TypeOK, Registered
  <2>3. UNCHANGED <<shell_vars, new, nextport, dev_vars, worker_vars, ghost_vars>>
    BY <1>7 DEF PublishZero
  <2> QED
    BY <2>1, <2>2, <2>3
    DEF TypeOK, shell_vars, dev_vars, worker_vars, ghost_vars
<1>8. CASE NoZero
  BY <1>8 DEF NoZero, TypeOK, shell_vars, rib_vars, dev_vars, worker_vars, ghost_vars
<1>9. CASE PublishNew
  BY <1>9 DEF PublishNew, rib_replace, Registered, TypeOK, shell_vars, dev_vars,
              worker_vars, ghost_vars
<1>10. CASE Reclaim
  <2>1. rib' \in [RibIds -> RibContents]
    BY <1>10, ZeroRibType DEF Reclaim, TypeOK
  <2> QED
    BY <1>10, <2>1 DEF Reclaim, TypeOK, shell_vars, dev_vars, worker_vars, ghost_vars
<1> QED
  BY <1>1, <1>2, <1>3, <1>4, <1>5, <1>6, <1>7, <1>8, <1>9, <1>10 DEF Manager
(* A worker's steps touch nothing but the worker and the grace period.     *)
WorkerFrame ==
  UNCHANGED <<shell_vars, main_vars, rib_vars, dev_vars, force_quit, force_stop,
              ghost_vars>>

(* Of a worker only its own entries change, and of the grace period only   *)
(* its own membership.                                                     *)
LEMMA WorkerSteps ==
  ASSUME TypeOK, NEW w \in Workers, Worker(w)
  PROVE  /\ WorkerFrame
         /\ wpc' \in [Workers -> {"wait", "launched", "top", "read"}]
         /\ held' \in [Workers -> RibIds \union {NULL}]
         /\ idx' \in [Workers -> Nat]
         /\ gp' \in {gp, gp \ {w}}
         /\ \A v \in Workers \ {w} :
              wpc'[v] = wpc[v] /\ held'[v] = held[v] /\ idx'[v] = idx[v]
         /\ \/ held' = held /\ gp' = gp /\ (wpc[w] = "read" <=> wpc'[w] = "read")
            \/ wpc[w] = "top" /\ wpc'[w] = "read" /\ held'[w] = ptr /\ gp' = gp
            \/ wpc[w] = "read" /\ wpc'[w] = "top" /\ held'[w] = NULL
            \/ wpc[w] = "top" /\ wpc'[w] = "wait" /\ held' = held
<1> USE DEF WorkerFrame, TypeOK
<1>1. CASE Return(w)
  BY <1>1 DEF Return
<1>2. CASE Register(w)
  BY <1>2 DEF Register
<1>3. CASE ReadLock(w)
  BY <1>3 DEF ReadLock
<1>4. CASE ServeNext(w)
  BY <1>4 DEF ServeNext
<1>5. CASE Quiescent(w)
  BY <1>5 DEF Quiescent
<1>6. CASE Unregister(w)
  BY <1>6 DEF Unregister
<1> QED
  BY <1>1, <1>2, <1>3, <1>4, <1>5, <1>6 DEF Worker

(* Starting and stopping workers, and the signal.                          *)
Control == LcoreCommand \/ LcoreLoop \/ Sigterm

(* The main pthread is not in rib_manager_process_message().               *)
Outside == {"idle", "start_lcore", "stop_lcore", "wait_lcore"}

(* Worker control changes nothing that a reader of a rib looks at.         *)
LEMMA ControlSteps ==
  ASSUME TypeOK, Control
  PROVE  /\ UNCHANGED <<thread_qconf, managers, started, ring, msg_queue, new, old,
                        nextport, rib_vars, dev_vars, gp, held, idx, ghost_vars>>
         /\ mpc' = mpc \/ (mpc \in Outside /\ mpc' \in Outside)
         /\ verb' \in LcoreVerbs \union {"none"} /\ todo' \subseteq Controlled
         /\ force_quit' \in BOOLEAN
         /\ force_stop' \in [Controlled -> BOOLEAN]
         /\ wpc' \in [Workers -> {"wait", "launched", "top", "read"}]
         /\ \A w \in Workers : wpc'[w] = "read" <=> wpc[w] = "read"
<1> USE DEF TypeOK, Outside
<1>1. ASSUME NEW v \in LcoreVerbs, NEW S \in SUBSET Controlled, NEW q \in BOOLEAN,
             start_stop_worker(v, S, q)
      PROVE  /\ UNCHANGED <<thread_qconf, managers, started, ring, msg_queue, new,
                            old, nextport, rib_vars, dev_vars, gp, held, idx,
                            force_stop, wpc, ghost_vars>>
             /\ mpc \in Outside /\ mpc' \in Outside
             /\ verb' \in LcoreVerbs /\ todo' \subseteq Controlled
             /\ force_quit' \in BOOLEAN
  BY <1>1 DEF start_stop_worker
<1>2. CASE LcoreCommand
  BY <1>1, <1>2 DEF LcoreCommand
<1>3. CASE stop_lcore
  <2>1. force_stop' \in [Controlled -> BOOLEAN]
    BY <1>3, Zenon DEF stop_lcore
  <2> QED
    BY <1>3, <2>1 DEF stop_lcore, AfterStop, NextLcore, LcoreFrame
<1>4. CASE rte_eal_wait_lcore
  BY <1>4 DEF rte_eal_wait_lcore, AfterStop, NextLcore, LcoreFrame
<1>5. CASE start_lcore
  <2>1. force_stop' \in [Controlled -> BOOLEAN]
    BY <1>5, Zenon DEF start_lcore
  <2> QED
    BY <1>5, <2>1 DEF start_lcore, NextLcore, LcoreFrame
<1>6. CASE Sigterm
  BY <1>6 DEF Sigterm, shell_vars, main_vars
<1> QED
  BY <1>2, <1>3, <1>4, <1>5, <1>6 DEF Control, LcoreLoop

(* Next, grouped by who takes the step.                                    *)
LEMMA NextCases ==
  Next => \/ Shell
          \/ RibManagerStart
          \/ Manager
          \/ \E w \in Workers : Worker(w)
          \/ Control
BY DEF Next, Control

(* Every step keeps the types.                                             *)
LEMMA TypeStep ==
  ASSUME RibManagerAssumption, RcuInv, [Next]_vars
  PROVE  TypeOK'
<1> USE DEF RcuInv
<1>1. CASE Shell
  BY <1>1, ShellType
<1>2. CASE RibManagerStart
  BY <1>2, LthreadType
<1>3. CASE Manager
  BY <1>3, ManagerType
<1>4. ASSUME NEW w \in Workers, Worker(w)
      PROVE  TypeOK'
  <2>1. /\ WorkerFrame
        /\ wpc' \in [Workers -> {"wait", "launched", "top", "read"}]
        /\ held' \in [Workers -> RibIds \union {NULL}]
        /\ idx' \in [Workers -> Nat]
        /\ gp' \in {gp, gp \ {w}}
    BY <1>4, WorkerSteps
  <2>2. gp' \subseteq Workers
    BY <2>1 DEF TypeOK
  <2> QED
    BY <2>1, <2>2
    DEF TypeOK, WorkerFrame, shell_vars, main_vars, rib_vars, dev_vars, ghost_vars
<1>5. CASE Control
  BY <1>5, ControlSteps
  DEF TypeOK, Outside, rib_vars, dev_vars, ghost_vars
<1>6. CASE UNCHANGED vars
  BY <1>6 DEF TypeOK, vars, shell_vars, main_vars, rib_vars, dev_vars,
              worker_vars, ghost_vars
<1> QED
  BY <1>1, <1>2, <1>3, <1>4, <1>5, <1>6, NextCases
-----------------------------------------------------------------------------
(* What the steps of the shells, and the start and the end of a rib        *)
(* manager, leave alone.                                                   *)
LEMMA ShellSteps ==
  ASSUME TypeOK, Shell \/ RibManagerStart \/ RibManagerExit
  PROVE  UNCHANGED <<main_vars, rib_vars, gp, worker_vars, leaked>>
<1>1. CASE Shell
  BY <1>1 DEF Shell, SetThreadQueue, UpdatePortStatus, UpdatePortLinkStatus,
              SetPortDesc, Command
<1>2. CASE RibManagerStart
  BY <1>2 DEF RibManagerStart, DropMessages
<1>3. CASE RibManagerExit
  BY <1>3 DEF RibManagerExit, DropMessages
<1> QED BY <1>1, <1>2, <1>3

(* One step of process_message() keeps Ownership and Readers.              *)
LEMMA ManagerRcu ==
  ASSUME RibManagerAssumption, RcuInv, Manager
  PROVE  Ownership' /\ Readers'
<1> USE DEF RcuInv
<1>1. CASE RibManagerExit
  BY <1>1, ShellSteps
  DEF Ownership, Readers, Building, Syncing, main_vars, rib_vars, worker_vars
<1>2. ASSUME NEW id \in RibIds, ProcessUpdate(id) PROVE Ownership' /\ Readers'
  <2>1. Receive(id) /\ mpc' = "publish" /\ new' = id
    BY <1>2 DEF ProcessUpdate
  <2> QED
    BY <2>1, ReceiveFacts, RibManagerAssumption
    DEF Ownership, Readers, Building, Syncing, TypeOK, RibManagerAssumption
<1>3. ASSUME NEW id \in RibIds, RefuseQconf(id) PROVE Ownership' /\ Readers'
  <2>1. Receive(id) /\ UNCHANGED <<mpc, new>>
    BY <1>3 DEF RefuseQconf
  <2> QED
    BY <2>1, ReceiveFacts DEF Ownership, Readers, Building, Syncing
<1>4. ASSUME NEW id \in RibIds, AcceptQconf(id) PROVE Ownership' /\ Readers'
  <2>1. Receive(id) /\ mpc' = "dev_stop" /\ new' = id
    BY <1>4 DEF AcceptQconf
  <2> QED
    BY <2>1, ReceiveFacts DEF Ownership, Readers, Building, Syncing, TypeOK,
                              RibManagerAssumption
<1>5. CASE DevStop
  BY <1>5 DEF DevStop, Ownership, Readers, Building, Syncing, rib_vars, worker_vars
<1>6. CASE DevStart
  <2>1. mpc = "dev_start" /\ mpc' \in {"zero", "dev_stop"}
        /\ UNCHANGED <<new, old, rib_vars, gp, worker_vars>>
    BY <1>6 DEF DevStart
  <2> QED
    BY <2>1 DEF Ownership, Readers, Building, Syncing, rib_vars, worker_vars
<1>7. ASSUME NEW id \in RibIds, PublishZero(id) PROVE Ownership' /\ Readers'
  <2>1. /\ mpc = "zero" /\ id \notin live /\ live' = live \union {id}
        /\ ptr' = id /\ UNCHANGED <<new, wpc, held>>
        /\ IF ptr = NULL
           THEN mpc' = "publish" /\ UNCHANGED <<old, gp>>
           ELSE mpc' = "sync_zero" /\ old' = ptr /\ gp' = Registered
    BY <1>7 DEF PublishZero, rib_replace, worker_vars
  <2>2. Ownership'
    BY <2>1 DEF Ownership, Building, Syncing, TypeOK, RibManagerAssumption
  <2>3. Readers'
    BY <2>1 DEF Readers, Ownership, Building, Syncing, TypeOK, Registered
  <2> QED BY <2>2, <2>3
<1>8. CASE NoZero
  BY <1>8 DEF NoZero, Ownership, Readers, Building, Syncing, rib_vars, worker_vars
<1>9. CASE PublishNew
  <2>1. /\ mpc = "publish" /\ ptr' = new /\ new' = NULL
        /\ UNCHANGED <<live, wpc, held>>
        /\ IF ptr = NULL
           THEN mpc' = "idle" /\ UNCHANGED <<old, gp>>
           ELSE mpc' = "sync_new" /\ old' = ptr /\ gp' = Registered
    BY <1>9 DEF PublishNew, rib_replace, worker_vars
  <2>2. Ownership'
    BY <2>1 DEF Ownership, Building, Syncing, TypeOK, RibManagerAssumption
  <2>3. Readers'
    BY <2>1 DEF Readers, Ownership, Building, Syncing, TypeOK, Registered
  <2> QED BY <2>2, <2>3
<1>10. CASE Reclaim
  <2>1. /\ mpc \in {"sync_zero", "sync_new"} /\ gp = {} /\ live' = live \ {old}
        /\ old' = NULL /\ mpc' = IF mpc = "sync_zero" THEN "publish" ELSE "idle"
        /\ UNCHANGED <<new, ptr, gp, wpc, held>>
    BY <1>10 DEF Reclaim, worker_vars
  <2>2. Ownership'
    BY <2>1 DEF Ownership, Building, Syncing
  <2>3. Readers'
    BY <2>1 DEF Readers
  <2> QED BY <2>2, <2>3
<1> QED
  BY <1>1, <1>2, <1>3, <1>4, <1>5, <1>6, <1>7, <1>8, <1>9, <1>10 DEF Manager

(* RcuInv is inductive.                                                    *)
LEMMA RcuStep ==
  ASSUME RibManagerAssumption, RcuInv, [Next]_vars
  PROVE  RcuInv'
<1>1. TypeOK'
  BY TypeStep
<1>2. Ownership' /\ Readers'
  <2> USE DEF RcuInv
  <2>1. CASE Shell \/ RibManagerStart
    BY <2>1, ShellSteps
    DEF Ownership, Readers, Building, Syncing, main_vars, rib_vars, worker_vars
  <2>2. CASE Manager
    BY <2>2, ManagerRcu
  <2>3. ASSUME NEW w \in Workers, Worker(w)
        PROVE  Ownership' /\ Readers'
    <3>1. Ownership'
      BY <2>3, WorkerSteps
      DEF Ownership, Building, Syncing, WorkerFrame, main_vars, rib_vars
    <3>2. UNCHANGED <<ptr, old>>
      BY <2>3, WorkerSteps DEF WorkerFrame, main_vars, rib_vars
    <3>3. ASSUME NEW v \in Workers \ {w}
          PROVE  /\ wpc'[v] # "read" => held'[v] = NULL
                 /\ held'[v] \in {NULL, ptr} \/ (held'[v] = old /\ v \in gp')
      BY <2>3, WorkerSteps DEF Readers
    <3>4. /\ wpc'[w] # "read" => held'[w] = NULL
          /\ held'[w] \in {NULL, ptr} \/ (held'[w] = old /\ w \in gp')
      BY <2>3, WorkerSteps DEF Readers
    <3>5. Readers'
      BY <3>2, <3>3, <3>4 DEF Readers
    <3> QED BY <3>1, <3>5
  <2>4. CASE Control
    BY <2>4, ControlSteps
    DEF Ownership, Readers, Building, Syncing, Outside, TypeOK, rib_vars
  <2>5. CASE UNCHANGED vars
    BY <2>5 DEF Ownership, Readers, Building, Syncing, vars, main_vars, rib_vars,
                worker_vars
  <2> QED
    BY <2>1, <2>2, <2>3, <2>4, <2>5, NextCases
<1> QED
  BY <1>1, <1>2 DEF RcuInv

(* Nothing is allocated, published or held when the program starts.        *)
LEMMA RcuInit ==
  ASSUME RibManagerAssumption, Init
  PROVE  RcuInv
<1>1. 0 \in Ports
  BY QueueConfAssumption DEF Ports
<1>2. << >> \in Seq(Messages)
  OBVIOUS
<1>3. TypeOK
  BY <1>1, <1>2, ZeroRibType, NoQueuesFacts DEF Init, TypeOK, NoDesc, Desc, Device
<1>4. Ownership /\ Readers
  BY DEF Init, Ownership, Readers, Building, Syncing
<1> QED BY <1>3, <1>4 DEF RcuInv

(* The inductive invariant holds always.                                   *)
THEOREM RcuInvariant == Spec => []RcuInv
BY RcuInit, RcuStep, RibManagerAssumption, PTL DEF Spec

(* Every variable keeps its type, for every value of the constants.        *)
THEOREM TypeCorrect == Spec => []TypeOK
<1>1. RcuInv => TypeOK
  BY DEF RcuInv
<1> QED BY <1>1, RcuInvariant, PTL

(* rib_replace() frees no rib that a worker still reads, whatever the      *)
(* number of workers and however they interleave with the rib manager.     *)
THEOREM RcuSafe == Spec => []NoUseAfterFree
<1>1. RcuInv => NoUseAfterFree
  BY RibManagerAssumption
  DEF RcuInv, Ownership, Readers, NoUseAfterFree, Syncing, TypeOK
<1> QED BY <1>1, RcuInvariant, PTL

(* What is about to be freed is allocated and can no longer be found.      *)
THEOREM ReclaimSafe == Spec => []ReclaimOnce
<1>1. RcuInv => ReclaimOnce
  BY DEF RcuInv, Ownership, ReclaimOnce
<1> QED BY <1>1, RcuInvariant, PTL
-----------------------------------------------------------------------------
(* A step of process_message() loses no rib but one it refuses.            *)
LEMMA ManagerOrphan ==
  ASSUME RibManagerAssumption, RcuInv, NoOrphan, Manager
  PROVE  NoOrphan'
<1> USE DEF RcuInv
<1>1. CASE RibManagerExit
  BY <1>1, ShellSteps DEF NoOrphan, main_vars, rib_vars
<1>2. ASSUME NEW id \in RibIds, Receive(id)
      PROVE  /\ live' = live \union {id} /\ UNCHANGED <<old, ptr>>
             /\ new = NULL /\ NULL \notin live
  BY <1>2, ReceiveFacts DEF Ownership, Building, TypeOK, RibManagerAssumption
<1>3. ASSUME NEW id \in RibIds, ProcessUpdate(id) \/ AcceptQconf(id)
      PROVE  NoOrphan'
  BY <1>2, <1>3 DEF ProcessUpdate, AcceptQconf, NoOrphan
<1>4. ASSUME NEW id \in RibIds, RefuseQconf(id) PROVE NoOrphan'
  BY <1>2, <1>4 DEF RefuseQconf, NoOrphan
<1>5. CASE DevStop \/ DevStart \/ NoZero
  BY <1>5 DEF DevStop, DevStart, NoZero, NoOrphan, rib_vars, ghost_vars
<1>6. ASSUME NEW id \in RibIds, PublishZero(id) PROVE NoOrphan'
  <2>1. old = NULL /\ NULL \notin live
    BY <1>6 DEF PublishZero, Ownership, Syncing, TypeOK, RibManagerAssumption
  <2> QED
    BY <1>6, <2>1 DEF PublishZero, rib_replace, NoOrphan, ghost_vars
<1>7. CASE PublishNew
  <2>1. old = NULL /\ NULL \notin live
    BY <1>7 DEF PublishNew, Ownership, Syncing, TypeOK, RibManagerAssumption
  <2> QED
    BY <1>7, <2>1 DEF PublishNew, rib_replace, NoOrphan, ghost_vars
<1>8. CASE Reclaim
  BY <1>8 DEF Reclaim, NoOrphan, ghost_vars
<1> QED
  BY <1>1, <1>3, <1>4, <1>5, <1>6, <1>7, <1>8 DEF Manager

(* No rib is lost except by refusing a QCONF message.                      *)
THEOREM OnlyRefusalLeaks == Spec => []NoOrphan
<1>1. Init => NoOrphan
  BY DEF Init, NoOrphan
<1>2. RcuInv /\ NoOrphan /\ [Next]_vars => NoOrphan'
  <2> SUFFICES ASSUME RcuInv, NoOrphan, [Next]_vars
               PROVE  NoOrphan'
    OBVIOUS
  <2> USE DEF RcuInv
  <2>1. CASE Shell \/ RibManagerStart
    BY <2>1, ShellSteps DEF NoOrphan, main_vars, rib_vars
  <2>2. CASE Manager
    BY <2>2, ManagerOrphan, RibManagerAssumption
  <2>3. ASSUME NEW w \in Workers, Worker(w) PROVE NoOrphan'
    BY <2>3, WorkerSteps
    DEF NoOrphan, WorkerFrame, main_vars, rib_vars, ghost_vars
  <2>4. CASE Control
    BY <2>4, ControlSteps DEF NoOrphan, rib_vars, ghost_vars
  <2>5. CASE UNCHANGED vars
    BY <2>5 DEF NoOrphan, vars, main_vars, rib_vars, ghost_vars
  <2> QED
    BY <2>1, <2>2, <2>3, <2>4, <2>5, NextCases
<1> QED
  BY <1>1, <1>2, RcuInvariant, PTL DEF Spec

(***************************************************************************)
(* The zero rib hands rx queues over from one lcore to another: RibManager *)
(* implements QueueLease as long as the zero rib can be allocated.         *)
(***************************************************************************)
(* Two ribs that workers may hold at the same time do not disagree about   *)
(* who serves a queue: one of them tells nobody anything, or they have the *)
(* same lists.                                                             *)
Agree(a, b) ==
  \/ ~rib[a].rib_info
  \/ ~rib[b].rib_info
  \/ rib[a].lcore_qconf = rib[b].lcore_qconf

(* The published rib agrees with the one it replaces, and the one about to *)
(* be published with the one it will replace; none names a queue twice.    *)
Handover ==
  /\ \A id \in {ptr, new, old} \ {NULL} : NamedOnce(rib[id].lcore_qconf)
  /\ mpc = "sync_zero" => ~rib[ptr].rib_info
  /\ old # NULL => Agree(old, ptr)
  /\ mpc = "publish" /\ ptr # NULL => Agree(ptr, new)

(* A worker's index is within its list.                                    *)
Position == \A w \in Workers : wpc[w] = "read" => idx[w] <= Len(ServeList(w))

(* The inductive invariant of the leases. *)
LeaseInv == RcuInv /\ Handover /\ Position

-----------------------------------------------------------------------------
(* The rib manager writes only to ribs that no worker holds.               *)
LEMMA HeldStable ==
  ASSUME RibManagerAssumption, RcuInv, [Next]_vars,
         NEW w \in Workers, held[w] # NULL
  PROVE  rib'[held[w]] = rib[held[w]]
<1> USE DEF RcuInv
<1>1. held[w] \in live /\ held[w] \in RibIds
  BY DEF Readers, Ownership, Syncing, TypeOK
<1>2. CASE Shell \/ RibManagerStart \/ RibManagerExit
  BY <1>2, ShellSteps DEF rib_vars
<1>3. ASSUME NEW id \in RibIds, Receive(id)
      PROVE  rib'[held[w]] = rib[held[w]]
  BY <1>1, <1>3, ReceiveFacts DEF TypeOK
<1>4. ASSUME NEW id \in RibIds, PublishZero(id)
      PROVE  rib'[held[w]] = rib[held[w]]
  BY <1>1, <1>4 DEF PublishZero, TypeOK
<1>5. CASE Reclaim
  <2>1. gp = {} /\ Syncing /\ rib' = [rib EXCEPT ![old] = ZeroRib]
    BY <1>5 DEF Reclaim, Syncing
  <2>2. held[w] # old
    BY <2>1 DEF Readers, Ownership
  <2> QED BY <1>1, <2>1, <2>2 DEF TypeOK
<1>6. CASE DevStop \/ DevStart \/ NoZero \/ PublishNew
  BY <1>6 DEF DevStop, DevStart, NoZero, PublishNew, rib_vars
<1>7. ASSUME NEW v \in Workers, Worker(v)
      PROVE  rib'[held[w]] = rib[held[w]]
  BY <1>7, WorkerSteps DEF WorkerFrame, rib_vars
<1>8. CASE Control
  BY <1>8, ControlSteps DEF rib_vars
<1>9. CASE UNCHANGED vars
  BY <1>9 DEF vars, rib_vars
<1> QED
  BY <1>2, <1>3, <1>4, <1>5, <1>6, <1>7, <1>8, <1>9, NextCases
  DEF Manager, ProcessUpdate, RefuseQconf, AcceptQconf

(* Hence the list of a worker that stays in its loop body stays the same.  *)
LEMMA ListStable ==
  ASSUME RibManagerAssumption, RcuInv, [Next]_vars,
         NEW w \in Workers, held'[w] = held[w]
  PROVE  ServeList(w)' = ServeList(w)
BY HeldStable DEF ServeList

(* A list is a sequence of pairs.                                          *)
LEMMA ServeListType ==
  ASSUME RibManagerAssumption, TypeOK, NEW w \in Workers
  PROVE  ServeList(w) \in Seq(PortQueue)
<1>1. w \in Lcores
  BY QueueConfAssumption DEF RibManagerAssumption, ActiveLcores, Lcores
<1>2. CASE held[w] = NULL
  BY <1>2 DEF ServeList
<1>3. CASE held[w] # NULL
  <2>1. rib[held[w]].lcore_qconf[w] \in Seq(PortQueue)
    BY <1>1, <1>3 DEF TypeOK, RibContents, Qconf
  <2> QED BY <2>1 DEF ServeList
<1> QED BY <1>2, <1>3

(* What a worker serves is a sequence of queues. *)
ListsTyped == \A w \in Workers : ServeList(w) \in Seq(PortQueue)

(* Also after a step.                                                      *)
LEMMA ServeListTypeNext == TypeOK' => ListsTyped'
<1>1. TypeOK => ListsTyped
  BY ServeListType, RibManagerAssumption DEF ListsTyped
<1> QED BY <1>1, PTL

(* What the message leaves of the lists.                                   *)
LEMMA UpdatedQconf ==
  ASSUME TypeOK, NEW msg \in Messages, msg.type # "QCONF"
  PROVE  Updated(rib_create(ptr), msg).lcore_qconf =
           IF ptr = NULL THEN NoQueues ELSE rib[ptr].lcore_qconf
<1> DEFINE base == IF ptr = NULL THEN ZeroRib ELSE rib[ptr]
           r == rib_create(ptr)
<1>1. base \in RibContents
  BY ZeroRibType DEF TypeOK
<1>2. r.lcore_qconf = base.lcore_qconf /\ r \in RibContents
  <2>1. r = [base EXCEPT !.rib_info = TRUE, !.ver = base.ver + 1]
    BY DEF rib_create
  <2>2. r.lcore_qconf = base.lcore_qconf
    <3> HIDE DEF base, r
    <3> QED BY <1>1, <2>1 DEF RibContents
  <2>3. r \in RibContents
    BY RibCreateType
  <2> QED BY <2>2, <2>3
<1>3. base.lcore_qconf = IF ptr = NULL THEN NoQueues ELSE rib[ptr].lcore_qconf
  BY DEF ZeroRib
<1> HIDE DEF base, r
<1>4. Updated(r, msg).lcore_qconf = r.lcore_qconf
  <2>1. CASE msg.type = "PORT_STATUS"
    BY <1>2, <2>1 DEF Updated, RibContents
  <2>2. CASE msg.type = "ETH_LINK"
    BY <1>2, <2>2 DEF Updated
  <2>3. CASE msg.type = "TXRX_DESC"
    BY <1>2, <2>3 DEF Updated, RibContents
  <2> QED BY <2>1, <2>2, <2>3 DEF Messages
<1> QED BY <1>2, <1>3, <1>4 DEF r
-----------------------------------------------------------------------------
(* Steps that leave the ribs and their roles alone keep Handover.          *)
LEMMA HandoverFrame ==
  ASSUME Handover, UNCHANGED <<main_vars, rib_vars>>
  PROVE  Handover'
BY DEF Handover, Agree, main_vars, rib_vars

(* The steps of process_message() keep Handover.                           *)
LEMMA ManagerHandover ==
  ASSUME RibManagerAssumption, ~MallocMayFail, RcuInv, Handover, Manager
  PROVE  Handover'
<1> USE DEF RcuInv
<1> DEFINE Once(id) == NamedOnce(rib[id].lcore_qconf)
<1>1. CASE RibManagerExit
  BY <1>1, ShellSteps, HandoverFrame
<1>2. ASSUME NEW id \in RibIds, Receive(id)
      PROVE  /\ old' = NULL /\ ptr' = ptr /\ new = NULL /\ ptr # id
             /\ ptr # NULL => ptr \in RibIds /\ rib'[ptr] = rib[ptr] /\ Once(ptr)
             /\ rib'[id] = Updated(rib_create(ptr), msgp)
  BY <1>2, ReceiveFacts
  DEF Ownership, Building, Syncing, TypeOK, Handover, RibManagerAssumption
<1>3. ASSUME NEW id \in RibIds, ProcessUpdate(id) PROVE Handover'
  <2>1. Receive(id) /\ mpc' = "publish" /\ new' = id /\ msgp.type # "QCONF"
    BY <1>3 DEF ProcessUpdate
  <2>2. msgp \in Messages
    BY <2>1, ReceiveFacts
  <2>3. rib'[id].lcore_qconf = IF ptr = NULL THEN NoQueues ELSE rib[ptr].lcore_qconf
    BY <1>2, <2>1, <2>2, UpdatedQconf
  <2>4. NamedOnce(rib'[id].lcore_qconf)
    BY <1>2, <2>1, <2>3, NoQueuesFacts
  <2> QED
    BY <1>2, <2>1, <2>3, <2>4 DEF Handover, Agree
<1>4. ASSUME NEW id \in RibIds, RefuseQconf(id) PROVE Handover'
  <2>1. Receive(id) /\ UNCHANGED <<mpc, new>> /\ mpc = "idle"
    BY <1>4 DEF RefuseQconf, Receive
  <2> QED BY <1>2, <2>1 DEF Handover
<1>5. ASSUME NEW id \in RibIds, AcceptQconf(id) PROVE Handover'
  <2>1. Receive(id) /\ mpc' = "dev_stop" /\ new' = id
        /\ NamedOnce(rib'[id].lcore_qconf)
    BY <1>5 DEF AcceptQconf, Ordered
  <2> QED BY <1>2, <2>1 DEF Handover
<1>6. CASE DevStop \/ DevStart
  <2>1. mpc' \in {"dev_start", "zero", "dev_stop"} /\ UNCHANGED <<new, old, rib_vars>>
    BY <1>6 DEF DevStop, DevStart
  <2> QED BY <2>1 DEF Handover, Agree, rib_vars
<1>7. ASSUME NEW id \in RibIds, PublishZero(id) PROVE Handover'
  <2>1. /\ mpc = "zero" /\ id \notin live
        /\ ptr' = id /\ new' = new /\ rib' = [rib EXCEPT ![id] = ZeroRib]
        /\ IF ptr = NULL THEN mpc' = "publish" /\ old' = old
           ELSE mpc' = "sync_zero" /\ old' = ptr
    BY <1>7 DEF PublishZero, rib_replace
  <2>2. /\ new \in RibIds /\ new # id /\ rib'[new] = rib[new] /\ Once(new)
        /\ old = NULL
        /\ ptr # NULL => ptr # id /\ rib'[ptr] = rib[ptr] /\ Once(ptr)
    BY <2>1 DEF Ownership, Building, Syncing, TypeOK, Handover, RibManagerAssumption
  <2>3. rib'[id] = ZeroRib /\ ~ZeroRib.rib_info /\ NamedOnce(ZeroRib.lcore_qconf)
    BY <2>1, NoQueuesFacts DEF TypeOK, ZeroRib
  <2> QED
    BY <2>1, <2>2, <2>3 DEF Handover, Agree
<1>8. CASE NoZero
  BY <1>8 DEF NoZero
<1>9. CASE PublishNew
  <2>1. /\ mpc = "publish" /\ ptr' = new /\ new' = NULL /\ rib' = rib
        /\ IF ptr = NULL THEN mpc' = "idle" /\ old' = old
           ELSE mpc' = "sync_new" /\ old' = ptr
    BY <1>9 DEF PublishNew, rib_replace
  <2>2. old = NULL
    BY <2>1 DEF Ownership, Syncing
  <2> QED BY <2>1, <2>2 DEF Handover, Agree
<1>10. CASE Reclaim
  <2>1. /\ mpc \in {"sync_zero", "sync_new"} /\ old' = NULL
        /\ mpc' = IF mpc = "sync_zero" THEN "publish" ELSE "idle"
        /\ UNCHANGED <<new, ptr>> /\ rib' = [rib EXCEPT ![old] = ZeroRib]
    BY <1>10 DEF Reclaim
  <2>2. \A id \in {ptr, new} \ {NULL} : rib'[id] = rib[id]
    BY <2>1 DEF Ownership, Syncing, TypeOK
  <2>3. mpc' = "publish" /\ ptr' # NULL => Agree(ptr, new)'
    <3>1. ASSUME mpc = "sync_zero", ptr # NULL
          PROVE  ~rib'[ptr].rib_info
      BY <2>2, <3>1 DEF Handover
    <3> QED BY <2>1, <3>1 DEF Agree
  <2> QED
    BY <2>1, <2>2, <2>3 DEF Handover
<1> QED
  BY <1>1, <1>3, <1>4, <1>5, <1>6, <1>7, <1>8, <1>9, <1>10 DEF Manager

(* A worker's index stays within its list, whether or not the zero rib can *)
(* be allocated.                                                           *)
LEMMA PositionStep ==
  ASSUME RibManagerAssumption, RcuInv, RcuInv', Position, [Next]_vars
  PROVE  Position'
<1> SUFFICES ASSUME NEW w \in Workers, wpc'[w] = "read"
             PROVE  idx'[w] <= Len(ServeList(w)')
  BY DEF Position
<1>1. CASE wpc[w] = "read" /\ held'[w] = held[w] /\ idx'[w] = idx[w]
  BY <1>1, ListStable DEF Position
<1>2. ASSUME Worker(w)
      PROVE  idx'[w] <= Len(ServeList(w)')
  <2>1. CASE ReadLock(w)
    <3>1. idx'[w] = 0
      BY <2>1 DEF ReadLock, RcuInv, TypeOK
    <3>2. ServeList(w)' \in Seq(PortQueue)
      BY ServeListTypeNext DEF RcuInv, ListsTyped
    <3> QED BY <3>1, <3>2
  <2>2. CASE ServeNext(w)
    <3>1. /\ idx[w] < Len(ServeList(w)) /\ idx'[w] = idx[w] + 1
          /\ held'[w] = held[w]
      BY <2>2 DEF ServeNext, RcuInv, TypeOK
    <3>2. ServeList(w)' = ServeList(w) /\ ServeList(w) \in Seq(PortQueue)
      BY <3>1, ListStable, ServeListType DEF RcuInv
    <3>3. idx[w] \in Nat
      BY DEF RcuInv, TypeOK
    <3> QED BY <3>1, <3>2, <3>3
  <2>3. CASE Return(w) \/ Register(w) \/ Quiescent(w) \/ Unregister(w)
    BY <2>3 DEF Return, Register, Quiescent, Unregister, RcuInv, TypeOK
  <2> QED BY <1>2, <2>1, <2>2, <2>3 DEF Worker
<1>3. ASSUME NEW v \in Workers \ {w}, Worker(v)
      PROVE  wpc[w] = "read" /\ held'[w] = held[w] /\ idx'[w] = idx[w]
  BY <1>3, WorkerSteps DEF RcuInv
<1>4. CASE Shell \/ RibManagerStart \/ RibManagerExit
  BY <1>1, <1>4, ShellSteps DEF RcuInv, worker_vars
<1>5. CASE Control
  BY <1>1, <1>5, ControlSteps DEF RcuInv
<1>6. CASE UNCHANGED worker_vars
  BY <1>1, <1>6 DEF worker_vars
<1>7. Manager => RibManagerExit \/ UNCHANGED worker_vars
  BY DEF Manager, ProcessUpdate, RefuseQconf, AcceptQconf, Receive, DevStop,
         DevStart, PublishZero, NoZero, PublishNew, Reclaim
<1>8. UNCHANGED vars => UNCHANGED worker_vars
  BY DEF vars
<1> QED
  BY <1>1, <1>2, <1>3, <1>4, <1>5, <1>6, <1>7, <1>8, NextCases

(* LeaseInv is inductive.                                                  *)
LEMMA LeaseStep ==
  ASSUME RibManagerAssumption, ~MallocMayFail, LeaseInv, [Next]_vars
  PROVE  LeaseInv'
<1> USE DEF LeaseInv
<1>1. RcuInv'
  BY RcuStep
<1>2. Handover'
  <2> USE DEF RcuInv
  <2>1. CASE Shell \/ RibManagerStart
    BY <2>1, ShellSteps, HandoverFrame
  <2>2. CASE Manager
    BY <2>2, ManagerHandover
  <2>3. ASSUME NEW w \in Workers, Worker(w) PROVE Handover'
    BY <2>3, WorkerSteps, HandoverFrame DEF WorkerFrame
  <2>4. CASE Control
    BY <2>4, ControlSteps DEF Handover, Agree, Outside, rib_vars
  <2>5. CASE UNCHANGED vars
    BY <2>5, HandoverFrame DEF vars
  <2> QED BY <2>1, <2>2, <2>3, <2>4, <2>5, NextCases
<1>3. Position'
  BY <1>1, PositionStep
<1> QED
  BY <1>1, <1>2, <1>3

(* The invariant holds at the start.                                       *)
LEMMA LeaseInit ==
  ASSUME RibManagerAssumption, Init
  PROVE  LeaseInv
<1>1. Handover /\ Position
  BY DEF Init, Handover, Position
<1> QED BY <1>1, RcuInit DEF LeaseInv

-----------------------------------------------------------------------------
(* No queue is in the lists of two workers at once.                        *)
LEMMA LeasesDisjoint ==
  ASSUME RibManagerAssumption, LeaseInv,
         NEW v \in Workers, NEW w \in Workers, v # w
  PROVE  LeaseOf(v) \cap LeaseOf(w) = {}
<1> SUFFICES ASSUME NEW q \in LeaseOf(v), q \in LeaseOf(w)
             PROVE  FALSE
  OBVIOUS
<1>1. /\ held[v] # NULL /\ rib[held[v]].rib_info
      /\ held[w] # NULL /\ rib[held[w]].rib_info
      /\ q \in Elems(rib[held[v]].lcore_qconf[v])
      /\ q \in Elems(rib[held[w]].lcore_qconf[w])
  BY DEF LeaseOf, ServeList, Elems
<1>2. held[v] \in {ptr, old} \ {NULL} /\ held[w] \in {ptr, old} \ {NULL}
  BY <1>1 DEF LeaseInv, RcuInv, Readers
<1>3. rib[held[v]].lcore_qconf = rib[held[w]].lcore_qconf
  BY <1>1, <1>2 DEF LeaseInv, Handover, Agree
<1>4. NamedOnce(rib[held[v]].lcore_qconf)
  BY <1>2 DEF LeaseInv, Handover
<1>5. v \in ActiveLcores /\ w \in ActiveLcores
  BY DEF RibManagerAssumption
<1> QED
  BY <1>1, <1>3, <1>4, <1>5 DEF NamedOnce, Elems

(* No two workers hold a queue. *)
AllDisjoint ==
  \A v, w \in Workers : v # w => LeaseOf(v) \cap LeaseOf(w) = {}

(* Also after a step.                                                      *)
LEMMA LeasesDisjointNext == LeaseInv' => AllDisjoint'
<1>1. LeaseInv => AllDisjoint
  BY LeasesDisjoint, RibManagerAssumption DEF AllDisjoint
<1> QED BY <1>1, PTL

(* A worker in its loop serves an entry of its list.                       *)
LEMMA ServedInLease ==
  ASSUME RibManagerAssumption, RcuInv, Position, NEW w \in Workers, Serving(w)
  PROVE  Served(w) \in LeaseOf(w)
<1>1. ServeList(w) \in Seq(PortQueue) /\ idx[w] \in Nat
  BY ServeListType DEF RcuInv, TypeOK
<1>2. idx[w] \in 1..Len(ServeList(w))
  BY <1>1 DEF Serving, Position
<1> QED BY <1>2 DEF Served, Serving, LeaseOf, Elems

(* Two workers never poll the same queue: for every number of workers,     *)
(* ports, queues and commands, provided the zero rib can be allocated.     *)
THEOREM QueuesExclusive ==
  ASSUME ~MallocMayFail
  PROVE  Spec => []ExclusiveQueue
<1>1. Init => LeaseInv
  BY LeaseInit, RibManagerAssumption
<1>2. LeaseInv /\ [Next]_vars => LeaseInv'
  BY LeaseStep, RibManagerAssumption
<1>3. LeaseInv => ExclusiveQueue
  <2> SUFFICES ASSUME LeaseInv, NEW v \in Workers, NEW w \in Workers, v # w,
                      Serving(v), Serving(w)
               PROVE  Served(v) # Served(w)
    BY DEF ExclusiveQueue
  <2>1. Served(v) \in LeaseOf(v) /\ Served(w) \in LeaseOf(w)
    BY ServedInLease, RibManagerAssumption DEF LeaseInv
  <2> QED
    BY <2>1, LeasesDisjoint, RibManagerAssumption
<1> QED
  BY <1>1, <1>2, <1>3, PTL DEF Spec
-----------------------------------------------------------------------------
(* The refinement mapping is a function to sets of queues.                 *)
leases == [w \in Workers |-> LeaseOf(w)]

(* A step maps to a step of QueueLease or changes no lease.                *)
LEMMA LeaseRefinement ==
  ASSUME RibManagerAssumption, LeaseInv, LeaseInv', [Next]_vars
  PROVE  Lease!Next \/ UNCHANGED leases
<1>1. ASSUME NEW w \in Workers,
             (wpc'[w] = "read") <=> (wpc[w] = "read"), held'[w] = held[w]
      PROVE  LeaseOf(w)' = LeaseOf(w)
  BY <1>1, ListStable DEF LeaseOf, LeaseInv
<1>2. (\A w \in Workers : LeaseOf(w)' = LeaseOf(w)) => UNCHANGED leases
  BY DEF leases
<1>3. CASE Shell \/ RibManagerStart \/ RibManagerExit
  BY <1>1, <1>2, <1>3, ShellSteps DEF LeaseInv, RcuInv, worker_vars
<1>4. CASE UNCHANGED worker_vars
  BY <1>1, <1>2, <1>4 DEF worker_vars
<1>5. CASE Control
  BY <1>1, <1>2, <1>5, ControlSteps DEF LeaseInv, RcuInv
<1>6. ASSUME NEW w \in Workers, Worker(w)
      PROVE  Lease!Next \/ UNCHANGED leases
  <2>1. \A v \in Workers \ {w} : LeaseOf(v)' = LeaseOf(v)
    BY <1>1, <1>6, WorkerSteps DEF LeaseInv, RcuInv
  <2>2. leases' = [leases EXCEPT ![w] = LeaseOf(w)']
    BY <2>1 DEF leases
  <2>3. CASE wpc[w] = "top" /\ wpc'[w] = "read"
    <3>1. leases[w] = {}
      BY <2>3 DEF leases, LeaseOf
    <3>2. LeaseOf(w)' \in SUBSET PortQueue
      BY ServeListTypeNext DEF ListsTyped, LeaseOf, Elems, LeaseInv, RcuInv
    <3>3. \A v \in Workers \ {w} : leases[v] \cap LeaseOf(w)' = {}
      BY <2>1, LeasesDisjointNext DEF leases, AllDisjoint
    <3>4. Lease!Acquire(w, LeaseOf(w)')
      BY <2>2, <3>1, <3>3 DEF Lease!Acquire, leases
    <3> QED BY <3>2, <3>4 DEF Lease!Next
  <2>4. CASE wpc'[w] # "read"
    <3>1. LeaseOf(w)' = {}
      BY <2>4 DEF LeaseOf
    <3>2. Lease!Release(w)
      BY <2>2, <3>1 DEF Lease!Release, leases
    <3> QED BY <3>2 DEF Lease!Next
  <2>5. CASE wpc[w] = "read" /\ wpc'[w] = "read"
    <3>1. held'[w] = held[w]
      BY <1>6, <2>5, WorkerSteps DEF LeaseInv, RcuInv
    <3> QED BY <1>1, <1>2, <2>1, <2>5, <3>1
  <2>6. wpc[w] # "read" /\ wpc'[w] = "read" => wpc[w] = "top"
    BY <1>6, WorkerSteps DEF LeaseInv, RcuInv
  <2> QED BY <2>3, <2>4, <2>5, <2>6
<1>7. Manager => RibManagerExit \/ UNCHANGED worker_vars
  BY DEF Manager, ProcessUpdate, RefuseQconf, AcceptQconf, Receive, DevStop,
         DevStart, PublishZero, NoZero, PublishNew, Reclaim
<1>8. UNCHANGED vars => UNCHANGED worker_vars
  BY DEF vars
<1> QED
  BY <1>3, <1>4, <1>5, <1>6, <1>7, <1>8, NextCases

(* RCU with the zero rib implements one lease per queue: the detailed      *)
(* specification refines QueueLease.                                       *)
THEOREM RibRefinesLease ==
  ASSUME ~MallocMayFail
  PROVE  Spec => ImplementsQueueLease
<1>1. Init => LeaseInv
  BY LeaseInit, RibManagerAssumption
<1>2. LeaseInv /\ [Next]_vars => LeaseInv'
  BY LeaseStep, RibManagerAssumption
<1>3. Init => Lease!Init
  BY DEF Init, Lease!Init, LeaseOf
<1>4. LeaseInv /\ LeaseInv' /\ [Next]_vars => [Lease!Next]_leases
  BY LeaseRefinement, RibManagerAssumption
<1> QED
  BY <1>1, <1>2, <1>3, <1>4, PTL DEF Spec, ImplementsQueueLease, Lease!Spec, leases
=============================================================================
