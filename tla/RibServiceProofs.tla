-------------------------- MODULE RibServiceProofs --------------------------
(***************************************************************************)
(* What the readers of a rib rely on, for every value of the constants:    *)
(* the tx queues, tx buffers and tap rings of the queues they serve exist, *)
(* an old rib is older, and the last queue configuration reaches the rib.  *)
(* None of it needs the zero rib: malloc() may fail.                       *)
(***************************************************************************)
EXTENDS RibManagerProofs

(* From here to its publication, the devices fit the rib being built.      *)
Prepared == mpc \in {"zero", "sync_zero", "publish"}

(* The lcores that a rib gives a queue to.                                 *)
Busy(id) == {w \in ActiveLcores : rib[id].lcore_qconf[w] # << >>}

(* Port p has a transmit queue and a buffer for worker w. *)
TxReady(w, p) == w < dev[p].ntxq /\ w \in tx_buffer[p]

(* An lcore with a queue in a rib that can be read has its tx queue and tx *)
(* buffer on every port; rib_check() gives the lcores of the new rib theirs*)
(* port by port, and these include the lcores of the published one.  A     *)
(* second rib_manager() empties the tx buffers, so this is about one.      *)
DeviceInv ==
  /\ managers <= started
  /\ started = 0 => ptr = NULL /\ mpc \in Outside
  /\ started <= 1 =>
       /\ \A id \in {ptr, old} \ {NULL} :
            \A w \in Busy(id), p \in Ports : TxReady(w, p)
       /\ Building =>
            \A w \in Busy(new), p \in Ports : Prepared \/ p < nextport => TxReady(w, p)
  /\ mpc \in {"dev_stop", "dev_start"} /\ ptr # NULL => Busy(ptr) \subseteq Busy(new)

(* Every queue of a rib that can be read has its tap rings, and so has     *)
(* every queue of the new rib once rib_check() is through.                 *)
Ringed(id) == \A w \in ActiveLcores : Elems(rib[id].lcore_qconf[w]) \subseteq rings

(* Every queue of a rib that is read, or is about to be, has its rings. *)
RingsInv ==
  /\ \A id \in {ptr, old} \ {NULL} : Ringed(id)
  /\ Prepared => Ringed(new)

(* Versions grow from the rib being reclaimed to the published one to the  *)
(* one being built; a zero rib has no version.                             *)
Older(a, b) == rib[a].rib_info /\ rib[b].rib_info => rib[a].ver < rib[b].ver

(* Versions grow from the rib that is freed to the one that is built. *)
VersionInv ==
  /\ old # NULL /\ ptr # NULL => Older(old, ptr)
  /\ Building /\ ptr # NULL => Older(ptr, new)

(* The shell's table is in the last QCONF message of the ring, or no such  *)
(* message is left and the rib that is or will be published has it.        *)
IsQconf(m) == m.type = "QCONF"

(* The last queue configuration on its way is the one the shell has. *)
LastSent ==
  \E i \in 1..Len(msg_queue) :
    /\ IsQconf(msg_queue[i]) /\ msg_queue[i].qconf = thread_qconf
    /\ \A j \in i + 1..Len(msg_queue) : ~IsQconf(msg_queue[j])

(* No queue configuration is on its way. *)
NoneSent == \A i \in 1..Len(msg_queue) : ~IsQconf(msg_queue[i])

(* The rib that the next message is applied to. *)
Pending == IF Building THEN new ELSE ptr

(* The configuration the shell has is in that rib. *)
Arrived ==
  \A l \in ActiveLcores :
    thread_qconf[l] # << >> =>
      Pending # NULL /\ rib[Pending].lcore_qconf[l] = thread_qconf[l]

(* The last configuration is lost with a failed send, on its way or arrived. *)
LatestInv == qconf_stale \/ LastSent \/ (NoneSent /\ Arrived)

-----------------------------------------------------------------------------
(* The steps that neither write a rib nor change the role of one.          *)
Quiet ==
  \/ Shell
  \/ RibManagerStart
  \/ RibManagerExit
  \/ \E w \in Workers : Worker(w)
  \/ Control
  \/ UNCHANGED vars

(* They move the main pthread only outside of process_message().           *)
LEMMA QuietSteps ==
  ASSUME TypeOK, Quiet
  PROVE  /\ UNCHANGED <<new, old, nextport, ptr, live, rib>>
         /\ mpc' = mpc \/ (mpc \in Outside /\ mpc' \in Outside)
         /\ Building' = Building
         /\ Prepared' = Prepared
<1>1. /\ UNCHANGED <<new, old, nextport, ptr, live, rib>>
      /\ mpc' = mpc \/ (mpc \in Outside /\ mpc' \in Outside)
  <2>1. CASE Shell \/ RibManagerStart \/ RibManagerExit
    BY <2>1, ShellSteps DEF main_vars, rib_vars
  <2>2. ASSUME NEW w \in Workers, Worker(w)
        PROVE  UNCHANGED <<mpc, new, old, nextport, ptr, live, rib>>
    BY <2>2, WorkerSteps DEF WorkerFrame, main_vars, rib_vars
  <2>3. CASE Control
    BY <2>3, ControlSteps DEF rib_vars
  <2>4. CASE UNCHANGED vars
    BY <2>4 DEF vars, main_vars, rib_vars
  <2> QED BY <2>1, <2>2, <2>3, <2>4 DEF Quiet
<1> QED BY <1>1 DEF Building, Prepared, Outside

(* The other steps are those of process_message().                         *)
Processing ==
  \/ \E id \in RibIds : ProcessUpdate(id)
  \/ \E id \in RibIds : RefuseQconf(id)
  \/ \E id \in RibIds : AcceptQconf(id)
  \/ DevStop
  \/ DevStart
  \/ \E id \in RibIds : PublishZero(id)
  \/ NoZero
  \/ PublishNew
  \/ Reclaim

(* There are no others.                                                    *)
LEMMA QuietOrProcessing == ASSUME [Next]_vars PROVE Quiet \/ Processing
BY NextCases DEF Quiet, Processing, Manager

(* Receiving a message: no rib is being built or reclaimed, and the new    *)
(* one is none of those in use.                                            *)
LEMMA ReceiveRoles ==
  ASSUME RibManagerAssumption, RcuInv, NEW id \in RibIds, Receive(id)
  PROVE  /\ mpc = "idle" /\ old = NULL /\ new = NULL /\ id # ptr /\ id # NULL
         /\ old' = NULL /\ ptr' = ptr /\ UNCHANGED <<dev, tx_buffer, rings>>
         /\ managers > 0 /\ started' = started /\ managers' = managers
         /\ ptr # NULL => ptr \in RibIds /\ rib'[ptr] = rib[ptr]
         /\ msgp \in Messages
         /\ rib'[id] = Updated(rib_create(ptr), msgp)
         /\ rib'[id] \in RibContents
<1>1. TypeOK /\ managers > 0
  BY DEF RcuInv, Receive
<1>2. id \notin live /\ rib' = [rib EXCEPT ![id] = Updated(rib_create(ptr), msgp)]
      /\ rib' \in [RibIds -> RibContents] /\ msgp \in Messages /\ mpc = "idle"
      /\ UNCHANGED <<old, ptr, dev, tx_buffer, rings, managers, started>>
  BY <1>1, ReceiveFacts
<1> QED
  BY <1>1, <1>2 DEF RcuInv, Ownership, Building, Syncing, TypeOK, RibManagerAssumption

(* The zero rib takes the place of the published one.                      *)
LEMMA PublishZeroRoles ==
  ASSUME RibManagerAssumption, RcuInv, NEW id \in RibIds, PublishZero(id)
  PROVE  /\ mpc = "zero" /\ mpc' \in {"publish", "sync_zero"}
         /\ old = NULL /\ old' = ptr /\ ptr' = id /\ new' = new
         /\ id # NULL /\ new \in RibIds /\ rib'[new] = rib[new]
         /\ ptr # NULL => ptr \in RibIds /\ rib'[ptr] = rib[ptr]
         /\ rib'[id] = ZeroRib
         /\ UNCHANGED <<dev, tx_buffer, rings, managers, started, nextport,
                        thread_qconf, msg_queue, qconf_stale>>
<1>1. /\ mpc = "zero" /\ id \notin live
      /\ ptr' = id /\ new' = new /\ rib' = [rib EXCEPT ![id] = ZeroRib]
      /\ IF ptr = NULL THEN mpc' = "publish" /\ old' = old
         ELSE mpc' = "sync_zero" /\ old' = ptr
      /\ UNCHANGED <<dev, tx_buffer, rings, managers, started, nextport,
                     thread_qconf, msg_queue, qconf_stale>>
  BY DEF PublishZero, rib_replace, dev_vars, shell_vars, ghost_vars
<1> QED
  BY <1>1 DEF RcuInv, Ownership, Building, Syncing, TypeOK, RibManagerAssumption

(* Then the new rib takes its place.                                       *)
LEMMA PublishNewRoles ==
  ASSUME RibManagerAssumption, RcuInv, PublishNew
  PROVE  /\ mpc = "publish" /\ mpc' \in {"idle", "sync_new"}
         /\ old = NULL /\ old' = ptr /\ ptr' = new /\ new' = NULL /\ rib' = rib
         /\ new \in RibIds /\ new # NULL
         /\ UNCHANGED <<dev, tx_buffer, rings, managers, started, nextport,
                        thread_qconf, msg_queue, qconf_stale>>
<1>1. /\ mpc = "publish" /\ ptr' = new /\ new' = NULL /\ rib' = rib
      /\ IF ptr = NULL THEN mpc' = "idle" /\ old' = old
         ELSE mpc' = "sync_new" /\ old' = ptr
      /\ UNCHANGED <<dev, tx_buffer, rings, managers, started, nextport,
                     thread_qconf, msg_queue, qconf_stale>>
  BY DEF PublishNew, rib_replace, dev_vars, shell_vars, ghost_vars
<1> QED
  BY <1>1 DEF RcuInv, Ownership, Building, Syncing, TypeOK, RibManagerAssumption

(* The replaced rib is neither the published nor the new one.              *)
LEMMA ReclaimRoles ==
  ASSUME RibManagerAssumption, RcuInv, Reclaim
  PROVE  /\ mpc \in {"sync_zero", "sync_new"} /\ old' = NULL
         /\ mpc' = IF mpc = "sync_zero" THEN "publish" ELSE "idle"
         /\ UNCHANGED <<new, ptr, nextport>>
         /\ \A id \in {ptr, new} \ {NULL} : rib'[id] = rib[id]
         /\ UNCHANGED <<dev, tx_buffer, rings, managers, started, nextport,
                        thread_qconf, msg_queue, qconf_stale>>
<1>1. /\ mpc \in {"sync_zero", "sync_new"} /\ old' = NULL
      /\ mpc' = IF mpc = "sync_zero" THEN "publish" ELSE "idle"
      /\ UNCHANGED <<new, ptr, nextport>> /\ rib' = [rib EXCEPT ![old] = ZeroRib]
      /\ UNCHANGED <<dev, tx_buffer, rings, managers, started,
                     thread_qconf, msg_queue, qconf_stale>>
  BY DEF Reclaim, dev_vars, shell_vars, ghost_vars
<1> QED
  BY <1>1 DEF RcuInv, Ownership, Building, Syncing, TypeOK, RibManagerAssumption

(* Without a zero rib only the program counter moves.                      *)
LEMMA NoZeroRoles ==
  ASSUME NoZero
  PROVE  /\ mpc = "zero" /\ mpc' = "publish"
         /\ UNCHANGED <<new, old, ptr, rib, dev, tx_buffer, rings, managers,
                        started, nextport, thread_qconf, msg_queue, qconf_stale>>
BY DEF NoZero, rib_vars, dev_vars, shell_vars, ghost_vars

(* rib_check() touches devices, not ribs.                                  *)
LEMMA CheckRoles ==
  ASSUME RibManagerAssumption, RcuInv, DevStop \/ DevStart
  PROVE  /\ mpc \in {"dev_stop", "dev_start"} /\ mpc' \in {"dev_stop", "dev_start", "zero"}
         /\ new \in RibIds /\ new # NULL /\ old = NULL
         /\ UNCHANGED <<new, old, ptr, rib, managers, started, thread_qconf,
                        msg_queue, qconf_stale>>
<1>1. /\ mpc \in {"dev_stop", "dev_start"} /\ mpc' \in {"dev_stop", "dev_start", "zero"}
      /\ UNCHANGED <<new, old, ptr, rib, managers, started, thread_qconf,
                     msg_queue, qconf_stale>>
  BY DEF DevStop, DevStart, rib_vars, shell_vars, ghost_vars
<1> QED
  BY <1>1 DEF RcuInv, Ownership, Building, Syncing, TypeOK, RibManagerAssumption
-----------------------------------------------------------------------------
(* RingsInv is inductive.                                                  *)
LEMMA RingsStep ==
  ASSUME RibManagerAssumption, RcuInv, RingsInv, [Next]_vars
  PROVE  RingsInv'
<1>1. CASE Quiet
  <2>1. rings' = rings
    <3>1. CASE Shell \/ RibManagerStart \/ RibManagerExit
      BY <3>1 DEF Shell, SetThreadQueue, UpdatePortStatus, UpdatePortLinkStatus,
                  SetPortDesc, Command, RibManagerStart, RibManagerExit, dev_vars
    <3>2. ASSUME NEW w \in Workers, Worker(w) PROVE rings' = rings
      BY <3>2, WorkerSteps DEF WorkerFrame, dev_vars, RcuInv
    <3>3. CASE Control \/ UNCHANGED vars
      BY <3>3, ControlSteps DEF dev_vars, vars, RcuInv
    <3> QED BY <1>1, <3>1, <3>2, <3>3 DEF Quiet
  <2> QED BY <1>1, <2>1, QuietSteps DEF RcuInv, RingsInv, Ringed
<1>2. ASSUME NEW id \in RibIds, ProcessUpdate(id) PROVE RingsInv'
  <2>1. Receive(id) /\ mpc' = "publish" /\ new' = id /\ msgp.type # "QCONF"
    BY <1>2 DEF ProcessUpdate
  <2>2. rib'[id].lcore_qconf = IF ptr = NULL THEN NoQueues ELSE rib[ptr].lcore_qconf
    BY <2>1, ReceiveRoles, UpdatedQconf DEF RcuInv
  <2>3. \A w \in ActiveLcores : Elems(NoQueues[w]) = {}
    BY QueueConfAssumption DEF NoQueues, Elems, ActiveLcores, Lcores
  <2>4. Ringed(id)'
    BY <2>1, <2>2, <2>3, ReceiveRoles DEF RingsInv, Ringed
  <2> QED BY <2>1, <2>4, ReceiveRoles DEF RingsInv, Ringed
<1>3. ASSUME NEW id \in RibIds, RefuseQconf(id) \/ AcceptQconf(id) PROVE RingsInv'
  <2>1. Receive(id) /\ mpc' \in {"idle", "dev_stop"}
    BY <1>3 DEF RefuseQconf, AcceptQconf, Receive
  <2> QED BY <2>1, ReceiveRoles DEF RingsInv, Ringed, Prepared
<1>4. CASE DevStop
  BY <1>4, CheckRoles DEF RingsInv, Ringed, Prepared, DevStop
<1>5. CASE DevStart
  <2>1. /\ rings \subseteq rings'
        /\ mpc' = "zero" => TapRings(rib[new].lcore_qconf) \subseteq rings'
        /\ mpc' \in {"zero", "dev_stop"}
    BY <1>5 DEF DevStart
  <2>2. \A w \in ActiveLcores :
          Elems(rib[new].lcore_qconf[w]) \subseteq TapRings(rib[new].lcore_qconf)
    BY QueueConfAssumption DEF TapRings, ActiveLcores, Lcores
  <2> QED BY <1>5, <2>1, <2>2, CheckRoles DEF RingsInv, Ringed, Prepared
<1>6. ASSUME NEW id \in RibIds, PublishZero(id) PROVE RingsInv'
  <2>1. \A w \in ActiveLcores : Elems(ZeroRib.lcore_qconf[w]) = {}
    BY QueueConfAssumption DEF ZeroRib, NoQueues, Elems, ActiveLcores, Lcores
  <2> QED BY <1>6, <2>1, PublishZeroRoles DEF RingsInv, Ringed, Prepared
<1>7. CASE NoZero
  BY <1>7, NoZeroRoles DEF RingsInv, Ringed, Prepared
<1>8. CASE PublishNew
  BY <1>8, PublishNewRoles DEF RingsInv, Ringed, Prepared
<1>9. CASE Reclaim
  <2>1. (new \in RibIds /\ new # NULL) \/ ~Prepared
    BY DEF RcuInv, Ownership, Building, Prepared, TypeOK, RibManagerAssumption
  <2> QED BY <1>9, <2>1, ReclaimRoles DEF RingsInv, Ringed, Prepared
<1> QED
  BY <1>1, <1>2, <1>3, <1>4, <1>5, <1>6, <1>7, <1>8, <1>9, QuietOrProcessing
  DEF Processing

(* The invariant that the theorems of this module rest on.                 *)
ServiceInv == RcuInv /\ Position

(* A worker in its loop serves a queue that its rib gives it.              *)
LEMMA ServedInRib ==
  ASSUME RibManagerAssumption, ServiceInv, NEW w \in Workers, Serving(w)
  PROVE  /\ held[w] \in {ptr, old} \ {NULL}
         /\ w \in ActiveLcores
         /\ Served(w) \in Elems(rib[held[w]].lcore_qconf[w])
<1>1. Served(w) \in LeaseOf(w)
  BY ServedInLease DEF ServiceInv
<1>2. held[w] # NULL /\ Served(w) \in Elems(rib[held[w]].lcore_qconf[w])
  BY <1>1 DEF LeaseOf, ServeList, Elems
<1> QED BY <1>2 DEF ServiceInv, RcuInv, Readers, RibManagerAssumption

(* Every worker is at a position of its list.                              *)
THEOREM ServiceInvariant == Spec => []ServiceInv
<1>1. Init => Position
  BY DEF Init, Position
<1>2. RcuInv /\ RcuInv' /\ Position /\ [Next]_vars => Position'
  BY PositionStep, RibManagerAssumption
<1> QED BY <1>1, <1>2, RcuInvariant, PTL DEF Spec, ServiceInv

(* tx_burst() dequeues from ring_dn without testing it: the ring of a      *)
(* served queue exists, whichever rib the worker still holds.              *)
THEOREM RingsExist == Spec => []ServedRingExists
<1>1. Init => RingsInv
  BY DEF Init, RingsInv, Prepared
<1>2. RcuInv /\ RingsInv /\ [Next]_vars => RingsInv'
  BY RingsStep, RibManagerAssumption
<1>3. ServiceInv /\ RingsInv => ServedRingExists
  BY ServedInRib, RibManagerAssumption DEF ServedRingExists, RingsInv, Ringed
<1> QED BY <1>1, <1>2, <1>3, RcuInvariant, ServiceInvariant, PTL DEF Spec
-----------------------------------------------------------------------------
(* The new rib is one version ahead of the published one.                  *)
LEMMA UpdatedVersion ==
  ASSUME TypeOK, ptr # NULL, NEW msg \in Messages
  PROVE  Updated(rib_create(ptr), msg).ver = rib[ptr].ver + 1
<1> DEFINE b == rib[ptr]
           r == rib_create(ptr)
<1>1. b \in RibContents
  BY DEF TypeOK
<1>2. r = [b EXCEPT !.rib_info = TRUE, !.ver = b.ver + 1]
  BY DEF rib_create
<1>3. r \in RibContents
  BY RibCreateType
<1>4. r.ver = b.ver + 1
  <2> HIDE DEF b, r
  <2> QED BY <1>1, <1>2 DEF RibContents
<1> HIDE DEF r
<1>5. Updated(r, msg).ver = r.ver
  <2>1. CASE msg.type = "PORT_STATUS"
    BY <1>3, <2>1 DEF Updated, RibContents
  <2>2. CASE msg.type = "ETH_LINK"
    BY <1>3, <2>2 DEF Updated
  <2>3. CASE msg.type = "QCONF"
    BY <1>3, <2>3 DEF Updated, RibContents
  <2>4. CASE msg.type = "TXRX_DESC"
    BY <1>3, <2>4 DEF Updated, RibContents
  <2> QED BY <2>1, <2>2, <2>3, <2>4 DEF Messages
<1> QED BY <1>4, <1>5 DEF r

(* VersionInv is inductive.                                                *)
LEMMA VersionStep ==
  ASSUME RibManagerAssumption, RcuInv, VersionInv, [Next]_vars
  PROVE  VersionInv'
<1>1. CASE Quiet
  BY <1>1, QuietSteps DEF RcuInv, VersionInv, Older
<1>2. ASSUME NEW id \in RibIds, Receive(id), ptr # NULL
      PROVE  rib'[ptr].ver < rib'[id].ver
  <2>1. rib'[id].ver = rib[ptr].ver + 1 /\ rib'[ptr] = rib[ptr]
    BY <1>2, ReceiveRoles, UpdatedVersion DEF RcuInv
  <2>2. rib[ptr].ver \in Nat
    BY <1>2 DEF RcuInv, TypeOK, RibContents
  <2> QED BY <2>1, <2>2
<1>3. ASSUME NEW id \in RibIds, ProcessUpdate(id) \/ AcceptQconf(id)
      PROVE  VersionInv'
  <2>1. Receive(id) /\ new' = id
    BY <1>3 DEF ProcessUpdate, AcceptQconf
  <2> QED BY <1>2, <2>1, ReceiveRoles DEF VersionInv, Older
<1>4. ASSUME NEW id \in RibIds, RefuseQconf(id) PROVE VersionInv'
  <2>1. Receive(id) /\ mpc' = "idle"
    BY <1>4 DEF RefuseQconf, Receive
  <2> QED BY <2>1, ReceiveRoles DEF VersionInv, Building
<1>5. CASE DevStop \/ DevStart
  BY <1>5, CheckRoles DEF VersionInv, Older, Building
<1>6. ASSUME NEW id \in RibIds, PublishZero(id) PROVE VersionInv'
  <2>1. ~rib'[id].rib_info
    BY <1>6, PublishZeroRoles DEF ZeroRib
  <2> QED BY <1>6, <2>1, PublishZeroRoles DEF VersionInv, Older
<1>7. CASE NoZero
  BY <1>7, NoZeroRoles DEF VersionInv, Older, Building
<1>8. CASE PublishNew
  BY <1>8, PublishNewRoles DEF VersionInv, Older, Building
<1>9. CASE Reclaim
  <2>1. Building => new # NULL
    BY DEF RcuInv, Ownership, TypeOK, RibManagerAssumption
  <2> QED BY <1>9, <2>1, ReclaimRoles DEF VersionInv, Older, Building
<1> QED
  BY <1>1, <1>3, <1>4, <1>5, <1>6, <1>7, <1>8, <1>9, QuietOrProcessing DEF Processing

(* tap_handler refreshes its ports when the version has grown: a replaced  *)
(* rib that a worker still holds has a smaller version.                    *)
THEOREM VersionsGrow == Spec => []StaleIsOlder
<1>1. Init => VersionInv
  BY DEF Init, VersionInv, Building
<1>2. RcuInv /\ VersionInv /\ [Next]_vars => VersionInv'
  BY VersionStep, RibManagerAssumption
<1>3. RcuInv /\ VersionInv => StaleIsOlder
  BY DEF RcuInv, Readers, VersionInv, Older, StaleIsOlder
<1> QED BY <1>1, <1>2, <1>3, RcuInvariant, PTL DEF Spec
-----------------------------------------------------------------------------
(* The merge of a QCONF message takes the queues of no lcore away.         *)
LEMMA MergedBusy ==
  ASSUME TypeOK, ptr # NULL, NEW msg \in Messages, msg.type = "QCONF"
  PROVE  \A w \in ActiveLcores :
           rib[ptr].lcore_qconf[w] # << >> =>
             Updated(rib_create(ptr), msg).lcore_qconf[w] # << >>
<1> DEFINE r == rib_create(ptr)
           b == rib[ptr]
<1>1. r \in RibContents /\ b \in RibContents /\ msg.qconf \in Qconf
  BY RibCreateType DEF TypeOK, Messages
<1>2. r.lcore_qconf = b.lcore_qconf
  <2>1. r = [b EXCEPT !.rib_info = TRUE, !.ver = b.ver + 1]
    BY DEF rib_create
  <2> HIDE DEF b, r
  <2> QED BY <1>1, <2>1 DEF RibContents
<1> HIDE DEF r, b
<1>3. Updated(r, msg).lcore_qconf = MergeQconf(r.lcore_qconf, msg.qconf)
  BY <1>1 DEF Updated, RibContents
<1>4. ASSUME NEW w \in ActiveLcores, b.lcore_qconf[w] # << >>
      PROVE  MergeQconf(b.lcore_qconf, msg.qconf)[w] # << >>
  BY <1>4, QueueConfAssumption DEF MergeQconf, ActiveLcores, Lcores
<1> QED BY <1>2, <1>3, <1>4 DEF r, b

(* The steps that neither write a rib nor set up a device keep DeviceInv.  *)
LEMMA QuietDevices ==
  ASSUME RibManagerAssumption, RcuInv, DeviceInv, Quiet
  PROVE  DeviceInv'
<1>1. TypeOK /\ managers \in Nat /\ started \in Nat
  BY DEF RcuInv, TypeOK
<1>2. /\ UNCHANGED <<new, old, nextport, ptr, live, rib>>
      /\ mpc' = mpc \/ (mpc \in Outside /\ mpc' \in Outside)
      /\ Building' = Building
      /\ Prepared' = Prepared
  BY <1>1, QuietSteps
<1>3. \A id : Busy(id)' = Busy(id)
  BY <1>2 DEF Busy
<1>4. CASE RibManagerStart
  <2>1. started' = started + 1 /\ managers' = managers + 1 /\ mpc = "idle" /\ mpc' = mpc
    BY <1>4 DEF RibManagerStart, main_vars
  <2>2. started = 0 => ptr = NULL /\ old = NULL /\ ~Building
    BY <2>1 DEF DeviceInv, RcuInv, Ownership, Syncing, Building
  <2>3. started # 0 => started' > 1
    BY <1>1, <2>1
  <2> QED BY <1>1, <1>2, <2>1, <2>2, <2>3 DEF DeviceInv
<1>5. ASSUME UNCHANGED <<dev, tx_buffer, started>>, managers' <= managers, managers' \in Nat
      PROVE  DeviceInv'
  BY <1>1, <1>2, <1>3, <1>5 DEF DeviceInv, TxReady, Outside
<1>6. CASE Shell
  BY <1>1, <1>5, <1>6 DEF Shell, SetThreadQueue, UpdatePortStatus,
    UpdatePortLinkStatus, SetPortDesc, Command, dev_vars
<1>7. CASE RibManagerExit
  BY <1>1, <1>5, <1>7 DEF RibManagerExit, dev_vars
<1>8. ASSUME NEW w \in Workers, Worker(w) PROVE DeviceInv'
  BY <1>1, <1>5, <1>8, WorkerSteps DEF WorkerFrame, dev_vars, shell_vars
<1>9. CASE Control
  BY <1>1, <1>5, <1>9, ControlSteps DEF dev_vars
<1>10. CASE UNCHANGED vars
  BY <1>1, <1>5, <1>10 DEF vars, dev_vars, shell_vars
<1> QED BY <1>4, <1>6, <1>7, <1>8, <1>9, <1>10 DEF Quiet

(* DeviceInv is inductive.                                                 *)
LEMMA DeviceStep ==
  ASSUME RibManagerAssumption, RcuInv, DeviceInv, [Next]_vars
  PROVE  DeviceInv'
<1>1. CASE Quiet
  BY <1>1, QuietDevices
<1>2. TypeOK /\ managers \in Nat /\ started \in Nat
  BY DEF RcuInv, TypeOK
<1>3. ASSUME NEW id \in RibIds, Receive(id)
      PROVE  started' # 0 /\ managers' <= started'
  BY <1>2, <1>3, ReceiveRoles DEF DeviceInv
<1>4. ASSUME mpc \notin Outside PROVE started # 0
  BY <1>4 DEF DeviceInv
<1>5. ASSUME NEW id \in RibIds, ProcessUpdate(id) PROVE DeviceInv'
  <2>1. Receive(id) /\ mpc' = "publish" /\ new' = id /\ msgp.type # "QCONF"
    BY <1>5 DEF ProcessUpdate
  <2>2. rib'[id].lcore_qconf = IF ptr = NULL THEN NoQueues ELSE rib[ptr].lcore_qconf
    BY <1>2, <2>1, ReceiveRoles, UpdatedQconf
  <2>3. Busy(id)' = IF ptr = NULL THEN {} ELSE Busy(ptr)
    BY <2>2, QueueConfAssumption DEF Busy, NoQueues, ActiveLcores, Lcores
  <2>4. ptr # NULL => Busy(ptr)' = Busy(ptr)
    BY <2>1, ReceiveRoles DEF Busy
  <2> QED
    BY <1>3, <2>1, <2>3, <2>4, ReceiveRoles DEF DeviceInv, TxReady
<1>6. ASSUME NEW id \in RibIds, RefuseQconf(id) PROVE DeviceInv'
  <2>1. Receive(id) /\ mpc' = "idle"
    BY <1>6 DEF RefuseQconf, Receive
  <2>2. ptr # NULL => Busy(ptr)' = Busy(ptr)
    BY <2>1, ReceiveRoles DEF Busy
  <2> QED
    BY <1>3, <2>1, <2>2, ReceiveRoles DEF DeviceInv, TxReady, Building
<1>7. ASSUME NEW id \in RibIds, AcceptQconf(id) PROVE DeviceInv'
  <2>1. Receive(id) /\ mpc' = "dev_stop" /\ new' = id /\ msgp.type = "QCONF"
        /\ nextport' = 0
    BY <1>7 DEF AcceptQconf
  <2>2. ptr # NULL => Busy(ptr)' = Busy(ptr) /\ Busy(ptr) \subseteq Busy(id)'
    BY <1>2, <2>1, ReceiveRoles, MergedBusy DEF Busy
  <2>3. \A p \in Ports : ~(p < 0)
    BY QueueConfAssumption DEF Ports
  <2> QED
    BY <1>3, <2>1, <2>2, <2>3, ReceiveRoles DEF DeviceInv, TxReady, Prepared
<1>8. CASE DevStop
  <2>1. \A p \in Ports : dev'[p].ntxq = dev[p].ntxq
    BY <1>2, <1>8 DEF DevStop, TypeOK, Device
  <2>2. tx_buffer' = tx_buffer /\ nextport' = nextport /\ mpc = "dev_stop" /\ mpc' = "dev_start"
    BY <1>8 DEF DevStop
  <2>3. \A id : Busy(id)' = Busy(id)
    BY <1>8, CheckRoles DEF Busy
  <2> QED
    BY <1>8, <1>4, <2>1, <2>2, <2>3, CheckRoles DEF DeviceInv, TxReady, Building, Prepared, Outside
<1>9. CASE DevStart
  <2> DEFINE qc == rib[new].lcore_qconf
  <2>1. qc \in Qconf
    BY <1>2, <1>9, CheckRoles DEF TypeOK, RibContents
  <2>2. Ntxq(qc) \in Nat /\ \A w \in ActiveLcores : qc[w] # << >> => w < Ntxq(qc)
    BY <2>1, NtxqFacts
  <2>3. \A w \in Busy(new) : w < dev'[nextport].ntxq /\ w \in tx_buffer'[nextport]
    <3>1. /\ dev'[nextport].ntxq = Ntxq(qc)
          /\ tx_buffer'[nextport] = tx_buffer[nextport] \union 0..Ntxq(qc) - 1
      BY <1>2, <1>9 DEF DevStart, TypeOK
    <3>2. \A w \in Busy(new) : w < Ntxq(qc) /\ w \in 0..Ntxq(qc) - 1
      BY <2>2, QueueConfAssumption DEF Busy, ActiveLcores
    <3> QED BY <3>1, <3>2
  <2>4. \A p \in Ports \ {nextport} : dev'[p] = dev[p] /\ tx_buffer'[p] = tx_buffer[p]
    BY <1>2, <1>9 DEF DevStart, TypeOK
  <2>5. /\ mpc = "dev_start" /\ mpc' \in {"zero", "dev_stop"}
        /\ mpc' = "zero" => nextport + 1 = NPorts
        /\ mpc' = "dev_stop" => nextport' = nextport + 1
    BY <1>9 DEF DevStart
  <2>6. \A id : Busy(id)' = Busy(id)
    BY <1>9, CheckRoles DEF Busy
  <2>7. \A p \in Ports : (mpc' = "zero" \/ p < nextport') => p < nextport \/ p = nextport
    BY <1>2, <2>5, QueueConfAssumption DEF TypeOK, Ports
  <2>8. started <= 1 =>
          \A w \in Busy(new), p \in Ports : Prepared' \/ p < nextport' => TxReady(w, p)'
    BY <2>3, <2>4, <2>5, <2>7 DEF DeviceInv, TxReady, Building, Prepared
  <2>9. started <= 1 /\ ptr # NULL =>
          \A w \in Busy(ptr), p \in Ports : TxReady(w, p)'
    BY <2>3, <2>4, <2>5 DEF DeviceInv, TxReady
  <2> HIDE DEF qc
  <2> QED
    BY <1>4, <1>9, <2>5, <2>6, <2>8, <2>9, CheckRoles DEF DeviceInv, Outside
<1>10. ASSUME NEW id \in RibIds, PublishZero(id) PROVE DeviceInv'
  <2>1. Busy(id)' = {} /\ Busy(new)' = Busy(new)
    BY <1>10, PublishZeroRoles, QueueConfAssumption
    DEF Busy, ZeroRib, NoQueues, ActiveLcores, Lcores
  <2>2. ptr # NULL => {w \in ActiveLcores : rib'[ptr].lcore_qconf[w] # << >>} = Busy(ptr)
    BY <1>10, PublishZeroRoles DEF Busy
  <2> QED
    BY <1>4, <1>10, <2>1, <2>2, PublishZeroRoles
    DEF DeviceInv, TxReady, Building, Prepared, Outside, Busy
<1>11. CASE NoZero
  BY <1>4, <1>11, NoZeroRoles DEF DeviceInv, TxReady, Building, Prepared, Outside, Busy
<1>12. CASE PublishNew
  BY <1>4, <1>12, PublishNewRoles
  DEF DeviceInv, TxReady, Building, Prepared, Outside, Busy
<1>13. CASE Reclaim
  <2>1. Building => new # NULL
    BY DEF RcuInv, Ownership, TypeOK, RibManagerAssumption
  <2> QED
    BY <1>4, <1>13, <2>1, ReclaimRoles
    DEF DeviceInv, TxReady, Building, Prepared, Outside, Busy
<1> QED
  BY <1>1, <1>5, <1>6, <1>7, <1>8, <1>9, <1>10, <1>11, <1>12, <1>13,
     QuietOrProcessing DEF Processing

(* The tx queue and the tx buffer that a worker sends on exist on every    *)
(* port, whichever rib it still holds while rib_check() goes through the   *)
(* ports.  Only a second rib_manager() takes the buffers away.             *)
THEOREM TxQueuesReady == Spec => [](started <= 1 => ServedTxReady)
<1>1. Init => DeviceInv
  BY DEF Init, DeviceInv, Building, Outside
<1>2. RcuInv /\ DeviceInv /\ [Next]_vars => DeviceInv'
  BY DeviceStep, RibManagerAssumption
<1>3. ServiceInv /\ DeviceInv => (started <= 1 => ServedTxReady)
  <2> SUFFICES ASSUME ServiceInv, DeviceInv, started <= 1,
                      NEW w \in Workers, Serving(w), NEW p \in Ports
               PROVE  TxReady(w, p)
    BY DEF ServedTxReady, TxReady
  <2>1. held[w] \in {ptr, old} \ {NULL} /\ w \in ActiveLcores
        /\ Elems(rib[held[w]].lcore_qconf[w]) # {}
    BY ServedInRib, RibManagerAssumption
  <2>2. w \in Busy(held[w])
    BY <2>1 DEF Busy, Elems
  <2> QED BY <2>1, <2>2 DEF DeviceInv
<1> QED BY <1>1, <1>2, <1>3, RcuInvariant, ServiceInvariant, PTL DEF Spec
-----------------------------------------------------------------------------
(* The ring takes a prefix of what is sent.                                *)
LEMMA SentPrefix ==
  ASSUME RibManagerAssumption, TypeOK, NEW msgs \in Seq(Messages),
         internal_msg_send_to(msgs)
  PROVE  \E pre \in Seq(Messages) :
           /\ msg_queue' = msg_queue \o pre
           /\ \A i \in 1..Len(pre) : i \in 1..Len(msgs) /\ pre[i] = msgs[i]
<1> DEFINE room == IF ring = "up" THEN MsgRingSize - Len(msg_queue) ELSE 0
           k == IF Len(msgs) <= room THEN Len(msgs) ELSE room
           pre == SubSeq(msgs, 1, k)
<1>1. k \in Int /\ k <= Len(msgs)
  BY DEF RibManagerAssumption, TypeOK
<1>2. pre \in Seq(Messages)
  BY <1>1, PrefixType
<1>3. \A i \in 1..Len(pre) : i \in 1..Len(msgs) /\ pre[i] = msgs[i]
  <2> HIDE DEF k
  <2>1. CASE k >= 1
    <3>1. pre = [i \in 1..k |-> msgs[i]] /\ Len(pre) = k
      BY <1>1, <2>1
    <3> QED BY <1>1, <3>1
  <2>2. CASE k < 1
    <3>1. pre = << >>
      BY <1>1, <2>2
    <3> HIDE DEF pre
    <3>2. Len(pre) = 0
      BY <3>1
    <3> QED BY <3>2
  <2> QED BY <1>1, <2>1, <2>2
<1>4. msg_queue' = msg_queue \o pre
  BY DEF internal_msg_send_to
<1> HIDE DEF pre
<1> QED BY <1>2, <1>3, <1>4

(* Messages of other kinds do not come between the shell's table and the   *)
(* rib manager.                                                            *)
LEMMA OtherMessages ==
  ASSUME RibManagerAssumption, TypeOK, NEW msgs \in Seq(Messages),
         internal_msg_send_to(msgs), \A i \in 1..Len(msgs) : ~IsQconf(msgs[i]),
         thread_qconf' = thread_qconf
  PROVE  (LastSent => LastSent') /\ (NoneSent => NoneSent')
<1>1. PICK pre \in Seq(Messages) :
           /\ msg_queue' = msg_queue \o pre
           /\ \A i \in 1..Len(pre) : i \in 1..Len(msgs) /\ pre[i] = msgs[i]
  BY SentPrefix
<1>2. msg_queue \in Seq(Messages)
  BY DEF TypeOK
<1>3. /\ Len(msg_queue') = Len(msg_queue) + Len(pre)
      /\ \A i \in 1..Len(msg_queue) : msg_queue'[i] = msg_queue[i]
      /\ \A i \in 1..Len(msg_queue') :
           i > Len(msg_queue) => msg_queue'[i] = pre[i - Len(msg_queue)]
                                 /\ i - Len(msg_queue) \in 1..Len(pre)
  BY <1>1, <1>2
<1>4. ASSUME NEW i \in 1..Len(msg_queue'), i > Len(msg_queue)
      PROVE  ~IsQconf(msg_queue'[i])
  <2>1. PICK k \in 1..Len(pre) : msg_queue'[i] = pre[k]
    BY <1>3, <1>4
  <2>2. k \in 1..Len(msgs) /\ pre[k] = msgs[k]
    BY <1>1
  <2> QED BY <2>1, <2>2
<1>5. Len(msg_queue) \in Nat /\ Len(pre) \in Nat
  BY <1>2
<1>6. NoneSent => NoneSent'
  BY <1>3, <1>4, <1>5 DEF NoneSent
<1>7. ASSUME LastSent PROVE LastSent'
  <2>1. PICK i \in 1..Len(msg_queue) :
          /\ IsQconf(msg_queue[i]) /\ msg_queue[i].qconf = thread_qconf
          /\ \A j \in i + 1..Len(msg_queue) : ~IsQconf(msg_queue[j])
    BY <1>7 DEF LastSent
  <2>2. i \in 1..Len(msg_queue') /\ msg_queue'[i] = msg_queue[i]
    BY <1>3, <1>5
  <2>3. ASSUME NEW j \in i + 1..Len(msg_queue') PROVE ~IsQconf(msg_queue'[j])
    <3>1. j \in 1..Len(msg_queue')
      BY <1>3, <1>5
    <3>2. CASE j > Len(msg_queue)
      BY <1>4, <3>1, <3>2
    <3>3. CASE j <= Len(msg_queue)
      BY <1>3, <1>5, <2>1, <3>3
    <3> QED BY <1>5, <3>2, <3>3
  <2> QED BY <2>1, <2>2, <2>3 DEF LastSent
<1> QED BY <1>6, <1>7

(* A sequence with one element at most joins another.                      *)
LEMMA JoinOne ==
  ASSUME NEW S, NEW s \in Seq(S), NEW t \in Seq(S), NEW m \in S,
         Len(t) # 0, \A i \in 1..Len(t) : i = 1 /\ t[i] = m
  PROVE  /\ Len(s \o t) = Len(s) + 1 /\ Len(s) \in Nat
         /\ (s \o t)[Len(s) + 1] = m
<1>1. Len(t) \in Nat /\ Len(s) \in Nat
  OBVIOUS
<1>2. Len(t) \in 1..Len(t) /\ 1 \in 1..Len(t)
  BY <1>1
<1>3. Len(t) = 1 /\ t[1] = m
  BY <1>2
<1>4. Len(s \o t) = Len(s) + 1
  <2>1. Len(s \o t) = Len(s) + Len(t)
    BY ConcatProperties
  <2> QED BY <1>3, <2>1
<1>5. (s \o t)[Len(s) + 1] = t[1]
  <2>1. /\ Len(s) + 1 \in 1..Len(s) + Len(t) /\ ~(Len(s) + 1 <= Len(s))
        /\ (Len(s) + 1) - Len(s) = 1
    BY <1>1, <1>3
  <2>2. (s \o t)[Len(s) + 1] = t[(Len(s) + 1) - Len(s)]
    BY <2>1, ConcatProperties
  <2> QED BY <2>1, <2>2
<1> QED BY <1>1, <1>3, <1>4, <1>5

(* A shell command leaves its table in the ring, or says that it did not.  *)
LEMMA ShellLatest ==
  ASSUME RibManagerAssumption, RcuInv, LatestInv, Shell
  PROVE  LatestInv'
<1>1. TypeOK /\ msg_queue \in Seq(Messages)
  BY DEF RcuInv, TypeOK
<1>2. Arrived /\ thread_qconf' = thread_qconf => Arrived'
  <2>1. Quiet
    BY DEF Quiet
  <2> QED BY <1>1, <2>1, QuietSteps DEF Arrived, Pending
<1>3. ASSUME NEW l \in Lcores, NEW pq \in PortQueue, SetThreadQueue(l, pq)
      PROVE  LatestInv'
  <2> DEFINE m == [type |-> "QCONF", qconf |-> thread_qconf']
  <2>1. thread_qconf' \in Qconf /\ internal_msg_send_to(<<m>>)
        /\ qconf_stale' = (msg_queue' = msg_queue)
    BY <1>1, <1>3, SetThreadType DEF SetThreadQueue, TypeOK
  <2>2. <<m>> \in Seq(Messages) /\ Len(<<m>>) = 1 /\ <<m>>[1] = m
    BY <2>1, CommandMessages
  <2>3. PICK pre \in Seq(Messages) :
           /\ msg_queue' = msg_queue \o pre
           /\ \A i \in 1..Len(pre) : i \in 1..Len(<<m>>) /\ pre[i] = <<m>>[i]
    BY <1>1, <2>1, <2>2, SentPrefix
  <2>4. CASE Len(pre) = 0
    <3>1. msg_queue' = msg_queue
      BY <1>1, <2>3, <2>4
    <3> QED BY <2>1, <3>1 DEF LatestInv
  <2>5. CASE Len(pre) # 0
    <3>1. m \in Messages
      BY <2>1 DEF Messages
    <3>2. /\ Len(msg_queue') = Len(msg_queue) + 1 /\ Len(msg_queue) \in Nat
          /\ msg_queue'[Len(msg_queue) + 1] = m
      <4> HIDE DEF m
      <4>1. \A i \in 1..Len(pre) : i = 1 /\ pre[i] = m
        BY <2>2, <2>3
      <4> QED BY <1>1, <2>3, <2>5, <3>1, <4>1, JoinOne
    <3>3. LastSent'
      BY <3>2 DEF LastSent, IsQconf
    <3> QED BY <3>3 DEF LatestInv
  <2> QED BY <2>4, <2>5
<1>4. ASSUME NEW msgs \in Seq(Messages), internal_msg_send_to(msgs),
             \A i \in 1..Len(msgs) : ~IsQconf(msgs[i]),
             UNCHANGED <<thread_qconf, qconf_stale>>
      PROVE  LatestInv'
  BY <1>1, <1>2, <1>4, OtherMessages DEF LatestInv
<1>5. CASE UpdatePortStatus
  <2> DEFINE msgs == <<[type |-> "PORT_STATUS"]>>
  <2>1. msgs \in Seq(Messages) /\ \A i \in 1..Len(msgs) : ~IsQconf(msgs[i])
    BY CommandMessages DEF IsQconf
  <2>2. internal_msg_send_to(msgs) /\ UNCHANGED <<thread_qconf, qconf_stale>>
    BY <1>5 DEF UpdatePortStatus
  <2> HIDE DEF msgs
  <2> QED BY <1>4, <2>1, <2>2
<1>6. CASE UpdatePortLinkStatus
  <2> DEFINE msgs == <<[type |-> "ETH_LINK"]>>
  <2>1. msgs \in Seq(Messages) /\ \A i \in 1..Len(msgs) : ~IsQconf(msgs[i])
    BY CommandMessages DEF IsQconf
  <2>2. internal_msg_send_to(msgs) /\ UNCHANGED <<thread_qconf, qconf_stale>>
    BY <1>6 DEF UpdatePortLinkStatus
  <2> HIDE DEF msgs
  <2> QED BY <1>4, <2>1, <2>2
<1>7. ASSUME NEW first \in Ports, NEW last \in Ports, first <= last,
             NEW f, NEW v \in DescValues, SetPortDesc(first, last, f, v)
      PROVE  LatestInv'
  <2> DEFINE msgs == DescMsgs(first, last, f, v)
  <2>1. v \in Nat
    BY DEF RibManagerAssumption
  <2>2. msgs \in Seq(Messages)
    BY <1>1, <1>7, <2>1, DescMessages
  <2>3. \A i \in 1..Len(msgs) : ~IsQconf(msgs[i])
    <3>1. last - first + 1 \in Nat
      BY <1>7, QueueConfAssumption DEF Ports
    <3> QED BY <3>1 DEF DescMsgs, IsQconf
  <2> HIDE DEF msgs
  <2> QED BY <1>4, <1>7, <2>2, <2>3 DEF SetPortDesc, msgs
<1>8. /\ 0 \in Ports /\ NPorts - 1 \in Ports /\ 0 <= NPorts - 1
      /\ \A p \in Ports : p <= p
  BY QueueConfAssumption DEF Ports
<1> QED BY <1>3, <1>5, <1>6, <1>7, <1>8 DEF Shell

(* A QCONF message gives its lists to every lcore that has any in it.      *)
LEMMA MergedTable ==
  ASSUME TypeOK, NEW msg \in Messages, IsQconf(msg)
  PROVE  \A l \in ActiveLcores :
           msg.qconf[l] # << >> =>
             Updated(rib_create(ptr), msg).lcore_qconf[l] = msg.qconf[l]
<1> DEFINE r == rib_create(ptr)
<1>1. r \in RibContents
  BY RibCreateType
<1> HIDE DEF r
<1>2. Updated(r, msg).lcore_qconf = MergeQconf(r.lcore_qconf, msg.qconf)
  BY <1>1 DEF Updated, RibContents, IsQconf
<1> QED
  BY <1>2, QueueConfAssumption DEF MergeQconf, ActiveLcores, Lcores, r

(* Taking the first message out of the ring.                               *)
LEMMA ReceiveLatest ==
  ASSUME RibManagerAssumption, TypeOK, NEW id \in RibIds, Receive(id)
  PROVE  /\ NoneSent => NoneSent' /\ ~IsQconf(msgp)
         /\ LastSent => \/ LastSent'
                        \/ NoneSent' /\ IsQconf(msgp) /\ msgp.qconf = thread_qconf
<1>1. /\ msg_queue \in Seq(Messages) /\ msg_queue # << >>
      /\ msg_queue' = Tail(msg_queue) /\ thread_qconf' = thread_qconf
  BY DEF TypeOK, Receive
<1>2. /\ Len(msg_queue') = Len(msg_queue) - 1 /\ Len(msg_queue) \in Nat \ {0}
      /\ \A i \in 1..Len(msg_queue') : msg_queue'[i] = msg_queue[i + 1]
      /\ msgp = msg_queue[1]
  BY <1>1 DEF msgp
<1>3. ASSUME NoneSent PROVE NoneSent' /\ ~IsQconf(msgp)
  BY <1>2, <1>3 DEF NoneSent
<1>4. ASSUME LastSent
      PROVE  \/ LastSent'
             \/ NoneSent' /\ IsQconf(msgp) /\ msgp.qconf = thread_qconf
  <2>1. PICK i \in 1..Len(msg_queue) :
          /\ IsQconf(msg_queue[i]) /\ msg_queue[i].qconf = thread_qconf
          /\ \A j \in i + 1..Len(msg_queue) : ~IsQconf(msg_queue[j])
    BY <1>4 DEF LastSent
  <2>2. CASE i = 1
    <3>1. NoneSent'
      BY <1>2, <2>1, <2>2 DEF NoneSent
    <3> QED BY <1>2, <2>1, <2>2, <3>1
  <2>3. CASE i # 1
    <3>1. i - 1 \in 1..Len(msg_queue') /\ msg_queue'[i - 1] = msg_queue[i]
      BY <1>2, <2>3
    <3>2. \A j \in (i - 1) + 1..Len(msg_queue') : ~IsQconf(msg_queue'[j])
      BY <1>2, <2>1, <2>3
    <3>3. LastSent'
      BY <1>1, <2>1, <3>1, <3>2 DEF LastSent
    <3> QED BY <3>3
  <2> QED BY <2>2, <2>3
<1> QED BY <1>3, <1>4

(* LatestInv is inductive.                                                 *)
LEMMA LatestStep ==
  ASSUME RibManagerAssumption, RcuInv, LatestInv, [Next]_vars
  PROVE  LatestInv'
<1>1. TypeOK
  BY DEF RcuInv
<1>2. ASSUME UNCHANGED <<thread_qconf, msg_queue, qconf_stale>>, Arrived => Arrived'
      PROVE  LatestInv'
  BY <1>2 DEF LatestInv, LastSent, NoneSent
<1>3. CASE Quiet
  <2>1. UNCHANGED thread_qconf => (Arrived => Arrived')
    BY <1>1, <1>3, QuietSteps DEF Arrived, Pending
  <2>2. CASE Shell
    BY <2>2, ShellLatest
  <2>3. CASE RibManagerStart \/ RibManagerExit
    <3>1. DropMessages /\ UNCHANGED thread_qconf
      BY <2>3 DEF RibManagerStart, RibManagerExit
    <3>2. NoneSent'
      BY <3>1 DEF DropMessages, NoneSent
    <3>3. LastSent => qconf_stale'
      <4> SUFFICES ASSUME LastSent PROVE qconf_stale'
        OBVIOUS
      <4>1. \E i \in 1..Len(msg_queue) : msg_queue[i].type = "QCONF"
        BY DEF LastSent, IsQconf
      <4> QED BY <3>1, <4>1 DEF DropMessages, Elems
    <3> QED BY <2>1, <3>1, <3>2, <3>3 DEF LatestInv, DropMessages
  <2>4. ASSUME NEW w \in Workers, Worker(w) PROVE LatestInv'
    BY <1>1, <1>2, <2>1, <2>4, WorkerSteps DEF WorkerFrame, shell_vars, ghost_vars
  <2>5. CASE Control
    BY <1>1, <1>2, <2>1, <2>5, ControlSteps DEF ghost_vars
  <2>6. CASE UNCHANGED vars
    BY <1>2, <2>1, <2>6 DEF vars, shell_vars, ghost_vars
  <2> QED BY <1>3, <2>2, <2>3, <2>4, <2>5, <2>6 DEF Quiet
<1>4. ASSUME NEW id \in RibIds, ProcessUpdate(id) PROVE LatestInv'
  <2>1. Receive(id) /\ mpc' = "publish" /\ new' = id /\ msgp.type # "QCONF"
        /\ UNCHANGED <<thread_qconf, qconf_stale>>
    BY <1>4 DEF ProcessUpdate, Receive
  <2>2. rib'[id].lcore_qconf = IF ptr = NULL THEN NoQueues ELSE rib[ptr].lcore_qconf
    BY <1>1, <2>1, ReceiveRoles, UpdatedQconf
  <2>3. Arrived => Arrived'
    <3>1. Pending = ptr /\ Pending' = id /\ id # NULL
      BY <2>1, ReceiveRoles DEF Pending, Building
    <3> QED BY <2>1, <2>2, <3>1 DEF Arrived
  <2> QED BY <1>1, <2>1, <2>3, ReceiveLatest DEF LatestInv, IsQconf
<1>5. ASSUME NEW id \in RibIds, RefuseQconf(id) PROVE LatestInv'
  <2>1. Receive(id) /\ IsQconf(msgp) /\ thread_qconf' = thread_qconf
        /\ qconf_stale' = (qconf_stale \/ \A m \in Elems(msg_queue') : m.type # "QCONF")
    BY <1>5 DEF RefuseQconf, Receive, IsQconf
  <2>2. NoneSent' => qconf_stale'
    BY <2>1 DEF NoneSent, IsQconf, Elems
  <2> QED BY <1>1, <2>1, <2>2, ReceiveLatest DEF LatestInv
<1>6. ASSUME NEW id \in RibIds, AcceptQconf(id) PROVE LatestInv'
  <2>1. Receive(id) /\ IsQconf(msgp) /\ UNCHANGED <<thread_qconf, qconf_stale>>
        /\ mpc' = "dev_stop" /\ new' = id
    BY <1>6 DEF AcceptQconf, Receive, IsQconf
  <2>2. msgp.qconf = thread_qconf => Arrived'
    <3>1. Pending' = id /\ id # NULL
      BY <2>1, ReceiveRoles DEF Pending, Building
    <3>2. \A l \in ActiveLcores : msgp.qconf[l] # << >> =>
            rib'[id].lcore_qconf[l] = msgp.qconf[l]
      BY <1>1, <2>1, ReceiveRoles, MergedTable
    <3> QED BY <2>1, <3>1, <3>2 DEF Arrived
  <2> QED BY <1>1, <2>1, <2>2, ReceiveLatest DEF LatestInv
<1>7. CASE DevStop \/ DevStart
  <2>1. Arrived => Arrived'
    BY <1>7, CheckRoles DEF Arrived, Pending, Building
  <2> QED BY <1>2, <1>7, <2>1, CheckRoles
<1>8. ASSUME NEW id \in RibIds, PublishZero(id) PROVE LatestInv'
  <2>1. Arrived => Arrived'
    BY <1>8, PublishZeroRoles DEF Arrived, Pending, Building
  <2> QED BY <1>2, <1>8, <2>1, PublishZeroRoles
<1>9. CASE NoZero
  <2>1. Arrived => Arrived'
    BY <1>9, NoZeroRoles DEF Arrived, Pending, Building
  <2> QED BY <1>2, <1>9, <2>1, NoZeroRoles
<1>10. CASE PublishNew
  <2>1. Arrived => Arrived'
    BY <1>10, PublishNewRoles DEF Arrived, Pending, Building
  <2> QED BY <1>2, <1>10, <2>1, PublishNewRoles
<1>11. CASE Reclaim
  <2>1. Pending' = Pending /\ Pending \in {ptr, new}
    BY <1>11, ReclaimRoles DEF Pending, Building
  <2>2. Pending # NULL => rib'[Pending] = rib[Pending]
    BY <1>11, <2>1, ReclaimRoles
  <2>3. Arrived => Arrived'
    BY <1>11, <2>1, <2>2, ReclaimRoles DEF Arrived
  <2> QED BY <1>2, <1>11, <2>3, ReclaimRoles
<1> QED
  BY <1>3, <1>4, <1>5, <1>6, <1>7, <1>8, <1>9, <1>10, <1>11, QuietOrProcessing
  DEF Processing

(* The last "set thread" that was neither lost nor refused is what the rib *)
(* says, whatever happened to the messages before it.                      *)
THEOREM LatestQconfWins == Spec => []LastQconfWins
<1>1. Init => LatestInv
  BY QueueConfAssumption
  DEF Init, LatestInv, NoneSent, Arrived, NoQueues, ActiveLcores, Lcores
<1>2. RcuInv /\ LatestInv /\ [Next]_vars => LatestInv'
  BY LatestStep, RibManagerAssumption
<1>3. LatestInv => LastQconfWins
  BY DEF LatestInv, LastQconfWins, LastSent, Arrived, Pending, Building
<1> QED BY <1>1, <1>2, <1>3, RcuInvariant, PTL DEF Spec
=============================================================================
