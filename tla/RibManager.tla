----------------------------- MODULE RibManager ------------------------------
(***************************************************************************)
(* The rib and its readers.                                                *)
(*                                                                         *)
(* The main pthread runs the shells and the rib manager as cooperative     *)
(* lthreads: a shell command or one rib_manager_process_message() call     *)
(* runs to its end before another lthread gets the processor, so there is  *)
(* one program counter, mpc, for all of them.  The lcore workers           *)
(* (l2_repeater, nettlp_thread, tap_handler) are pthreads on other cores   *)
(* that interleave with every step of it.  They share                      *)
(*   - rcu_global_ptr_rib, replaced by the rib manager and read by the     *)
(*     workers under userspace RCU (QSBR): a replaced rib is freed after a *)
(*     grace period;                                                       *)
(*   - the Ethernet devices and the tap rings, prepared by rib_check().    *)
(*                                                                         *)
(* A rib is a heap object: live is the set of allocated ones.  A freed     *)
(* object may be handed out again by the next malloc().                    *)
(***************************************************************************)
EXTENDS QueueConf

CONSTANTS
  RibIds,          \* addresses malloc() may return for a struct rib
  NULL,            \* the null pointer
  Workers,         \* lcores the operator launches workers on
  Func,            \* worker |-> the function it runs (lcore_workers[].func)
  NRxPort,         \* lcores with lcore_queue_conf[].n_rx_port # 0
  MsgRingSize,     \* usable entries of msg_queue_rib (31 in the program)
  DescValues,      \* descriptor numbers the operator enters
  DescDefault,     \* RX_DESC_DEFAULT and TX_DESC_DEFAULT
  Commands,        \* what the environment does in this instance
  MaxCommands,     \* bound: shell commands that send a message
  MaxManagers,     \* bound: "set worker lthread rib-manager" commands
  MallocMayFail    \* whether the malloc() of the zero rib may return NULL

WorkerFuncs == {"l2_repeater", "nettlp_thread", "tap_handler"}
LcoreVerbs == {"start", "stop", "restart"}
CommandNames ==
  {"qconf", "port_status", "eth_link", "txrx_desc", "sigterm"} \union LcoreVerbs

lthread_core == 0

(* The lcores whose flags somebody tests.                                  *)
Controlled == Workers \union {lthread_core}

ASSUME RibManagerAssumption ==
  /\ NULL \notin RibIds
  /\ Workers \subseteq ActiveLcores \ {0}
  /\ Func \in [Workers -> WorkerFuncs]
  /\ NRxPort \subseteq Workers
  /\ MsgRingSize \in Nat \ {0}
  /\ DescValues \subseteq Nat \ {0}
  /\ DescDefault \in Nat \ {0}
  /\ Commands \subseteq CommandNames
  /\ MaxCommands \in Nat
  /\ MaxManagers \in Nat
  /\ MallocMayFail \in BOOLEAN

VARIABLES
  \* --- main pthread: shells and rib manager
  thread_qconf,    \* the queue configuration the shell edits
  managers,        \* rib_manager lthreads running
  started,         \* rib_manager lthreads ever started
  ring,            \* msg_queue_rib: "null", "up" or "freed"
  msg_queue,       \* the messages in it
  verb, todo,      \* start_stop_worker: argv[0] and the lcores still to visit
  mpc,             \* where the main pthread is
  new,             \* rib_manager_process_message: the rib being built
  old,             \* rib_replace: the rib to reclaim
  nextport,        \* rib_check: the port loop
  \* --- shared
  ptr,             \* rcu_global_ptr_rib
  live,            \* allocated ribs
  rib,             \* their contents
  dev,             \* the Ethernet devices
  tx_buffer,       \* port |-> the lcores with a tx_buffer_per_q[port][lcore]
  rings,           \* (port, queue) pairs with ring_up and ring_dn
  \* --- QSBR
  gp,              \* readers that the grace period still waits for
  \* --- lcore workers
  force_quit, force_stop,
  wpc,             \* "wait", "launched", "top" (of the loop) or "read"
  held,            \* the worker's thread-local rib pointer, NULL outside
  idx,             \* the rx_queue_list entry it is serving, 0 before the first
  \* --- what the operator did, for the properties
  sent,            \* commands issued
  leaked,          \* ribs that process_message() returned without
  lost,            \* a message did not reach the ring
  qconf_stale      \* the last QCONF message was lost or refused

shell_vars == <<thread_qconf, managers, started, ring, msg_queue, verb, todo>>
main_vars == <<mpc, new, old, nextport>>
rib_vars == <<ptr, live, rib>>
dev_vars == <<dev, tx_buffer, rings>>
worker_vars == <<force_quit, force_stop, wpc, held, idx>>
ghost_vars == <<sent, leaked, lost, qconf_stale>>
vars == <<shell_vars, main_vars, rib_vars, dev_vars, gp, worker_vars, ghost_vars>>

-----------------------------------------------------------------------------
(* Contents of a rib: rib_info is FALSE when the rib_info pointer is NULL. *)
(* lcore_size is always LcoreCount when it is read; link state and the     *)
(* tapif and vswitch arrays are never read by a worker.                    *)
Desc == [nb_rxd : Nat, nb_txd : Nat]
NoDesc == [p \in Ports |-> [nb_rxd |-> 0, nb_txd |-> 0]]

RibContents ==
  [rib_info : BOOLEAN, ver : Nat, lcore_qconf : Qconf,
   nb_rx_queues : [Ports -> Nat], desc : [Ports -> Desc]]

(* memset (zero, 0, sizeof (struct rib)) *)
ZeroRib ==
  [rib_info |-> FALSE, ver |-> 0, lcore_qconf |-> NoQueues,
   nb_rx_queues |-> [p \in Ports |-> 0], desc |-> NoDesc]

Messages ==
  [type : {"QCONF"}, qconf : Qconf]
    \union [type : {"PORT_STATUS", "ETH_LINK"}]
    \union [type : {"TXRX_DESC"}, portid : Ports, desc : Desc]

Device == [nrxq : Nat, ntxq : Nat, started : BOOLEAN]

(* Mutant: the version is copied too.                                      *)
RibCreateSameVersion(o) ==
  [(IF o = NULL THEN ZeroRib ELSE rib[o]) EXCEPT !.rib_info = TRUE]

(* rib_create (old): a copy of old, or zeros, with the version advanced.   *)
rib_create(o) ==
  [(IF o = NULL THEN ZeroRib ELSE rib[o]) EXCEPT
      !.rib_info = TRUE, !.ver = @ + 1]

Registered == {w \in Workers : wpc[w] \in {"top", "read"}}

-----------------------------------------------------------------------------
(* Shell commands.  internal_msg_send_to() drops what the ring does not    *)
(* take: a NULL ring, a full one, or one that the rib manager has freed.   *)
internal_msg_send_to(msgs) ==
  LET room == IF ring = "up" THEN MsgRingSize - Len(msg_queue) ELSE 0
      taken == IF Len(msgs) <= room THEN Len(msgs) ELSE room
  IN  /\ msg_queue' = msg_queue \o SubSeq(msgs, 1, taken)
      /\ lost' = (lost \/ taken < Len(msgs))

Command(name) ==
  /\ name \in Commands
  /\ mpc = "idle"
  /\ sent < MaxCommands
  /\ sent' = sent + 1
  /\ UNCHANGED <<managers, started, ring, verb, todo, main_vars, rib_vars,
                 dev_vars, gp, worker_vars, leaked>>

(* "set thread N port P queue Q" *)
SetThreadQueue(lcore, pq) ==
  /\ Command("qconf")
  /\ thread_qconf' = set_thread_lcore_port_queue(thread_qconf, lcore, pq)
  /\ internal_msg_send_to(<<[type |-> "QCONF", qconf |-> thread_qconf']>>)
  /\ qconf_stale' = (msg_queue' = msg_queue)

(* "update port status" *)
UpdatePortStatus ==
  /\ Command("port_status")
  /\ internal_msg_send_to(<<[type |-> "PORT_STATUS"]>>)
  /\ UNCHANGED <<thread_qconf, qconf_stale>>

(* "update port link-status" *)
UpdatePortLinkStatus ==
  /\ Command("eth_link")
  /\ internal_msg_send_to(<<[type |-> "ETH_LINK"]>>)
  /\ UNCHANGED <<thread_qconf, qconf_stale>>

(* "set port (P|all) (nrxdesc|ntxdesc) N" sends one message per port, each *)
(* with both numbers: the one that was not entered is that of the rib of   *)
(* this moment, or the default if the rib has none.                        *)
SetField(d, which, val) ==
  [nb_rxd |-> IF which = "nb_rxd" THEN val ELSE d.nb_rxd,
   nb_txd |-> IF which = "nb_txd" THEN val ELSE d.nb_txd]

CurrentDesc(port) ==
  LET cur == IF ptr # NULL THEN rib[ptr].desc[port] ELSE NoDesc[port]
  IN  [nb_rxd |-> IF cur.nb_rxd = 0 THEN DescDefault ELSE cur.nb_rxd,
       nb_txd |-> IF cur.nb_txd = 0 THEN DescDefault ELSE cur.nb_txd]

DescMsgs(first, last, which, val) ==
  [i \in 1..last - first + 1 |->
     [type |-> "TXRX_DESC", portid |-> first + i - 1,
      desc |-> SetField(CurrentDesc(first + i - 1), which, val)]]

SetPortDesc(first, last, which, val) ==
  /\ Command("txrx_desc")
  /\ internal_msg_send_to(DescMsgs(first, last, which, val))
  /\ UNCHANGED <<thread_qconf, qconf_stale>>

-----------------------------------------------------------------------------
(* The messages in the ring are no longer reachable.                       *)
DropMessages ==
  /\ msg_queue' = << >>
  /\ lost' = (lost \/ msg_queue # << >>)
  /\ qconf_stale' = (qconf_stale \/ \E m \in Elems(msg_queue) : m.type = "QCONF")
  /\ UNCHANGED <<sent, leaked>>

(* rib_manager(): start and end of the lthread.  rte_ring_create() returns *)
(* NULL when a ring of that name exists.                                   *)
RibManagerStart ==
  /\ mpc = "idle"
  /\ started < MaxManagers
  /\ started' = started + 1
  /\ managers' = managers + 1
  /\ ring' = IF started = 0 \/ ring = "freed" THEN "up" ELSE "null"
  /\ DropMessages
  /\ tx_buffer' = [p \in Ports |-> {}]
  /\ UNCHANGED <<thread_qconf, verb, todo, main_vars, rib_vars, dev, rings, gp,
                 worker_vars>>

RibManagerExit ==
  /\ mpc = "idle"
  /\ managers > 0
  /\ force_quit \/ force_stop[lthread_core]
  /\ managers' = managers - 1
  /\ ring' = IF ring = "up" THEN "freed" ELSE ring
  /\ DropMessages
  /\ UNCHANGED <<thread_qconf, started, verb, todo, main_vars, rib_vars,
                 dev_vars, gp, worker_vars>>

-----------------------------------------------------------------------------
(* rib_manager_process_message().                                          *)

(* What the message changes in the copy.                                   *)
Updated(r, msg) ==
  CASE msg.type = "PORT_STATUS" ->
         [r EXCEPT !.nb_rx_queues = [p \in Ports |-> dev[p].nrxq]]
    [] msg.type = "ETH_LINK" -> r
    [] msg.type = "QCONF" ->
         [r EXCEPT !.lcore_qconf = MergeQconf(@, msg.qconf)]
    [] msg.type = "TXRX_DESC" ->
         [r EXCEPT !.desc[msg.portid] = msg.desc]

msgp == Head(msg_queue)

Receive(id) ==
  /\ mpc = "idle"
  /\ managers > 0
  /\ msg_queue # << >>
  /\ msg_queue' = Tail(msg_queue)
  /\ id \in RibIds \ live
  /\ live' = live \union {id}
  /\ rib' = [rib EXCEPT ![id] = Updated(rib_create(ptr), msgp)]
  /\ UNCHANGED <<thread_qconf, managers, started, ring, verb, todo, old, ptr,
                 dev_vars, gp, worker_vars, sent, lost>>

(* Every message but QCONF goes straight to rib_replace (new).             *)
ProcessUpdate(id) ==
  /\ Receive(id)
  /\ msgp.type # "QCONF"
  /\ mpc' = "publish"
  /\ new' = id
  /\ UNCHANGED <<nextport, leaked, qconf_stale>>

(* QCONF: rib_check() refuses; the function returns and neither new nor    *)
(* the message is freed.                                                   *)
RefuseQconf(id) ==
  /\ Receive(id)
  /\ msgp.type = "QCONF"
  /\ ~Ordered(rib'[id].lcore_qconf)
  /\ leaked' = leaked \union {id}
  /\ qconf_stale' = (qconf_stale \/ \A m \in Elems(msg_queue') : m.type # "QCONF")
  /\ UNCHANGED <<mpc, new, nextport>>

(* QCONF: the test passes and the port loop of rib_check() begins.         *)
AcceptQconf(id) ==
  /\ Receive(id)
  /\ msgp.type = "QCONF"
  /\ Ordered(rib'[id].lcore_qconf)
  /\ mpc' = "dev_stop"
  /\ new' = id
  /\ nextport' = 0
  /\ UNCHANGED <<leaked, qconf_stale>>

(* rte_eth_dev_stop (i) *)
DevStop ==
  /\ mpc = "dev_stop"
  /\ dev' = [dev EXCEPT ![nextport].started = FALSE]
  /\ mpc' = "dev_start"
  /\ UNCHANGED <<shell_vars, new, old, nextport, rib_vars, tx_buffer, rings, gp,
                 worker_vars, ghost_vars>>

(* Mutant: the loop over lcore_qconf[] ends one lcore early.               *)
TapRingsShort(qc) == UNION {Elems(qc[l]) : l \in 0..LcoreCount - 2}

(* The (port, queue) pairs that rib_check() has ring_up and ring_dn for.   *)
TapRings(qc) == UNION {Elems(qc[l]) : l \in Lcores}

(* dev_configure, queue setup, tx buffers and dev_start of one port; after *)
(* the last port, the tap rings of every queue of the new rib.             *)
DevStart ==
  LET qc == rib[new].lcore_qconf
      last == nextport + 1 = NPorts
  IN  /\ mpc = "dev_start"
      /\ dev' = [dev EXCEPT ![nextport] =
                   [nrxq |-> PortNrxq(qc, nextport), ntxq |-> Ntxq(qc),
                    started |-> TRUE]]
      /\ tx_buffer' = [tx_buffer EXCEPT ![nextport] = @ \union 0..Ntxq(qc) - 1]
      /\ rings' = IF last THEN rings \union TapRings(qc) ELSE rings
      /\ mpc' = IF last THEN "zero" ELSE "dev_stop"
      /\ nextport' = IF last THEN 0 ELSE nextport + 1
      /\ UNCHANGED <<shell_vars, new, old, rib_vars, gp, worker_vars, ghost_vars>>

(* Mutants: the old rib is freed without a grace period; the rib that was  *)
(* just published is freed in place of the old one.                        *)
ReplaceWithoutSync(r, sync, done) ==
  /\ ptr' = r
  /\ IF ptr = NULL
     THEN mpc' = done /\ UNCHANGED <<old, gp>>
     ELSE mpc' = sync /\ old' = ptr /\ gp' = {}

ReplaceFreesNew(r, sync, done) ==
  /\ ptr' = r
  /\ IF ptr = NULL
     THEN mpc' = done /\ UNCHANGED <<old, gp>>
     ELSE mpc' = sync /\ old' = r /\ gp' = Registered

(* rib_replace (r): publish r; the old rib, if any, is reclaimed after the *)
(* grace period that synchronize_rcu() now waits for.                      *)
rib_replace(r, sync, done) ==
  /\ ptr' = r
  /\ IF ptr = NULL
     THEN mpc' = done /\ UNCHANGED <<old, gp>>
     ELSE mpc' = sync /\ old' = ptr /\ gp' = Registered

(* Mutant: the zero rib is left out.                                       *)
PublishZeroNever(id) ==
  /\ mpc = "zero"
  /\ id \in RibIds \ live
  /\ mpc' = "publish"
  /\ UNCHANGED <<shell_vars, new, old, nextport, rib_vars, dev_vars, gp,
                 worker_vars, ghost_vars>>

(* The intermittent state of a qconf change.                               *)
PublishZero(id) ==
  /\ mpc = "zero"
  /\ id \in RibIds \ live
  /\ live' = live \union {id}
  /\ rib' = [rib EXCEPT ![id] = ZeroRib]
  /\ rib_replace(id, "sync_zero", "publish")
  /\ UNCHANGED <<shell_vars, new, nextport, dev_vars, worker_vars, ghost_vars>>

(* malloc (sizeof (struct rib)) returned NULL: if (zero) is not taken.     *)
NoZero ==
  /\ mpc = "zero"
  /\ MallocMayFail
  /\ mpc' = "publish"
  /\ UNCHANGED <<shell_vars, new, old, nextport, rib_vars, dev_vars, gp,
                 worker_vars, ghost_vars>>

PublishNew ==
  /\ mpc = "publish"
  /\ rib_replace(new, "sync_new", "idle")
  /\ new' = NULL
  /\ UNCHANGED <<shell_vars, nextport, live, rib, dev_vars, worker_vars,
                 ghost_vars>>

(* Mutant: rib_delete (old) is forgotten.                                  *)
ReclaimNothing ==
  /\ mpc \in {"sync_zero", "sync_new"}
  /\ gp = {}
  /\ old' = NULL
  /\ mpc' = IF mpc = "sync_zero" THEN "publish" ELSE "idle"
  /\ UNCHANGED <<shell_vars, new, nextport, rib_vars, dev_vars, gp, worker_vars,
                 ghost_vars>>

(* synchronize_rcu() returns and rib_delete (old) frees.  What is left in  *)
(* freed memory is of no interest: live says whether it may be read.       *)
Reclaim ==
  /\ mpc \in {"sync_zero", "sync_new"}
  /\ gp = {}
  /\ live' = live \ {old}
  /\ rib' = [rib EXCEPT ![old] = ZeroRib]
  /\ old' = NULL
  /\ mpc' = IF mpc = "sync_zero" THEN "publish" ELSE "idle"
  /\ UNCHANGED <<shell_vars, new, nextport, ptr, dev_vars, gp, worker_vars,
                 ghost_vars>>

-----------------------------------------------------------------------------
(* "(start|stop|restart) worker lcore (N|all)" visits its lcores in         *)
(* ascending order; with "all" it first writes force_quit.  Lcores without *)
(* a worker are left out: nothing can be started or waited for there.      *)
start_stop_worker(v, lcores, quit) ==
  /\ v \in Commands
  /\ mpc = "idle"
  /\ verb' = v
  /\ todo' = lcores
  /\ mpc' = IF v = "start" THEN "start_lcore" ELSE "stop_lcore"
  /\ force_quit' = quit
  /\ UNCHANGED <<thread_qconf, managers, started, ring, msg_queue, new, old,
                 nextport, rib_vars, dev_vars, gp, force_stop, wpc, held, idx,
                 ghost_vars>>

lcore_id == CHOOSE l \in todo : \A m \in todo : l <= m

NextLcore ==
  /\ todo' = todo \ {lcore_id}
  /\ mpc' = IF todo' = {} THEN "idle"
            ELSE IF verb = "start" THEN "start_lcore" ELSE "stop_lcore"
  /\ verb' = IF todo' = {} THEN "none" ELSE verb

AfterStop ==
  IF verb = "restart"
  THEN mpc' = "start_lcore" /\ UNCHANGED <<verb, todo>>
  ELSE NextLcore

LcoreFrame ==
  UNCHANGED <<thread_qconf, managers, started, ring, msg_queue, new, old,
              nextport, rib_vars, dev_vars, gp, force_quit, held, idx, ghost_vars>>

(* The flag goes up; the lthread core cannot wait for itself.              *)
stop_lcore ==
  /\ mpc = "stop_lcore"
  /\ force_stop' = [force_stop EXCEPT ![lcore_id] = TRUE]
  /\ IF lcore_id = lthread_core
     THEN AfterStop
     ELSE mpc' = "wait_lcore" /\ UNCHANGED <<verb, todo>>
  /\ UNCHANGED wpc
  /\ LcoreFrame

(* rte_eal_wait_lcore() blocks the main pthread, with all its lthreads,    *)
(* until the function on that lcore has returned.                          *)
rte_eal_wait_lcore ==
  /\ mpc = "wait_lcore"
  /\ wpc[lcore_id] = "wait"
  /\ AfterStop
  /\ UNCHANGED <<force_stop, wpc>>
  /\ LcoreFrame

(* The flag goes down and the function is launched; the launch does        *)
(* nothing on an lcore that is still running.                              *)
start_lcore ==
  /\ mpc = "start_lcore"
  /\ force_stop' = [force_stop EXCEPT ![lcore_id] = FALSE]
  /\ wpc' = [w \in Workers |->
               IF w = lcore_id /\ wpc[w] = "wait" THEN "launched" ELSE wpc[w]]
  /\ NextLcore
  /\ LcoreFrame

(* signal_handler (SIGTERM), at any moment.                                *)
Sigterm ==
  /\ "sigterm" \in Commands
  /\ ~force_quit
  /\ force_quit' = TRUE
  /\ UNCHANGED <<shell_vars, main_vars, rib_vars, dev_vars, gp, force_stop,
                 wpc, held, idx, ghost_vars>>

-----------------------------------------------------------------------------
(* Lcore workers.                                                          *)

(* l2_repeater() returns at once on an lcore with nothing to do.           *)
NothingToDo(w) == Func[w] = "l2_repeater" /\ w \notin NRxPort

Return(w) ==
  /\ wpc[w] = "launched"
  /\ NothingToDo(w)
  /\ wpc' = [wpc EXCEPT ![w] = "wait"]
  /\ UNCHANGED <<shell_vars, main_vars, rib_vars, dev_vars, gp, force_quit,
                 force_stop, held, idx, ghost_vars>>

(* urcu_qsbr_register_thread() *)
Register(w) ==
  /\ wpc[w] = "launched"
  /\ ~NothingToDo(w)
  /\ wpc' = [wpc EXCEPT ![w] = "top"]
  /\ UNCHANGED <<shell_vars, main_vars, rib_vars, dev_vars, gp, force_quit,
                 force_stop, held, idx, ghost_vars>>

(* The loop test.  nettlp_thread looks at the flag of the lthread core.    *)
Stopping(w) ==
  \/ force_quit
  \/ force_stop[IF Func[w] = "nettlp_thread" THEN lthread_core ELSE w]

(* The loop test succeeds; rib = rcu_dereference (rcu_global_ptr_rib).     *)
ReadLock(w) ==
  /\ wpc[w] = "top"
  /\ ~Stopping(w)
  /\ wpc' = [wpc EXCEPT ![w] = "read"]
  /\ held' = [held EXCEPT ![w] = ptr]
  /\ idx' = [idx EXCEPT ![w] = 0]
  /\ UNCHANGED <<shell_vars, main_vars, rib_vars, dev_vars, gp, force_quit,
                 force_stop, ghost_vars>>

(* The queues the worker goes through with the rib it holds.  tap_handler  *)
(* polls no device; without rib or rib_info the bursts return at once.     *)
ServeList(w) ==
  IF Func[w] = "tap_handler" \/ held[w] = NULL
  THEN << >>
  ELSE IF rib[held[w]].rib_info THEN rib[held[w]].lcore_qconf[w] ELSE << >>

(* One turn of the for loop of rx_burst (and of tx_burst).                 *)
ServeNext(w) ==
  /\ wpc[w] = "read"
  /\ idx[w] < Len(ServeList(w))
  /\ idx' = [idx EXCEPT ![w] = @ + 1]
  /\ UNCHANGED <<shell_vars, main_vars, rib_vars, dev_vars, gp, force_quit,
                 force_stop, wpc, held, ghost_vars>>

(* Mutant: the loop body ends without urcu_qsbr_quiescent_state().         *)
UnlockOnly(w) ==
  /\ wpc[w] = "read"
  /\ idx[w] = Len(ServeList(w))
  /\ wpc' = [wpc EXCEPT ![w] = "top"]
  /\ held' = [held EXCEPT ![w] = NULL]
  /\ idx' = [idx EXCEPT ![w] = 0]
  /\ UNCHANGED <<shell_vars, main_vars, rib_vars, dev_vars, gp, force_quit,
                 force_stop, ghost_vars>>

(* read_unlock and quiescent_state() at the end of the loop body.          *)
Quiescent(w) ==
  /\ wpc[w] = "read"
  /\ idx[w] = Len(ServeList(w))
  /\ wpc' = [wpc EXCEPT ![w] = "top"]
  /\ held' = [held EXCEPT ![w] = NULL]
  /\ idx' = [idx EXCEPT ![w] = 0]
  /\ gp' = gp \ {w}
  /\ UNCHANGED <<shell_vars, main_vars, rib_vars, dev_vars, force_quit,
                 force_stop, ghost_vars>>

(* Mutant: the worker returns without urcu_qsbr_unregister_thread().       *)
LeaveRegistered(w) ==
  /\ wpc[w] = "top"
  /\ Stopping(w)
  /\ wpc' = [wpc EXCEPT ![w] = "wait"]
  /\ UNCHANGED <<shell_vars, main_vars, rib_vars, dev_vars, gp, force_quit,
                 force_stop, held, idx, ghost_vars>>

(* The loop test fails; urcu_qsbr_unregister_thread().                     *)
Unregister(w) ==
  /\ wpc[w] = "top"
  /\ Stopping(w)
  /\ wpc' = [wpc EXCEPT ![w] = "wait"]
  /\ gp' = gp \ {w}
  /\ UNCHANGED <<shell_vars, main_vars, rib_vars, dev_vars, force_quit,
                 force_stop, held, idx, ghost_vars>>

-----------------------------------------------------------------------------
Init ==
  /\ thread_qconf = NoQueues
  /\ managers = 0 /\ started = 0
  /\ ring = "null" /\ msg_queue = << >> /\ verb = "none" /\ todo = {}
  /\ mpc = "idle" /\ new = NULL /\ old = NULL /\ nextport = 0
  /\ ptr = NULL /\ live = {} /\ rib = [id \in RibIds |-> ZeroRib]
  /\ dev = [p \in Ports |-> [nrxq |-> 0, ntxq |-> 0, started |-> FALSE]]
  /\ tx_buffer = [p \in Ports |-> {}] /\ rings = {}
  /\ gp = {}
  /\ force_quit = FALSE /\ force_stop = [l \in Controlled |-> FALSE]
  /\ wpc = [w \in Workers |-> "wait"]
  /\ held = [w \in Workers |-> NULL] /\ idx = [w \in Workers |-> 0]
  /\ sent = 0 /\ leaked = {}
  /\ lost = FALSE /\ qconf_stale = FALSE

Shell ==
  \/ \E l \in Lcores, pq \in PortQueue : SetThreadQueue(l, pq)
  \/ UpdatePortStatus
  \/ UpdatePortLinkStatus
  \/ \E f \in {"nb_rxd", "nb_txd"}, v \in DescValues :
       \/ \E p \in Ports : SetPortDesc(p, p, f, v)
       \/ SetPortDesc(0, NPorts - 1, f, v)

LcoreCommand ==
  \E v \in LcoreVerbs :
    \/ \E l \in Controlled : start_stop_worker(v, {l}, force_quit)
    \/ start_stop_worker(v, Controlled, v = "stop")

LcoreLoop == stop_lcore \/ rte_eal_wait_lcore \/ start_lcore

Manager ==
  \/ RibManagerExit
  \/ \E id \in RibIds : ProcessUpdate(id)
  \/ \E id \in RibIds : RefuseQconf(id)
  \/ \E id \in RibIds : AcceptQconf(id)
  \/ DevStop
  \/ DevStart
  \/ \E id \in RibIds : PublishZero(id)
  \/ NoZero
  \/ PublishNew
  \/ Reclaim

Worker(w) ==
  \/ Return(w)
  \/ Register(w)
  \/ ReadLock(w)
  \/ ServeNext(w)
  \/ Quiescent(w)
  \/ Unregister(w)

Next ==
  \/ Shell
  \/ RibManagerStart
  \/ Manager
  \/ \E w \in Workers : Worker(w)
  \/ LcoreCommand
  \/ LcoreLoop
  \/ Sigterm

Spec == Init /\ [][Next]_vars

(* A worker runs alone on its core and never blocks in its loop; a shell   *)
(* command runs on; and the lthread scheduler comes back to the rib        *)
(* manager between commands, however many there are.  The operator and the *)
(* signal are not fair.                                                    *)
Fairness ==
  /\ SF_vars(Manager)
  /\ WF_vars(LcoreLoop)
  /\ \A w \in Workers : WF_vars(Worker(w))

FairSpec == Spec /\ Fairness

-----------------------------------------------------------------------------
TypeOK ==
  /\ thread_qconf \in Qconf
  /\ managers \in Nat /\ started \in Nat
  /\ ring \in {"null", "up", "freed"}
  /\ msg_queue \in Seq(Messages)
  /\ verb \in LcoreVerbs \union {"none"}
  /\ todo \subseteq Controlled
  /\ mpc \in {"idle", "dev_stop", "dev_start", "zero", "sync_zero", "publish",
              "sync_new", "start_lcore", "stop_lcore", "wait_lcore"}
  /\ new \in RibIds \union {NULL}
  /\ old \in RibIds \union {NULL}
  /\ nextport \in Ports
  /\ ptr \in RibIds \union {NULL}
  /\ live \subseteq RibIds
  /\ rib \in [RibIds -> RibContents]
  /\ dev \in [Ports -> Device]
  /\ tx_buffer \in [Ports -> SUBSET Lcores]
  /\ rings \subseteq PortQueue
  /\ gp \subseteq Workers
  /\ force_quit \in BOOLEAN
  /\ force_stop \in [Controlled -> BOOLEAN]
  /\ wpc \in [Workers -> {"wait", "launched", "top", "read"}]
  /\ held \in [Workers -> RibIds \union {NULL}]
  /\ idx \in [Workers -> Nat]
  /\ sent \in Nat
  /\ leaked \subseteq RibIds
  /\ lost \in BOOLEAN
  /\ qconf_stale \in BOOLEAN

(* No worker ever reads a rib that rib_delete() has freed, however its     *)
(* loop interleaves with rib_replace(): the grace period covers it.        *)
NoUseAfterFree == \A w \in Workers : held[w] # NULL => held[w] \in live

(* What rib_replace() is about to free is allocated, is no longer          *)
(* published and is not the rib still to be published: nothing is freed    *)
(* twice or while it can still be found.                                   *)
ReclaimOnce ==
  old # NULL => old \in live /\ old # ptr /\ old # new

(* An allocated rib is the published one, the one being built, the one     *)
(* being reclaimed, or one that a refused QCONF message leaked.            *)
NoOrphan == live \subseteq {ptr, new, old} \union leaked

(* The entry of its rx_queue_list that a worker is serving: it polls that  *)
(* device queue, enqueues to ring_up and dequeues from ring_dn, which are  *)
(* created for one producer and one consumer.                              *)
Serving(w) == wpc[w] = "read" /\ idx[w] > 0
Served(w) == ServeList(w)[idx[w]]

(* Two workers never serve the same queue at the same time, even when they *)
(* hold different versions of the rib in the middle of a qconf change.     *)
ExclusiveQueue ==
  \A v, w \in Workers :
    v # w /\ Serving(v) /\ Serving(w) => Served(v) # Served(w)

(* A worker that serves a queue sends on tx queue number lcore_id of any   *)
(* port: that tx queue and its tx buffer exist on every port, whichever    *)
(* rib it still holds while rib_check() reconfigures the ports.            *)
ServedTxReady ==
  \A w \in Workers :
    Serving(w) => \A p \in Ports : w < dev[p].ntxq /\ w \in tx_buffer[p]

(* tx_burst() dequeues from ring_dn[port][queue] without testing it, so    *)
(* the ring of a served queue exists.                                      *)
ServedRingExists ==
  \A w \in Workers : Serving(w) => Served(w) \in rings

(* tap_handler refreshes its ports when the version has grown: a worker    *)
(* that still holds a replaced rib holds a smaller version.                *)
StaleIsOlder ==
  \A w \in Workers :
    /\ held[w] # NULL /\ ptr # NULL /\ held[w] # ptr
    /\ rib[held[w]].rib_info /\ rib[ptr].rib_info
    => rib[held[w]].ver < rib[ptr].ver

(* When the last "set thread" reached the rib manager and was not refused, *)
(* every lcore with queues in the shell's table has just those in the rib, *)
(* no matter which earlier messages were lost or refused.                  *)
LastQconfWins ==
  mpc = "idle" /\ ring = "up" /\ msg_queue = << >> /\ ~qconf_stale
    => \A l \in ActiveLcores :
         thread_qconf[l] # << >> =>
           ptr # NULL /\ rib[ptr].lcore_qconf[l] = thread_qconf[l]

(* synchronize_rcu() always returns: whatever the main pthread is doing    *)
(* to the rib, it gets back to its scheduler.                              *)
MainReturns == mpc # "idle" ~> mpc = "idle"

(* A message in the ring is taken out of it and processed.                 *)
QueueDrains == msg_queue # << >> ~> msg_queue = << >>

-----------------------------------------------------------------------------
(* The queues a worker may touch until its next quiescent state.           *)
LeaseOf(w) == IF wpc[w] = "read" THEN Elems(ServeList(w)) ELSE {}

Lease ==
  INSTANCE QueueLease WITH Lessees <- Workers, Queues <- PortQueue,
                           lease <- [w \in Workers |-> LeaseOf(w)]

(* RCU with the zero rib hands queues over as a lock per queue would: a    *)
(* worker takes its list only when nobody else has any of it, and no step  *)
(* of the rib manager changes what a worker has.                           *)
ImplementsQueueLease == Lease!Spec

-----------------------------------------------------------------------------
(* rx_burst() polls the queue only when its id is below the number of      *)
(* queues that the rib has recorded for the port.                          *)
Polling(w) ==
  /\ Serving(w)
  /\ Served(w).queue_id < rib[held[w]].nb_rx_queues[Served(w).port_id]

(* rib_manager.c, on the zero rib: "for qconf change, we need an           *)
(* intermittent state to avoid a conflict between different cores".  A     *)
(* core that polls a queue of a port that the rib manager's core has       *)
(* stopped, or has set up without that queue, is in conflict with it.      *)
NoDeviceConflict ==
  \A w \in Workers :
    Polling(w) => /\ dev[Served(w).port_id].started
                  /\ Served(w).queue_id < dev[Served(w).port_id].nrxq
=============================================================================
