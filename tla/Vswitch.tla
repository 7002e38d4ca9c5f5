------------------------------- MODULE Vswitch -------------------------------
(***************************************************************************)
(* The tap path: packets between the Ethernet queues and the Linux taps.   *)
(*                                                                         *)
(* A worker (l2_repeater) copies every packet it receives to ring_up of    *)
(* its queue and sends what it finds in ring_dn.  nettlp_thread, the other *)
(* worker, copies to ring_up what it receives and what it sends, and never *)
(* looks at ring_dn.  tap_handler, on a core                               *)
(* of its own, empties ring_up of every queue its vswitch knows into the   *)
(* taps, learns source addresses in the fdb, and floods what it reads from *)
(* a tap to ring_dn of every queue.  When it meets a rib with a greater    *)
(* version it rebuilds the DPDK ports of the vswitch.                      *)
(*                                                                         *)
(* Packets are mbufs from one pool; the module follows who owns each.      *)
(* That a queue is served by one worker at a time is QueueLease's promise, *)
(* and that the rings of a published queue exist is ServedRingExists of    *)
(* RibManager: both are taken over here.                                   *)
(***************************************************************************)
EXTENDS Integers, SequencesExt

CONSTANTS
  NPorts,              \* rte_eth_dev_count_avail()
  PortQueues,          \* the (port, queue) pairs of this instance
  NettlpQueues,        \* those the nettlp worker serves, the others are l2_repeater's
  Mbufs,               \* l2fwd_pktmbuf_pool
  NULL,
  EtherAddrs,          \* source addresses that are not zero
  LocalEther,          \* local_ether, the source address of the nettlp worker
  ZeroAddr,            \* the zero address, which marks an unused fdb entry
  VSWITCH_PORT_SIZE, FDB_SIZE, MAX_PKT_BURST,
  RingSize,            \* usable entries of ring_up and ring_dn (63)
  MaxFds,              \* length of fds[] in handle_packet_down (16)
  StackValues,         \* what rib_ver may hold when it was not assigned
  MaxVer,              \* bound: rib versions
  MaxStarts            \* bound: launches of tap_handler

Ports == 0..NPorts - 1

(* A copy for the taps; a packet of the nettlp worker's own has no port.    *)
Packets == [mbuf : Mbufs, src : EtherAddrs \union {ZeroAddr}, port : Ports \union {NPorts}]

ASSUME VswitchAssumption ==
  /\ NPorts \in Nat \ {0}
  /\ PortQueues \subseteq [port_id : Ports, queue_id : Nat]
  /\ NettlpQueues \subseteq PortQueues
  /\ NULL \notin Mbufs \union Packets
  /\ ZeroAddr \notin EtherAddrs /\ LocalEther \in EtherAddrs \union {ZeroAddr}
  /\ {VSWITCH_PORT_SIZE, FDB_SIZE, MAX_PKT_BURST, RingSize, MaxFds} \subseteq Nat \ {0}
  /\ StackValues \subseteq Nat
  /\ MaxVer \in Nat /\ MaxStarts \in Nat

VARIABLES
  pub,        \* the published rib: [info, ver, queues]
  ring_up, ring_dn,
  pool,       \* free mbufs
  nic,        \* mbufs in a tx buffer or a device's tx queue
  leaked,     \* mbufs that nobody owns any more
  nettlp,     \* [rx: the queue of rx_portid and rx_queueid, NULL for -1,
              \*  m: the mbuf whose request is answered, or NULL]
  \* --- tap_handler
  tpc,        \* "off", "read", "up", "poll", "down", "flood" or "crashed"
  starts,
  rib_ver,    \* version of the last rebuild
  vswitch,    \* vswitch0.port[0..size-1]
  port_fd,    \* ports whose tap is open, in port_fd[]
  attached,   \* port taps the kernel has attached to this process
  fdb,        \* the used entries of fdb[]
  idx,        \* loop index over vswitch
  pkts_burst, \* what handle_packet_up() has dequeued and not handled yet
  fds,        \* taps with data that are still to be read
  \* --- for the properties
  last_port   \* address |-> input port of its last packet taken from a ring

rings == <<ring_up, ring_dn>>
mbuf_vars == <<rings, pool, nic, leaked, nettlp>>
tap_vars == <<tpc, starts, rib_ver, vswitch, port_fd, attached, fdb, idx,
              pkts_burst, fds, last_port>>
vars == <<pub, mbuf_vars, tap_vars>>

-----------------------------------------------------------------------------
TapPort(p) == [type |-> "LINUX_TAP", port |-> p]
DpdkPort(q) == [type |-> "DPDK_LCORE", queue |-> q]

(* rte_ring_enqueue(): the ring takes x or is full.                        *)
Full(ring) == Len(ring) >= RingSize

(* A burst from the head of a ring, and what stays.                        *)
Burst(ring) ==
  SubSeq(ring, 1, IF Len(ring) < MAX_PKT_BURST THEN Len(ring) ELSE MAX_PKT_BURST)
Rest(ring) == SubSeq(ring, Len(Burst(ring)) + 1, Len(ring))

-----------------------------------------------------------------------------
(* The rib manager publishes, as RibManager says: a zero rib during a      *)
(* qconf change, then a rib with the next version.                         *)
PublishZero ==
  /\ pub.info
  /\ pub' = [pub EXCEPT !.info = FALSE]
  /\ UNCHANGED <<mbuf_vars, tap_vars>>

PublishRib(queues) ==
  /\ pub.ver < MaxVer
  /\ pub.info => queues = pub.queues
  /\ pub' = [info |-> TRUE, ver |-> pub.ver + 1, queues |-> queues]
  /\ UNCHANGED <<mbuf_vars, tap_vars>>

-----------------------------------------------------------------------------
(* l2_repeater_rx_burst(), for one received packet m: l2_repeater_tap_up() *)
(* enqueues a copy, NULL when the pool is empty, to ring_up or frees it;   *)
(* l2_repeat() copies to every other port with link and tx buffer as long  *)
(* as the pool lasts and frees m.                                          *)
Packet(m, src, port) ==
  IF m = NULL THEN NULL ELSE [mbuf |-> m, src |-> src, port |-> port]

RxPacket(q, m, src, up) ==
  /\ q \in ToSet(pub.queues) \ NettlpQueues
  /\ m \in pool
  /\ up \subseteq Ports \ {q.port_id}
  /\ \E c \in IF pool = {m} THEN {NULL} ELSE pool \ {m} :
       LET taken == IF Full(ring_up[q]) THEN {} ELSE {c}
           free == pool \ ({m} \union taken)
           wanted == Cardinality(up)
           copied == IF wanted <= Cardinality(free) THEN wanted
                     ELSE Cardinality(free)
       IN  \E copies \in kSubset(copied, free) :
             /\ nic' = nic \union copies
             /\ pool' = pool \ (copies \union taken)
             /\ ring_up' = IF taken = {} THEN ring_up
                           ELSE [ring_up EXCEPT ![q] =
                                   Append(@, Packet(c, src, q.port_id))]
  /\ UNCHANGED <<pub, ring_dn, leaked, nettlp, tap_vars>>

(* Mutant: the burst is freed, with what the device has taken of it.       *)
TxBurstFreesAll(q, sent) ==
  LET burst == Burst(ring_dn[q])
  IN  /\ q \in ToSet(pub.queues) \ NettlpQueues
      /\ burst # << >>
      /\ sent \in 0..Len(burst)
      /\ ring_dn' = [ring_dn EXCEPT ![q] = Rest(@)]
      /\ nic' = nic \union ToSet(SubSeq(burst, 1, sent))
      /\ pool' = pool \union ToSet(burst)
      /\ UNCHANGED <<pub, ring_up, leaked, nettlp, tap_vars>>

(* l2_repeater_tx_burst(): what rte_eth_tx_burst() does not take is        *)
(* forgotten.                                                              *)
TxBurst(q, sent) ==
  LET burst == Burst(ring_dn[q])
  IN  /\ q \in ToSet(pub.queues) \ NettlpQueues
      /\ burst # << >>
      /\ sent \in 0..Len(burst)
      /\ ring_dn' = [ring_dn EXCEPT ![q] = Rest(@)]
      /\ nic' = nic \union ToSet(SubSeq(burst, 1, sent))
      /\ leaked' = leaked \union ToSet(SubSeq(burst, sent + 1, Len(burst)))
      /\ UNCHANGED <<pub, ring_up, pool, nettlp, tap_vars>>

(* A device, or the drop callback of a tx buffer, frees a packet.          *)
NicDone(m) ==
  /\ m \in nic
  /\ nic' = nic \ {m}
  /\ pool' = pool \union {m}
  /\ UNCHANGED <<pub, rings, leaked, nettlp, tap_vars>>

-----------------------------------------------------------------------------
(* nettlp_send_packet_tap_up(): what ring_up of q becomes with a copy of a *)
(* packet, and the mbuf that the copy takes out of `free`.                 *)
TapUps(q, free, src, port) ==
  IF q = NULL \/ (q # NULL /\ Full(ring_up[q])) THEN {[ring |-> ring_up, taken |-> {}]}
  ELSE {[ring  |-> [ring_up EXCEPT ![q] = Append(@, Packet(c, src, port))],
         taken |-> {c} \ {NULL}] : c \in IF free = {} THEN {NULL} ELSE free}

(* The places of the nettlp worker's queues in the rib, in the order of its *)
(* list.                                                                   *)
RxQueueList == {i \in DOMAIN pub.queues : pub.queues[i] \in NettlpQueues}

(* A turn of nettlp_rx_burst() without a packet: the rx ids are those of   *)
(* the last queue of the list, and stay as they are under a zero rib.      *)
NettlpTurn ==
  /\ nettlp.m = NULL
  /\ pub.info
  /\ nettlp' = [nettlp EXCEPT !.rx = IF RxQueueList = {} THEN NULL
                                     ELSE pub.queues[Max(RxQueueList)]]
  /\ UNCHANGED <<pub, rings, pool, nic, leaked, tap_vars>>

(* nettlp_rx_burst() and nettlp_psmem_receive() for a packet m: a copy for *)
(* the taps, then a packet that is not IPv4 or not UDP is not freed.       *)
NettlpReceive(q, m, src, udp) ==
  /\ nettlp.m = NULL
  /\ \E i \in RxQueueList : q = pub.queues[i]
  /\ m \in pool
  /\ \E t \in TapUps(q, pool \ {m}, src, q.port_id) :
       /\ ring_up' = t.ring
       /\ pool' = pool \ ({m} \union t.taken)
  /\ nettlp' = [rx |-> q, m |-> IF udp THEN m ELSE NULL]
  /\ leaked' = IF udp THEN leaked ELSE leaked \union {m}
  /\ UNCHANGED <<pub, ring_dn, nic, tap_vars>>

(* One packet of the worker's own, a completion or a DMA request: copied   *)
(* to the taps under the rx ids and handed to the tx buffer, or forgotten  *)
(* when there is none.  Its mbuf has no input port.  The program ends when *)
(* there is no mbuf for it.                                                *)
NettlpUdpSend(buffer) ==
  \/ /\ \E m \in pool : \E t \in TapUps(nettlp.rx, pool \ {m}, LocalEther, NPorts) :
          /\ ring_up' = t.ring
          /\ pool' = pool \ ({m} \union t.taken)
          /\ nic' = IF buffer THEN nic \union {m} ELSE nic
          /\ leaked' = IF buffer THEN leaked ELSE leaked \union {m}
     /\ UNCHANGED <<pub, ring_dn, nettlp, tap_vars>>
  \/ /\ pool = {}
     /\ tpc' = "crashed"
     /\ UNCHANGED <<pub, mbuf_vars, starts, rib_ver, vswitch, port_fd, attached,
                    fdb, idx, pkts_burst, fds, last_port>>

(* nettlp_psmem_mrd() answers the request it handles.                      *)
NettlpComplete(buffer) == nettlp.m # NULL /\ NettlpUdpSend(buffer)

(* nettlp_internal_msg_recv(): a DMA command, when there is a rib.         *)
NettlpSendDma(buffer) ==
  nettlp.m = NULL /\ pub.info /\ NettlpUdpSend(buffer)

(* The end of nettlp_psmem_receive().                                      *)
NettlpFree ==
  /\ nettlp.m # NULL
  /\ pool' = pool \union {nettlp.m}
  /\ nettlp' = [nettlp EXCEPT !.m = NULL]
  /\ UNCHANGED <<pub, rings, nic, leaked, tap_vars>>

-----------------------------------------------------------------------------
(* tap_handler up to its loop.  The kernel refuses a tap that is attached  *)
(* already, and the taps of the ports are never closed.                    *)
TapHandlerStart ==
  LET opened == Ports \ attached
      taps == [i \in 1..NPorts |-> TapPort(i - 1)]
  IN  /\ tpc = "off"
      /\ starts < MaxStarts
      /\ starts' = starts + 1
      /\ port_fd' = opened
      /\ attached' = attached \union opened
      /\ vswitch' = IF NPorts <= VSWITCH_PORT_SIZE THEN taps
                    ELSE SubSeq(taps, 1, VSWITCH_PORT_SIZE)
      /\ fdb' = << >>
      /\ tpc' = "read"
      /\ last_port' = [a \in EtherAddrs |-> NULL]
      /\ UNCHANGED <<pub, mbuf_vars, rib_ver, idx, pkts_burst, fds>>

(* vswitch_port_update(): the removal loop runs from the last port to the  *)
(* first and closes the gap behind each DPDK port, so that the k-th port   *)
(* that stays is the k-th other one; then every queue of the rib is added  *)
(* while there is room.                                                    *)
RemoveDpdkPorts(ports) ==
  LET stays == {i \in 1..Len(ports) : ports[i].type # "DPDK_LCORE"}
      Nth(k) == CHOOSE i \in stays : Cardinality({j \in stays : j <= i}) = k
  IN  [k \in 1..Cardinality(stays) |-> ports[Nth(k)]]

AddDpdkPorts(ports, queues, limit) ==
  LET room == IF Len(ports) < limit THEN limit - Len(ports) ELSE 0
      added == IF Len(queues) < room THEN Len(queues) ELSE room
  IN  ports \o [i \in 1..added |-> DpdkPort(queues[i])]

(* Mutant: size <= limit.                                                  *)
UpdateBeyondLimit(ports, queues) ==
  AddDpdkPorts(RemoveDpdkPorts(ports), queues, VSWITCH_PORT_SIZE + 1)

vswitch_port_update(ports, queues) ==
  AddDpdkPorts(RemoveDpdkPorts(ports), queues, VSWITCH_PORT_SIZE)

(* The head of the loop: the rib is read, and the vswitch follows a        *)
(* greater version.  rib_ver is an automatic variable of the loop body     *)
(* without an initial value: v is the value of the last turn, or any.      *)
ReadRib(v) ==
  /\ tpc = "read"
  /\ IF pub.info /\ v < pub.ver
     THEN /\ vswitch' = vswitch_port_update(vswitch, pub.queues)
          /\ rib_ver' = pub.ver
     ELSE UNCHANGED <<vswitch, rib_ver>>
  /\ tpc' = "up"
  /\ idx' = 1
  /\ UNCHANGED <<pub, mbuf_vars, starts, port_fd, attached, fdb, pkts_burst, fds,
                 last_port>>

(* Mutant: a known address keeps its first port.                           *)
LearnOnce(table, src, port) ==
  IF /\ src # ZeroAddr /\ Len(table) < FDB_SIZE
     /\ \A j \in 1..Len(table) : table[j].l2addr # src
  THEN Append(table, [l2addr |-> src, port |-> port])
  ELSE table

(* tap_handler_register_fdb(): the scan stops at the entry of the address  *)
(* or at the first unused one; a full table learns nothing, and a zero     *)
(* address leaves the unused entry unused.                                 *)
register_fdb(table, src, port) ==
  LET here == {j \in 1..Len(table) : table[j].l2addr = src}
  IN  IF here # {} THEN [table EXCEPT ![Min(here)].port = port]
      ELSE IF src # ZeroAddr /\ Len(table) < FDB_SIZE
           THEN Append(table, [l2addr |-> src, port |-> port])
           ELSE table

(* tap_handler_handle_packet_up(): a burst for each DPDK port of the       *)
(* vswitch, each packet of which is learned from, written to the taps and  *)
(* freed; NULLs are skipped.                                               *)
DequeueUp ==
  LET port == vswitch[idx]
  IN  /\ tpc = "up"
      /\ pkts_burst = << >>
      /\ idx <= Len(vswitch)
      /\ idx' = idx + 1
      /\ IF port.type = "DPDK_LCORE"
         THEN /\ ring_up' = [ring_up EXCEPT ![port.queue] = Rest(@)]
              /\ pkts_burst' = Burst(ring_up[port.queue])
         ELSE UNCHANGED <<ring_up, pkts_burst>>
      /\ UNCHANGED <<pub, ring_dn, pool, nic, leaked, nettlp, tpc, starts, rib_ver,
                     vswitch, port_fd, attached, fdb, fds, last_port>>

HandlePacketUp ==
  LET k == Head(pkts_burst)
  IN  /\ tpc = "up"
      /\ pkts_burst # << >>
      /\ pkts_burst' = Tail(pkts_burst)
      /\ IF k # NULL
         THEN /\ fdb' = register_fdb(fdb, k.src, k.port)
              /\ last_port' = [a \in EtherAddrs |-> IF a = k.src THEN k.port ELSE last_port[a]]
              /\ pool' = pool \union {k.mbuf}
         ELSE UNCHANGED <<fdb, last_port, pool>>
      /\ UNCHANGED <<pub, rings, nic, leaked, nettlp, tpc, starts, rib_ver, vswitch,
                     port_fd, attached, idx, fds>>

(* Mutant: the loop may end at the last port of the vswitch.               *)
UpDoneEarly ==
  /\ tpc = "up"
  /\ pkts_burst = << >>
  /\ idx >= Len(vswitch)
  /\ tpc' = "poll"
  /\ UNCHANGED <<pub, mbuf_vars, starts, rib_ver, vswitch, port_fd, attached,
                 fdb, idx, pkts_burst, fds, last_port>>

UpDone ==
  /\ tpc = "up"
  /\ pkts_burst = << >>
  /\ idx > Len(vswitch)
  /\ tpc' = "poll"
  /\ UNCHANGED <<pub, mbuf_vars, starts, rib_ver, vswitch, port_fd, attached,
                 fdb, idx, pkts_burst, fds, last_port>>

(* poll(): the first taps, as many as fds[] holds; a descriptor of -1 is   *)
(* never ready.                                                            *)
Polled ==
  {p \in port_fd : \E i \in 1..Len(vswitch) : i <= MaxFds /\ vswitch[i] = TapPort(p)}

Poll(ready) ==
  /\ tpc = "poll"
  /\ fds' = ready
  /\ tpc' = "down"
  /\ UNCHANGED <<pub, mbuf_vars, starts, rib_ver, vswitch, port_fd, attached,
                 fdb, idx, pkts_burst, last_port>>

(* The next tap with data is read.                                         *)
ReadTap ==
  /\ tpc = "down"
  /\ fds # {}
  /\ fds' = fds \ {Min(fds)}
  /\ idx' = 1
  /\ tpc' = "flood"
  /\ UNCHANGED <<pub, mbuf_vars, starts, rib_ver, vswitch, port_fd, attached,
                 fdb, pkts_burst, last_port>>

(* The packet is flooded: a new mbuf for each DPDK port.  The result of    *)
(* rte_ring_enqueue() is not looked at, and neither is that of             *)
(* rte_pktmbuf_alloc(): the program ends when it is NULL.                  *)
Flood(m) ==
  LET port == vswitch[idx]
      q == port.queue
  IN  /\ tpc = "flood"
      /\ idx <= Len(vswitch)
      /\ port.type = "DPDK_LCORE"
      /\ m \in pool
      /\ pool' = pool \ {m}
      /\ IF Full(ring_dn[q])
         THEN leaked' = leaked \union {m} /\ UNCHANGED ring_dn
         ELSE ring_dn' = [ring_dn EXCEPT ![q] = Append(@, m)] /\ UNCHANGED leaked
      /\ idx' = idx + 1
      /\ UNCHANGED <<pub, ring_up, nic, nettlp, tpc, starts, rib_ver, vswitch,
                     port_fd, attached, fdb, pkts_burst, fds, last_port>>

FloodSkip ==
  /\ tpc = "flood"
  /\ IF idx <= Len(vswitch)
     THEN vswitch[idx].type # "DPDK_LCORE" /\ idx' = idx + 1 /\ UNCHANGED tpc
     ELSE tpc' = "down" /\ UNCHANGED idx
  /\ UNCHANGED <<pub, mbuf_vars, starts, rib_ver, vswitch, port_fd, attached,
                 fdb, pkts_burst, fds, last_port>>

FloodCrash ==
  /\ tpc = "flood"
  /\ idx <= Len(vswitch)
  /\ vswitch[idx].type = "DPDK_LCORE"
  /\ pool = {}
  /\ tpc' = "crashed"
  /\ UNCHANGED <<pub, mbuf_vars, starts, rib_ver, vswitch, port_fd, attached,
                 fdb, idx, pkts_burst, fds, last_port>>

(* The end of the loop body: quiescent state, loop test.                   *)
LoopEnd(stop) ==
  /\ tpc = "down"
  /\ fds = {}
  /\ tpc' = IF stop THEN "off" ELSE "read"
  /\ UNCHANGED <<pub, mbuf_vars, starts, rib_ver, vswitch, port_fd, attached,
                 fdb, idx, pkts_burst, fds, last_port>>

-----------------------------------------------------------------------------
Init ==
  /\ pub = [info |-> FALSE, ver |-> 0, queues |-> << >>]
  /\ ring_up = [q \in PortQueues |-> << >>]
  /\ ring_dn = [q \in PortQueues |-> << >>]
  /\ pool = Mbufs /\ nic = {} /\ leaked = {}
  /\ nettlp = [rx |-> NULL, m |-> NULL]
  /\ tpc = "off" /\ starts = 0 /\ rib_ver = 0
  /\ vswitch = << >> /\ port_fd = {} /\ attached = {} /\ fdb = << >>
  /\ idx = 1 /\ pkts_burst = << >> /\ fds = {}
  /\ last_port = [a \in EtherAddrs |-> NULL]

(* Lists that name a queue at most once, as rib_check() demands.           *)
QueueLists == UNION {{s \in [1..n -> PortQueues] : IsInjective(s)} :
                       n \in 0..Cardinality(PortQueues)}

TapHandler ==
  \/ \E v \in StackValues \union {rib_ver} : ReadRib(v)
  \/ DequeueUp
  \/ HandlePacketUp
  \/ UpDone
  \/ \E ready \in SUBSET Polled : Poll(ready)
  \/ ReadTap
  \/ \E m \in Mbufs : Flood(m)
  \/ FloodSkip
  \/ FloodCrash
  \/ \E stop \in BOOLEAN : LoopEnd(stop)

RepeaterAndNic ==
  \/ \E q \in PortQueues, m \in Mbufs, src \in EtherAddrs \union {ZeroAddr},
        up \in SUBSET Ports : RxPacket(q, m, src, up)
  \/ \E q \in PortQueues, sent \in 0..MAX_PKT_BURST : TxBurst(q, sent)
  \/ \E m \in Mbufs : NicDone(m)

NettlpThread ==
  \/ NettlpTurn
  \/ \E q \in PortQueues, m \in Mbufs, src \in EtherAddrs \union {ZeroAddr},
        udp \in BOOLEAN : NettlpReceive(q, m, src, udp)
  \/ \E buffer \in BOOLEAN : NettlpComplete(buffer) \/ NettlpSendDma(buffer)
  \/ NettlpFree

Next ==
  /\ tpc # "crashed"
  /\ \/ PublishZero
     \/ \E queues \in QueueLists : PublishRib(queues)
     \/ TapHandlerStart
     \/ TapHandler
     \/ RepeaterAndNic
     \/ NettlpThread

Spec == Init /\ [][Next]_vars

(* tap_handler has a core of its own.                                      *)
FairSpec == Spec /\ WF_vars(TapHandler)

-----------------------------------------------------------------------------
Queued(ring) == {k.mbuf : k \in ToSet(ring) \ {NULL}}

(* Who may own an mbuf, and what each of them owns.                        *)
Owners ==
  ({"pool", "nic", "leaked", "nettlp", "tap_handler"} \X {NULL})
    \union ({"ring_up", "ring_dn"} \X PortQueues)

Owned(o) ==
  CASE o[1] = "pool" -> pool
    [] o[1] = "nic" -> nic
    [] o[1] = "leaked" -> leaked
    [] o[1] = "nettlp" -> {nettlp.m} \ {NULL}
    [] o[1] = "tap_handler" -> Queued(pkts_burst)
    [] o[1] = "ring_up" -> Queued(ring_up[o[2]])
    [] o[1] = "ring_dn" -> ToSet(ring_dn[o[2]])

(* No two packets of a ring are one mbuf.                                  *)
QueuedOnce(ring) ==
  \A i, j \in DOMAIN ring :
    ring[i] # NULL /\ ring[j] # NULL /\ ring[i].mbuf = ring[j].mbuf => i = j

(* An mbuf has one owner: the pool, one place in one ring, the devices,    *)
(* the worker or the tap handler that has it in hand, or nobody any more.  *)
(* None is freed twice, queued twice or used after it was freed, whichever *)
(* copy, enqueue or allocation fails.                                      *)
MbufOnce ==
  /\ \A m \in Mbufs : \E o \in Owners : \A p \in Owners : m \in Owned(p) <=> p = o
  /\ \A q \in PortQueues : QueuedOnce(ring_up[q]) /\ IsInjective(ring_dn[q])
  /\ QueuedOnce(pkts_burst)

(* The vswitch is the taps followed by queues, none twice, within its      *)
(* size, however often the queues change: no tap is lost with the DPDK     *)
(* ports that are removed around it.                                       *)
VswitchShape ==
  /\ Len(vswitch) <= VSWITCH_PORT_SIZE
  /\ \A i, j \in 1..Len(vswitch) : vswitch[i] = vswitch[j] => i = j
  /\ \A i \in 1..Len(vswitch) :
       IF i <= NPorts THEN vswitch[i] = TapPort(i - 1)
                      ELSE vswitch[i].type = "DPDK_LCORE"

(* The fdb has at most one entry for an address, and it is the port of the *)
(* last packet from that address that the tap handler has seen.            *)
FdbTracks ==
  /\ Len(fdb) <= FDB_SIZE
  /\ \A i, j \in 1..Len(fdb) : fdb[i].l2addr = fdb[j].l2addr => i = j
  /\ \A i \in 1..Len(fdb) : fdb[i].port = last_port[fdb[i].l2addr]

(* A packet copied to the ring of a queue that the vswitch knows reaches   *)
(* the taps, unless the queue leaves the vswitch or the handler ends.      *)
InRing(m, q) == m \in Queued(ring_up[q]) /\ DpdkPort(q) \in ToSet(vswitch)

UpDelivered ==
  \A m \in Mbufs, q \in PortQueues :
    InRing(m, q) /\ tpc # "off" ~>
      m \in pool \/ DpdkPort(q) \notin ToSet(vswitch) \/ tpc \in {"off", "crashed"}
=============================================================================
