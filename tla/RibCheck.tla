------------------------------ MODULE RibCheck -------------------------------
(***************************************************************************)
(* rib_check()'s test of a queue configuration as the program computes it: *)
(* collect the rx queues lcore by lcore, sort them with                    *)
(* port_qconf_compare(), walk the sorted array counting each port's        *)
(* queues.  The specification around it edits thread_qconf with the shell  *)
(* command and merges it into the rib's configuration the way a QCONF      *)
(* message does, so that the test meets every configuration, acceptable or *)
(* not, that a sequence of commands can produce.  RibManager uses the      *)
(* declarative Ordered, PortNrxq and Ntxq of QueueConf in its place.       *)
(***************************************************************************)
EXTENDS QueueConf, Integers, Functions

CONSTANT MaxEdits    \* bound: shell commands

VARIABLES thread_qconf, rib_qconf, edits
vars == <<thread_qconf, rib_qconf, edits>>

-----------------------------------------------------------------------------
(* port_qconf[] and max_lcore after the lcores below k: lcore by lcore,    *)
(* both updated at every queue of the lcore.                               *)
Collected(qc) ==
  LET after[k \in 0..LcoreCount] ==
        IF k = 0
        THEN [port_qconf |-> << >>, max_lcore |-> 0]
        ELSE [port_qconf |-> after[k - 1].port_qconf \o qc[k - 1],
              max_lcore  |-> IF qc[k - 1] # << >> /\ after[k - 1].max_lcore < k - 1
                             THEN k - 1 ELSE after[k - 1].max_lcore]
  IN  after

(* Mutant: the order of a port's queues is left to chance.                 *)
ComparePortsOnly(a, b) == a.port_id < b.port_id

(* port_qconf_compare (a, b) < 0 *)
port_qconf_compare(a, b) ==
  \/ a.port_id < b.port_id
  \/ a.port_id = b.port_id /\ a.queue_id < b.queue_id

(* A rearrangement of s in which no entry is less than one before it.      *)
Sorting(s, order) ==
  \A i, j \in 1..Len(s) : i < j => ~port_qconf_compare(s[order[j]], s[order[i]])

(* What the C library promises of qsort (): such a rearrangement.          *)
qsort(s) ==
  LET order == CHOOSE f \in Bijection(1..Len(s), 1..Len(s)) : Sorting(s, f)
  IN  [i \in 1..Len(s) |-> s[order[i]]]

(* The counting loop after i entries: port_nrxq[], and -1 once it has met  *)
(* an entry that is not its port's next queue.                             *)
CountLoop(sorted) ==
  LET after[i \in 0..Len(sorted)] ==
        IF i = 0
        THEN [ret |-> 0, port_nrxq |-> [p \in Ports |-> 0]]
        ELSE LET port  == sorted[i].port_id
                 count == after[i - 1].port_nrxq
             IN  IF after[i - 1].ret = 0 /\ count[port] = sorted[i].queue_id
                 THEN [ret |-> 0, port_nrxq |-> [count EXCEPT ![port] = @ + 1]]
                 ELSE [ret |-> -1, port_nrxq |-> count]
  IN  after

rib_check(qc) ==
  LET all  == Collected(qc)[LcoreCount]
      size == Len(all.port_qconf)
      loop == CountLoop(qsort(all.port_qconf))[size]
  IN  [ret |-> loop.ret, port_nrxq |-> loop.port_nrxq, ntxq |-> all.max_lcore + 1]

-----------------------------------------------------------------------------
Init ==
  /\ thread_qconf = NoQueues
  /\ rib_qconf = NoQueues
  /\ edits = 0

SetThread(lcore, pq) ==
  /\ edits < MaxEdits
  /\ edits' = edits + 1
  /\ thread_qconf' = set_thread_lcore_port_queue(thread_qconf, lcore, pq)
  /\ UNCHANGED rib_qconf

Candidate == MergeQconf(rib_qconf, thread_qconf)

(* A QCONF message with the table of this moment is processed.             *)
Process ==
  /\ rib_check(Candidate).ret = 0
  /\ rib_qconf' = Candidate
  /\ UNCHANGED <<thread_qconf, edits>>

Next ==
  \/ \E l \in Lcores, pq \in PortQueue : SetThread(l, pq)
  \/ Process

Spec == Init /\ [][Next]_vars

-----------------------------------------------------------------------------
(* The sorting and counting of rib_check() accept just the configurations  *)
(* in which each port's queues are 0..n-1, each named once, and count and  *)
(* dimension the port as the declarative definitions say.                  *)
CheckIsOrdered ==
  LET chk == rib_check(Candidate)
  IN  /\ chk.ret = 0 <=> Ordered(Candidate)
      /\ chk.ret = 0 => /\ \A p \in Ports : chk.port_nrxq[p] = PortNrxq(Candidate, p)
                       /\ chk.ntxq = Ntxq(Candidate)

(* The shell's table never gives a queue to two lcores or twice to one,    *)
(* and never overfills an lcore, however often queues are moved.           *)
TableConsistent ==
  /\ \A l, m \in Lcores :
       \A i \in 1..Len(thread_qconf[l]), j \in 1..Len(thread_qconf[m]) :
         thread_qconf[l][i] = thread_qconf[m][j] => l = m /\ i = j
  /\ \A l \in Lcores : Len(thread_qconf[l]) <= MAX_RX_QUEUE_PER_LCORE

(* An lcore that has a queue in the rib never goes back to none, whatever  *)
(* is moved away from it, so that no port ever loses a tx queue that a     *)
(* worker may be using.                                                    *)
BusyLcores(qc) == {l \in ActiveLcores : qc[l] # << >>}

BusyLcoresGrow ==
  [][/\ BusyLcores(rib_qconf) \subseteq BusyLcores(rib_qconf')
     /\ Ntxq(rib_qconf) <= Ntxq(rib_qconf')]_rib_qconf
=============================================================================
