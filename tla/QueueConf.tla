------------------------------ MODULE QueueConf ------------------------------
(***************************************************************************)
(* The rx-queue configuration of the data plane: which lcore polls which   *)
(* (port, queue) pair, in which order.  The same shape is kept twice in    *)
(* the program: thread_qconf[] belongs to the command line                 *)
(* (sdplane/queue_config.c) and lcore_qconf[] is a field of every rib      *)
(* (sdplane/rib.h).  This module holds the pure operators on it: the edit  *)
(* that "set thread N port P queue Q" makes, the merge that the rib        *)
(* manager applies when it receives a QCONF message, and the test that     *)
(* rib_check() makes before it touches a device.                           *)
(***************************************************************************)
EXTENDS Naturals, Sequences, FiniteSets

CONSTANTS
  RTE_MAX_LCORE,            \* length of thread_qconf[] and of lcore_qconf[]
  LcoreCount,               \* rte_lcore_count()
  NPorts,                   \* rte_eth_dev_count_avail()
  NQueues,                  \* queue ids the operator uses are 0..NQueues-1
  MAX_RX_QUEUE_PER_LCORE    \* length of rx_queue_list[]

ASSUME QueueConfAssumption ==
  /\ RTE_MAX_LCORE \in Nat \ {0}
  /\ LcoreCount \in 1..RTE_MAX_LCORE
  /\ NPorts \in Nat \ {0}
  /\ NQueues \in Nat \ {0}
  /\ MAX_RX_QUEUE_PER_LCORE \in Nat \ {0}

Lcores == 0..RTE_MAX_LCORE - 1
Ports == 0..NPorts - 1

(* struct port_queue_conf *)
PortQueue == [port_id : Ports, queue_id : 0..NQueues - 1]

(* lcore |-> its rx_queue_list[0..nrxq-1]; nrxq is the length.             *)
Qconf == [Lcores -> Seq(PortQueue)]

NoQueues == [l \in Lcores |-> << >>]

Elems(s) == {s[i] : i \in 1..Len(s)}

-----------------------------------------------------------------------------
(* memmove (port_qconf, port_qconf + 1, ...); nrxq--: the entry is taken   *)
(* out and the ones behind it move up.  A list never names a pair twice    *)
(* (TableConsistent in RibCheck), so there is one entry to take out.       *)
Without(s, pq) ==
  IF pq \notin Elems(s)
  THEN s
  ELSE LET j == CHOOSE k \in 1..Len(s) : s[k] = pq
       IN  [i \in 1..Len(s) - 1 |-> IF i < j THEN s[i] ELSE s[i + 1]]

(* Mutant: the pair stays on the lcore that had it.                        *)
SetThreadWithoutRemoval(qc, lcore, pq) ==
  [qc EXCEPT ![lcore] =
     IF pq \in Elems(@) \/ Len(@) >= MAX_RX_QUEUE_PER_LCORE
     THEN @ ELSE Append(@, pq)]

(* "set thread lcore port P queue Q": the pair leaves every other lcore    *)
(* and is appended to this one unless it is there or the list is full.     *)
(* A full list loses the pair altogether: it has already left its lcore.   *)
set_thread_lcore_port_queue(qc, lcore, pq) ==
  [l \in Lcores |->
     IF l # lcore THEN Without(qc[l], pq)
     ELSE IF pq \in Elems(qc[l]) \/ Len(qc[l]) >= MAX_RX_QUEUE_PER_LCORE
          THEN qc[l]
          ELSE Append(qc[l], pq)]

(* Mutants: empty lists are copied too; a list once set is kept.           *)
MergeAll(qc, msg) ==
  [l \in Lcores |-> IF l < LcoreCount THEN msg[l] ELSE qc[l]]

MergeFirst(qc, msg) ==
  [l \in Lcores |->
     IF l < LcoreCount /\ qc[l] = << >> THEN msg[l] ELSE qc[l]]

(* The QCONF case of rib_manager_process_message(): only an lcore that     *)
(* exists and has a queue in the message is overwritten.                   *)
MergeQconf(qc, msg) ==
  [l \in Lcores |->
     IF l < LcoreCount /\ msg[l] # << >> THEN msg[l] ELSE qc[l]]

-----------------------------------------------------------------------------
(* The lcores that rib_check() collects rx queues from.                    *)
ActiveLcores == 0..LcoreCount - 1

RxQueues(qc) == UNION {Elems(qc[l]) : l \in ActiveLcores}

(* No pair is named at two places, on one lcore or on two.                 *)
NamedOnce(qc) ==
  \A l, m \in ActiveLcores :
    \A i \in 1..Len(qc[l]), j \in 1..Len(qc[m]) :
      qc[l][i] = qc[m][j] => l = m /\ i = j

(* Mutant: a queue of two lcores is let through.                           *)
OrderedWithRepeats(qc) ==
  \A pq \in RxQueues(qc) :
    pq.queue_id > 0 =>
      [port_id |-> pq.port_id, queue_id |-> pq.queue_id - 1] \in RxQueues(qc)

(* rib_check()'s test of the collected and sorted queues: each port's      *)
(* queue ids are 0, 1, 2, ... with no repetition and no gap.               *)
Ordered(qc) ==
  /\ NamedOnce(qc)
  /\ \A pq \in RxQueues(qc) :
       pq.queue_id > 0 =>
         [port_id |-> pq.port_id, queue_id |-> pq.queue_id - 1] \in RxQueues(qc)

(* port_nrxq[] after the test has passed.                                  *)
PortNrxq(qc, port) == Cardinality({pq \in RxQueues(qc) : pq.port_id = port})

(* Mutants: ntxq = max_lcore, and ntxq = max_lcore + 2.                    *)
NtxqTooFew(qc) ==
  Cardinality({m \in ActiveLcores :
                 m # 0 /\ \E l \in ActiveLcores : m <= l /\ qc[l] # << >>})

NtxqTooMany(qc) == NtxqTooFew(qc) + 2

(* ntxq = max_lcore + 1: the number of lcores up to the last one that has  *)
(* an rx queue, at least one.                                              *)
Ntxq(qc) ==
  Cardinality({m \in ActiveLcores :
                 m = 0 \/ \E l \in ActiveLcores : m <= l /\ qc[l] # << >>})
=============================================================================
