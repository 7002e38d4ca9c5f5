----------------------------- MODULE QueueLease ------------------------------
(***************************************************************************)
(* What the rib, the grace period and the zero rib are for, without them:  *)
(* an rx queue and its two tap rings are leased to one lcore at a time.    *)
(* A worker takes all the queues of one turn of its loop together and      *)
(* gives them back together.  A lock per queue would implement this;       *)
(* RibManager implements it with no lock at all.                           *)
(***************************************************************************)
CONSTANTS Lessees, Queues

VARIABLE lease    \* lessee |-> the set of queues it may touch

LeaseTypeOK == lease \in [Lessees -> SUBSET Queues]

Init == lease = [w \in Lessees |-> {}]

Acquire(w, qs) ==
  /\ lease[w] = {}
  /\ \A v \in Lessees \ {w} : lease[v] \cap qs = {}
  /\ lease' = [lease EXCEPT ![w] = qs]

Release(w) == lease' = [lease EXCEPT ![w] = {}]

Next ==
  \E w \in Lessees :
    \/ \E qs \in SUBSET Queues : Acquire(w, qs)
    \/ Release(w)

Spec == Init /\ [][Next]_lease
=============================================================================
