------------------------------ MODULE MCVswitch ------------------------------
(* Instances of Vswitch for TLC.                                           *)
EXTENDS Vswitch

Queue(p, q) == [port_id |-> p, queue_id |-> q]

(* One queue on each of two ports.                                         *)
TwoQueues == {Queue(0, 0), Queue(1, 0)}

(* One of them is served by the nettlp worker.                              *)
NettlpQueue == {Queue(1, 0)}

MbufSymmetry == Permutations(Mbufs)
=============================================================================
