----------------------------- MODULE MCScheduler -----------------------------
(* Queues of one and two places, two different items, up to three accepted *)
(* per queue: each queue fills up, is emptied and is filled again.         *)
EXTENDS Scheduler

MCCapacity == [k \in WorkKind |-> IF k = "PACKET_WORK" THEN 2 ELSE 1]
=============================================================================
