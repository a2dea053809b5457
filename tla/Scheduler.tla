------------------------------ MODULE Scheduler ------------------------------
(***************************************************************************)
(* Scheduler (include/upf/application/scheduler.hpp,                       *)
(* src/application/scheduler.cpp): three bounded FIFO queues, served       *)
(* round-robin, with a shutdown that stops admission and hands out what is *)
(* left.                                                                   *)
(***************************************************************************)
EXTENDS Naturals, Sequences

CONSTANTS Values,        \* the work items
          Capacity,      \* controlQueue, packetQueue, reconciliationQueue of CapacityLimits
          MaxAccepted    \* bound: items of one kind accepted in the model

WorkKind == {"CONTROL_WORK", "PACKET_WORK", "RECONCILIATION_WORK"}
Order    == <<"CONTROL_WORK", "PACKET_WORK", "RECONCILIATION_WORK">>

ASSUME CapacityAssumption == Capacity \in [WorkKind -> Nat]

VARIABLES queues,      \* control_, packet_ and reconciliation_
          accepting,   \* accepting_
          left         \* history: what each queue has handed out

vars == <<queues, accepting, left>>

Init ==
  /\ queues = [k \in WorkKind |-> <<>>]
  /\ accepting = TRUE
  /\ left = [k \in WorkKind |-> <<>>]

\* Mutant: one place too many is filled.
EnqueueOneMore(k, value) ==
  /\ accepting /\ Len(queues[k]) <= Capacity[k]
  /\ Len(left[k]) + Len(queues[k]) < MaxAccepted
  /\ queues' = [queues EXCEPT ![k] = Append(@, value)]
  /\ UNCHANGED <<accepting, left>>

\* Mutant: accepting_ is not asked.
EnqueueAlways(k, value) ==
  /\ Len(queues[k]) < Capacity[k]
  /\ Len(left[k]) + Len(queues[k]) < MaxAccepted
  /\ queues' = [queues EXCEPT ![k] = Append(@, value)]
  /\ UNCHANGED <<accepting, left>>

\* enqueueControl, enqueuePacket and enqueueReconciliation.
Enqueue(k, value) ==
  /\ accepting /\ Len(queues[k]) < Capacity[k]
  /\ Len(left[k]) + Len(queues[k]) < MaxAccepted
  /\ queues' = [queues EXCEPT ![k] = Append(@, value)]
  /\ UNCHANGED <<accepting, left>>

RefuseEnqueue(k, value) ==
  /\ ~ accepting \/ Len(queues[k]) >= Capacity[k]
  /\ UNCHANGED vars

\* The first taken[k] items leave each queue.  The vector returned lists the
\* kinds one after the other in Order; left keeps each kind's part of it.
HandOut(taken) ==
  /\ left' = [k \in WorkKind |-> left[k] \o SubSeq(queues[k], 1, taken[k])]
  /\ queues' = [k \in WorkKind |-> SubSeq(queues[k], taken[k] + 1, Len(queues[k]))]
  /\ UNCHANGED accepting

\* Mutant: strict priority instead of a round.
TakeUrgent ==
  HandOut([k \in WorkKind |->
             IF /\ queues[k] # <<>>
                /\ \A i, j \in 1 .. 3 : Order[i] = k /\ j < i => queues[Order[j]] = <<>>
             THEN 1 ELSE 0])

TakeCycle == HandOut([k \in WorkKind |-> IF queues[k] = <<>> THEN 0 ELSE 1])

ClassifyRemainder == HandOut([k \in WorkKind |-> Len(queues[k])])

StopAdmission ==
  /\ accepting' = FALSE
  /\ UNCHANGED <<queues, left>>

Pending == Len(queues[Order[1]]) + Len(queues[Order[2]]) + Len(queues[Order[3]])

Next ==
  \/ \E k \in WorkKind, value \in Values : Enqueue(k, value) \/ RefuseEnqueue(k, value)
  \/ TakeCycle
  \/ ClassifyRemainder
  \/ StopAdmission

\* The owner of the scheduler keeps taking cycles: an assumption about the
\* caller, which the repository leaves to its user.
Spec == Init /\ [][Next]_vars /\ WF_vars(TakeCycle)

-----------------------------------------------------------------------------
\* Queues and what has left them are sequences of work items.
TypeOK ==
  /\ queues \in [WorkKind -> Seq(Values)]
  /\ left \in [WorkKind -> Seq(Values)]
  /\ accepting \in BOOLEAN

\* "Bounded queues": no sequence of calls makes a queue longer than its own
\* capacity, and so the total pending work is bounded.
QueuesBounded ==
  /\ \A k \in WorkKind : Len(queues[k]) <= Capacity[k]
  /\ Pending <= Capacity[Order[1]] + Capacity[Order[2]] + Capacity[Order[3]]

Accepted(k) == left[k] \o queues[k]

\* After stopAdmission nothing is accepted any more and admission never
\* resumes; what was accepted before stays accounted for, handed out or
\* queued, unchanged and in order.
ShutdownIsFinal ==
  [][~ accepting => /\ ~ accepting'
                    /\ \A k \in WorkKind : Accepted(k)' = Accepted(k)]_vars

\* Every accepted item is handed out, once and in the order of its queue,
\* whatever load the other queues are under.
Fifo == INSTANCE FairFifo WITH
          Kinds <- WorkKind,
          log   <- [k \in WorkKind |-> Accepted(k)],
          done  <- [k \in WorkKind |-> Len(left[k])]

\* The scheduler implements the abstract FIFO with fair turns.
ImplementsFairFifo == Fifo!Spec
=============================================================================
