-------------------------- MODULE Scheduler_proofs --------------------------
(***************************************************************************)
(* Proofs about the scheduler: its queues are bounded, its shutdown is     *)
(* final, and its steps are steps of the abstract FIFO.  That accepted     *)
(* work eventually leaves is a liveness property and left to TLC.          *)
(***************************************************************************)
EXTENDS Scheduler, SequenceTheorems, TLAPS

\* A queue is the items taken from its front and the rest.
LEMMA SplitQueue ==
  ASSUME NEW S, NEW s \in Seq(S), NEW n \in 0 .. Len(s)
  PROVE  /\ SubSeq(s, 1, n) \in Seq(S) /\ Len(SubSeq(s, 1, n)) = n
         /\ SubSeq(s, n + 1, Len(s)) \in Seq(S)
         /\ Len(SubSeq(s, n + 1, Len(s))) = Len(s) - n
         /\ \A t \in Seq(S) : (t \o SubSeq(s, 1, n)) \o SubSeq(s, n + 1, Len(s)) = t \o s
PROOF
  <1>1. Len(s) \in Nat /\ n \in Nat
    OBVIOUS
  <1>2. SubSeq(s, 1, n) \in Seq(S) /\ Len(SubSeq(s, 1, n)) = n
    BY <1>1
  <1>3. SubSeq(s, n + 1, Len(s)) \in Seq(S) /\ Len(SubSeq(s, n + 1, Len(s))) = Len(s) - n
    BY <1>1
  <1>4. ASSUME NEW t \in Seq(S)
        PROVE  (t \o SubSeq(s, 1, n)) \o SubSeq(s, n + 1, Len(s)) = t \o s
    <2> DEFINE head == SubSeq(s, 1, n)
               tail == SubSeq(s, n + 1, Len(s))
    <2>0. /\ head \in Seq(S) /\ Len(head) = n /\ tail \in Seq(S) /\ Len(tail) = Len(s) - n
          /\ \A k \in 1 .. n : head[k] = s[k]
          /\ \A k \in 1 .. Len(s) - n : tail[k] = s[n + k]
      BY <1>1, <1>2, <1>3
    <2> HIDE DEF head, tail
    <2>1. (t \o head) \o tail = t \o (head \o tail)
      BY <2>0, ConcatAssociative
    <2>2. /\ head \o tail \in Seq(S)
          /\ Len(head \o tail) = Len(s)
          /\ \A k \in 1 .. Len(s) :
               (head \o tail)[k] = IF k <= n THEN head[k] ELSE tail[k - n]
      <3>1. /\ head \o tail \in Seq(S)
            /\ Len(head \o tail) = Len(head) + Len(tail)
            /\ \A k \in 1 .. Len(head) + Len(tail) :
                 (head \o tail)[k] = IF k <= Len(head) THEN head[k] ELSE tail[k - Len(head)]
        BY <2>0, ConcatProperties
      <3>2. Len(head) + Len(tail) = Len(s)
        BY <1>1, <2>0
      <3> QED BY <2>0, <3>1, <3>2
    <2>3. ASSUME NEW k \in 1 .. Len(s) PROVE (head \o tail)[k] = s[k]
      <3>1. CASE k <= n
        BY <1>1, <2>0, <2>2, <3>1
      <3>2. CASE k > n
        <4>1. k - n \in 1 .. Len(s) - n /\ n + (k - n) = k /\ ~ (k <= n)
          BY <1>1, <3>2
        <4>2. tail[k - n] = s[k]
          BY <2>0, <4>1
        <4> QED BY <2>2, <4>1, <4>2
      <3>3. k <= n \/ k > n
        BY <1>1
      <3> QED BY <3>1, <3>2, <3>3
    <2>4. head \o tail = s
      BY <2>2, <2>3, SeqEqual
    <2> QED BY <2>1, <2>4 DEF head, tail
  <1> QED BY <1>2, <1>3, <1>4

\* Appending to the second of two sequences appends to their concatenation.
LEMMA AppendLast ==
  ASSUME NEW S, NEW s \in Seq(S), NEW t \in Seq(S), NEW e \in S
  PROVE  s \o Append(t, e) = Append(s \o t, e)
PROOF
  <1> DEFINE u == <<e>>
  <1>1. u \in Seq(S)
    OBVIOUS
  <1>2. s \o t \in Seq(S)
    BY ConcatProperties
  <1>3. Append(t, e) = t \o u /\ Append(s \o t, e) = (s \o t) \o u
    BY <1>2, AppendIsConcat
  <1> HIDE DEF u
  <1>4. (s \o t) \o u = s \o (t \o u)
    BY <1>1, ConcatAssociative
  <1> QED BY <1>3, <1>4

\* What handing out items does to the queues, whatever the number taken.
LEMMA HandOutKeeps ==
  ASSUME TypeOK, NEW taken, \A k \in WorkKind : taken[k] \in 0 .. Len(queues[k]),
         HandOut(taken)
  PROVE  /\ TypeOK'
         /\ \A k \in WorkKind : /\ Len(queues'[k]) = Len(queues[k]) - taken[k]
                                /\ Len(left'[k]) = Len(left[k]) + taken[k]
                                /\ left'[k] \o queues'[k] = left[k] \o queues[k]
         /\ accepting' = accepting
PROOF
  <1>1. ASSUME NEW k \in WorkKind
        PROVE  /\ left'[k] \in Seq(Values) /\ queues'[k] \in Seq(Values)
               /\ Len(queues'[k]) = Len(queues[k]) - taken[k]
               /\ Len(left'[k]) = Len(left[k]) + taken[k]
               /\ left'[k] \o queues'[k] = left[k] \o queues[k]
    <2>1. queues[k] \in Seq(Values) /\ left[k] \in Seq(Values)
      BY DEF TypeOK
    <2>2. /\ left'[k] = left[k] \o SubSeq(queues[k], 1, taken[k])
          /\ queues'[k] = SubSeq(queues[k], taken[k] + 1, Len(queues[k]))
      BY DEF HandOut
    <2>3. /\ SubSeq(queues[k], 1, taken[k]) \in Seq(Values)
          /\ Len(SubSeq(queues[k], 1, taken[k])) = taken[k]
          /\ SubSeq(queues[k], taken[k] + 1, Len(queues[k])) \in Seq(Values)
          /\ Len(SubSeq(queues[k], taken[k] + 1, Len(queues[k]))) = Len(queues[k]) - taken[k]
          /\ (left[k] \o SubSeq(queues[k], 1, taken[k]))
               \o SubSeq(queues[k], taken[k] + 1, Len(queues[k])) = left[k] \o queues[k]
      BY <2>1, SplitQueue
    <2>4. /\ left[k] \o SubSeq(queues[k], 1, taken[k]) \in Seq(Values)
          /\ Len(left[k] \o SubSeq(queues[k], 1, taken[k])) = Len(left[k]) + taken[k]
      BY <2>1, <2>3, ConcatProperties
    <2> QED BY <2>2, <2>3, <2>4
  <1>2. TypeOK'
    <2>1. /\ DOMAIN left' = WorkKind /\ DOMAIN queues' = WorkKind
          /\ left' = [k \in WorkKind |-> left'[k]] /\ queues' = [k \in WorkKind |-> queues'[k]]
          /\ accepting' = accepting
      BY DEF HandOut
    <2> QED BY <1>1, <2>1 DEF TypeOK
  <1> QED BY <1>1, <1>2 DEF HandOut

\* takeCycle and classifyRemainder take no more than a queue holds.
LEMMA TakenFits ==
  ASSUME TypeOK, NEW k \in WorkKind
  PROVE  /\ Len(queues[k]) \in Nat /\ Len(left[k]) \in Nat
         /\ (IF queues[k] = <<>> THEN 0 ELSE 1) \in 0 .. Len(queues[k])
         /\ Len(queues[k]) \in 0 .. Len(queues[k])
PROOF
  <1>1. queues[k] \in Seq(Values) /\ left[k] \in Seq(Values)
    BY DEF TypeOK
  <1>2. Len(queues[k]) \in Nat /\ Len(left[k]) \in Nat
    BY <1>1
  <1>3. queues[k] # <<>> => Len(queues[k]) >= 1
    BY <1>1
  <1> QED BY <1>2, <1>3

\* The effect of an accepted item.
LEMMA EnqueueKeeps ==
  ASSUME TypeOK, NEW k \in WorkKind, NEW value \in Values, Enqueue(k, value)
  PROVE  /\ TypeOK' /\ left' = left /\ accepting' = accepting /\ accepting
         /\ Len(queues'[k]) = Len(queues[k]) + 1 /\ Len(queues[k]) < Capacity[k]
         /\ queues'[k] = Append(queues[k], value)
         /\ \A j \in WorkKind \ {k} : queues'[j] = queues[j]
PROOF
  <1>1. queues \in [WorkKind -> Seq(Values)] /\ queues[k] \in Seq(Values)
    BY DEF TypeOK
  <1>2. /\ queues' = [queues EXCEPT ![k] = Append(queues[k], value)]
        /\ left' = left /\ accepting' = accepting /\ accepting /\ Len(queues[k]) < Capacity[k]
    BY DEF Enqueue
  <1>3. /\ queues'[k] = Append(queues[k], value)
        /\ \A j \in WorkKind \ {k} : queues'[j] = queues[j]
    BY <1>1, <1>2
  <1>4. Append(queues[k], value) \in Seq(Values) /\ Len(Append(queues[k], value)) = Len(queues[k]) + 1
    BY <1>1, AppendProperties
  <1>5. queues' \in [WorkKind -> Seq(Values)]
    BY <1>1, <1>2, <1>4
  <1> QED BY <1>2, <1>3, <1>4, <1>5 DEF TypeOK

\* The effect of a round or of the classification at shutdown.
LEMMA CycleKeeps ==
  ASSUME TypeOK, TakeCycle \/ ClassifyRemainder
  PROVE  /\ TypeOK' /\ accepting' = accepting
         /\ \A k \in WorkKind :
              /\ Len(queues'[k]) <= Len(queues[k])
              /\ left'[k] \o queues'[k] = left[k] \o queues[k]
              /\ IF queues[k] = <<>> THEN Len(left'[k]) = Len(left[k])
                 ELSE Len(left'[k]) \in Len(left[k]) + 1 .. Len(left[k]) + Len(queues[k])
PROOF
  <1>1. PICK taken : /\ HandOut(taken)
                     /\ \A k \in WorkKind : /\ taken[k] \in 0 .. Len(queues[k])
                                            /\ queues[k] = <<>> => taken[k] = 0
                                            /\ queues[k] # <<>> => taken[k] >= 1
    <2>1. CASE TakeCycle
      <3> DEFINE one == [k \in WorkKind |-> IF queues[k] = <<>> THEN 0 ELSE 1]
      <3>1. HandOut(one)
        BY <2>1 DEF TakeCycle
      <3>2. \A k \in WorkKind : /\ one[k] \in 0 .. Len(queues[k])
                                /\ queues[k] = <<>> => one[k] = 0
                                /\ queues[k] # <<>> => one[k] >= 1
        BY TakenFits
      <3> HIDE DEF one
      <3> QED BY <3>1, <3>2
    <2>2. CASE ClassifyRemainder
      <3> DEFINE all == [k \in WorkKind |-> Len(queues[k])]
      <3>1. HandOut(all)
        BY <2>2 DEF ClassifyRemainder
      <3>2. \A k \in WorkKind : /\ all[k] \in 0 .. Len(queues[k])
                                /\ queues[k] = <<>> => all[k] = 0
                                /\ queues[k] # <<>> => all[k] >= 1
        <4> SUFFICES ASSUME NEW k \in WorkKind
                     PROVE  /\ Len(queues[k]) \in 0 .. Len(queues[k])
                            /\ queues[k] = <<>> => Len(queues[k]) = 0
                            /\ queues[k] # <<>> => Len(queues[k]) >= 1
          OBVIOUS
        <4>1. queues[k] \in Seq(Values)
          BY DEF TypeOK
        <4> QED BY <4>1, TakenFits
      <3> HIDE DEF all
      <3> QED BY <3>1, <3>2
    <2> QED BY <2>1, <2>2
  <1>2. /\ TypeOK' /\ accepting' = accepting
        /\ \A k \in WorkKind : /\ Len(queues'[k]) = Len(queues[k]) - taken[k]
                               /\ Len(left'[k]) = Len(left[k]) + taken[k]
                               /\ left'[k] \o queues'[k] = left[k] \o queues[k]
    <2>1. HandOut(taken) /\ \A k \in WorkKind : taken[k] \in 0 .. Len(queues[k])
      BY <1>1
    <2> QED BY <2>1, HandOutKeeps, Zenon
  <1>3. ASSUME NEW k \in WorkKind
        PROVE  /\ Len(queues'[k]) <= Len(queues[k])
               /\ IF queues[k] = <<>> THEN Len(left'[k]) = Len(left[k])
                  ELSE Len(left'[k]) \in Len(left[k]) + 1 .. Len(left[k]) + Len(queues[k])
    <2> DEFINE q == Len(queues[k])
               l == Len(left[k])
               t == taken[k]
    <2>1. q \in Nat /\ l \in Nat
      BY TakenFits
    <2>2. t \in 0 .. q /\ (queues[k] = <<>> => t = 0) /\ (queues[k] # <<>> => t >= 1)
      BY <1>1
    <2>3. Len(queues'[k]) = q - t /\ Len(left'[k]) = l + t
      BY <1>2
    <2> HIDE DEF q, l, t
    <2>4. q - t <= q /\ (t = 0 => l + t = l) /\ (t >= 1 => l + t \in l + 1 .. l + q)
      BY <2>1, <2>2
    <2>5. /\ Len(queues'[k]) <= q
          /\ IF queues[k] = <<>> THEN Len(left'[k]) = l ELSE Len(left'[k]) \in l + 1 .. l + q
      BY <2>2, <2>3, <2>4
    <2> QED BY <2>5 DEF q, l
  <1> QED BY <1>2, <1>3

-----------------------------------------------------------------------------
\* The inductive invariant of the scheduler.
SchedulerInv == TypeOK /\ \A k \in WorkKind : Len(queues[k]) <= Capacity[k]

\* Every call keeps it.
LEMMA NextKeepsSchedulerInv ==
  SchedulerInv /\ [Next]_vars => SchedulerInv'
PROOF
  <1> SUFFICES ASSUME SchedulerInv, [Next]_vars PROVE SchedulerInv'
    OBVIOUS
  <1> USE CapacityAssumption
  <1>0. TypeOK /\ \A k \in WorkKind : Capacity[k] \in Nat /\ Len(queues[k]) \in Nat
    BY TakenFits DEF SchedulerInv
  <1>1. ASSUME NEW k \in WorkKind, NEW value \in Values, Enqueue(k, value) PROVE SchedulerInv'
    <2>1. /\ TypeOK' /\ Len(queues'[k]) = Len(queues[k]) + 1 /\ Len(queues[k]) < Capacity[k]
          /\ \A j \in WorkKind \ {k} : queues'[j] = queues[j]
      BY <1>0, <1>1, EnqueueKeeps
    <2>2. Len(queues'[k]) <= Capacity[k]
      BY <1>0, <2>1
    <2> QED BY <2>1, <2>2 DEF SchedulerInv
  <1>2. ASSUME TakeCycle \/ ClassifyRemainder PROVE SchedulerInv'
    <2>1. /\ TypeOK' /\ \A k \in WorkKind : Len(queues'[k]) <= Len(queues[k])
      BY <1>0, <1>2, CycleKeeps
    <2>2. \A k \in WorkKind : Len(queues'[k]) \in Nat
      BY <2>1 DEF TypeOK
    <2>3. \A k \in WorkKind : Len(queues'[k]) <= Capacity[k]
      BY <1>0, <2>1, <2>2 DEF SchedulerInv
    <2> QED BY <2>1, <2>3 DEF SchedulerInv
  <1>3. ASSUME StopAdmission PROVE SchedulerInv'
    BY <1>3 DEF StopAdmission, SchedulerInv, TypeOK
  <1>4. ASSUME UNCHANGED vars PROVE SchedulerInv'
    BY <1>4 DEF vars, SchedulerInv, TypeOK
  <1> QED
    BY <1>1, <1>2, <1>3, <1>4 DEF Next, RefuseEnqueue

\* The scheduler starts with empty queues.
LEMMA InitSchedulerInv == Init => SchedulerInv
PROOF
  <1> SUFFICES ASSUME Init PROVE SchedulerInv
    OBVIOUS
  <1>1. TypeOK
    BY DEF Init, TypeOK
  <1>2. ASSUME NEW k \in WorkKind PROVE Len(queues[k]) <= Capacity[k]
    <2>1. queues[k] = <<>> /\ Capacity[k] \in Nat
      BY CapacityAssumption DEF Init
    <2>2. Len(queues[k]) = 0
      BY <2>1
    <2> QED BY <2>1, <2>2
  <1> QED BY <1>1, <1>2 DEF SchedulerInv

\* Whatever is enqueued, taken and classified in whatever order, no queue
\* outgrows its capacity, for all capacities and items.
THEOREM SchedulerBounded == Spec => []QueuesBounded
PROOF
  <1>1. SchedulerInv => QueuesBounded
    <2> SUFFICES ASSUME SchedulerInv PROVE QueuesBounded
      OBVIOUS
    <2>1. \A k \in WorkKind : /\ Capacity[k] \in Nat /\ Len(queues[k]) \in Nat
                              /\ Len(queues[k]) <= Capacity[k]
      BY CapacityAssumption, TakenFits DEF SchedulerInv
    <2>2. Order[1] \in WorkKind /\ Order[2] \in WorkKind /\ Order[3] \in WorkKind
      BY DEF Order, WorkKind
    <2>3. Pending <= Capacity[Order[1]] + Capacity[Order[2]] + Capacity[Order[3]]
      <3> DEFINE q(i) == Len(queues[Order[i]])
                 c(i) == Capacity[Order[i]]
      <3>1. /\ q(1) \in Nat /\ c(1) \in Nat /\ q(1) <= c(1)
            /\ q(2) \in Nat /\ c(2) \in Nat /\ q(2) <= c(2)
            /\ q(3) \in Nat /\ c(3) \in Nat /\ q(3) <= c(3)
        BY <2>1, <2>2
      <3> HIDE DEF q, c
      <3>2. q(1) + q(2) + q(3) <= c(1) + c(2) + c(3)
        BY <3>1
      <3> QED BY <3>2 DEF Pending, q, c
    <2> QED BY <2>1, <2>3 DEF QueuesBounded
  <1> QED BY <1>1, InitSchedulerInv, NextKeepsSchedulerInv, PTL DEF Spec

\* stopAdmission is final, and loses and reorders nothing that was accepted.
THEOREM SchedulerShutdown == Spec => ShutdownIsFinal
PROOF
  <1>1. ASSUME SchedulerInv, [Next]_vars, ~ accepting
        PROVE  ~ accepting' /\ \A k \in WorkKind : Accepted(k)' = Accepted(k)
    <2>0. TypeOK
      BY <1>1 DEF SchedulerInv
    <2>1. ASSUME NEW k \in WorkKind, NEW value \in Values, Enqueue(k, value) PROVE FALSE
      BY <1>1, <2>1 DEF Enqueue
    <2>2. CASE TakeCycle \/ ClassifyRemainder
      <3>1. /\ accepting' = accepting
            /\ \A k \in WorkKind : left'[k] \o queues'[k] = left[k] \o queues[k]
        BY <2>0, <2>2, CycleKeeps, Zenon
      <3> QED BY <1>1, <3>1 DEF Accepted
    <2>3. CASE StopAdmission
      BY <2>3 DEF StopAdmission, Accepted
    <2>4. CASE UNCHANGED vars
      BY <1>1, <2>4 DEF vars, Accepted
    <2> QED BY <1>1, <2>1, <2>2, <2>3, <2>4 DEF Next, RefuseEnqueue
  <1>2. SchedulerInv /\ [Next]_vars =>
          [~ accepting => /\ ~ accepting'
                          /\ \A k \in WorkKind : Accepted(k)' = Accepted(k)]_vars
    BY <1>1
  <1> QED
    BY <1>2, InitSchedulerInv, NextKeepsSchedulerInv, PTL DEF Spec, ShutdownIsFinal

-----------------------------------------------------------------------------
\* The safety part of ImplementsFairFifo: from the empty queues on, every
\* call is an acceptance at the end of one log, a turn in which each waiting
\* kind advances, or invisible.  Nothing is lost, duplicated or overtaken
\* within its kind, and no kind is passed over.
THEOREM SchedulerRefinesFifo == Spec => Fifo!Init /\ [][Fifo!Next]_(Fifo!vars)
PROOF
  <1> DEFINE log == [k \in WorkKind |-> Accepted(k)]
             done == [k \in WorkKind |-> Len(left[k])]
  <1>1. Init => Fifo!Init
    <2> SUFFICES ASSUME Init PROVE Fifo!Init
      OBVIOUS
    <2>1. \A k \in WorkKind : left[k] = <<>> /\ queues[k] = <<>>
      BY DEF Init
    <2>2. \A k \in WorkKind : Len(left[k]) = 0 /\ left[k] \o queues[k] = <<>>
      BY <2>1
    <2> QED BY <2>2 DEF Fifo!Init, Accepted
  <1>2. SchedulerInv /\ [Next]_vars => [Fifo!Next]_(Fifo!vars)
    <2> SUFFICES ASSUME SchedulerInv, [Next]_vars PROVE [Fifo!Next]_(Fifo!vars)
      OBVIOUS
    <2>0. TypeOK
      BY DEF SchedulerInv
    <2>1. ASSUME NEW k \in WorkKind, NEW value \in Values, Enqueue(k, value)
          PROVE  Fifo!Accept(k, value)
      <3>1. /\ left' = left /\ queues'[k] = Append(queues[k], value)
            /\ \A j \in WorkKind \ {k} : queues'[j] = queues[j]
        BY <2>0, <2>1, EnqueueKeeps
      <3>2. left[k] \o Append(queues[k], value) = Append(left[k] \o queues[k], value)
        <4>1. left[k] \in Seq(Values) /\ queues[k] \in Seq(Values)
          BY <2>0 DEF TypeOK
        <4>2. ASSUME NEW s \in Seq(Values), NEW t \in Seq(Values)
              PROVE  s \o Append(t, value) = Append(s \o t, value)
          BY AppendLast
        <4> QED BY <4>1, <4>2
      <3>3. log' = [log EXCEPT ![k] = Append(log[k], value)]
        BY <3>1, <3>2 DEF Accepted
      <3>4. done' = done
        BY <3>1
      <3> QED BY <3>3, <3>4 DEF Fifo!Accept
    <2>2. ASSUME TakeCycle \/ ClassifyRemainder PROVE [Fifo!Next]_(Fifo!vars)
      <3>1. /\ TypeOK'
            /\ \A k \in WorkKind :
                 /\ left'[k] \o queues'[k] = left[k] \o queues[k]
                 /\ IF queues[k] = <<>> THEN Len(left'[k]) = Len(left[k])
                    ELSE Len(left'[k]) \in Len(left[k]) + 1 .. Len(left[k]) + Len(queues[k])
        BY <2>0, <2>2, CycleKeeps
      <3>2. log' = log
        BY <3>1 DEF Accepted
      <3>3. ASSUME NEW k \in WorkKind
            PROVE  /\ Len(log[k]) = Len(left[k]) + Len(queues[k])
                   /\ (done[k] < Len(log[k])) <=> (queues[k] # <<>>)
        <4>1. left[k] \in Seq(Values) /\ queues[k] \in Seq(Values)
          BY <2>0 DEF TypeOK
        <4>2. Len(left[k] \o queues[k]) = Len(left[k]) + Len(queues[k])
          BY <4>1, ConcatProperties
        <4>3. (Len(queues[k]) > 0) <=> (queues[k] # <<>>)
          BY <4>1
        <4>4. Len(left[k]) \in Nat /\ Len(queues[k]) \in Nat
          BY <4>1
        <4>5. log[k] = left[k] \o queues[k] /\ done[k] = Len(left[k])
          BY DEF Accepted
        <4> HIDE DEF log, done
        <4>6. Len(log[k]) = Len(left[k]) + Len(queues[k])
          BY <4>2, <4>5, Zenon
        <4>7. (Len(left[k]) < Len(left[k]) + Len(queues[k])) <=> (Len(queues[k]) > 0)
          <5> SUFFICES ASSUME NEW l \in Nat, NEW q \in Nat PROVE (l < l + q) <=> (q > 0)
            BY <4>4
          <5> QED OBVIOUS
        <4> QED BY <4>3, <4>5, <4>6, <4>7, Zenon
      <3>4. CASE \A k \in WorkKind : queues[k] = <<>>
        <4>1. done' = done
          BY <3>1, <3>4
        <4> QED BY <3>2, <4>1 DEF Fifo!vars
      <3>5. CASE \E k \in WorkKind : queues[k] # <<>>
        <4>1. \A k \in WorkKind :
                IF done[k] < Len(log[k]) THEN done'[k] \in done[k] + 1 .. Len(log[k])
                ELSE done'[k] = done[k]
          BY <3>1, <3>3
        <4>2. \E k \in WorkKind : done[k] < Len(log[k])
          BY <3>3, <3>5
        <4>3. DOMAIN done' = WorkKind
          OBVIOUS
        <4>4. Fifo!Serve
          BY <3>2, <4>1, <4>2, <4>3 DEF Fifo!Serve, Fifo!SomethingWaits, Fifo!Waiting
        <4> QED BY <4>4 DEF Fifo!Next
      <3> QED BY <3>4, <3>5
    <2>3. ASSUME StopAdmission \/ UNCHANGED vars PROVE UNCHANGED Fifo!vars
      BY <2>3 DEF StopAdmission, vars, Fifo!vars, Accepted
    <2> QED
      BY <2>1, <2>2, <2>3 DEF Next, RefuseEnqueue, Fifo!Next
  <1> QED
    BY <1>1, <1>2, InitSchedulerInv, NextKeepsSchedulerInv, PTL DEF Spec
=============================================================================
