------------------------------ MODULE FairFifo ------------------------------
(***************************************************************************)
(* What a scheduler of several kinds of work promises: the work of one     *)
(* kind leaves in the order it was accepted, each item once, and whenever  *)
(* work leaves, every kind that waits gets its turn.                       *)
(***************************************************************************)
EXTENDS Naturals, Sequences

CONSTANTS Kinds, Values

VARIABLES log,    \* for each kind, everything accepted so far
          done    \* for each kind, how much of log has left

vars == <<log, done>>

Waiting(k) == done[k] < Len(log[k])

Init ==
  /\ log = [k \in Kinds |-> <<>>]
  /\ done = [k \in Kinds |-> 0]

Accept(k, value) ==
  /\ log' = [log EXCEPT ![k] = Append(@, value)]
  /\ UNCHANGED done

SomethingWaits == \E k \in Kinds : Waiting(k)

\* Some work leaves: at least the oldest item of every kind that waits.
Serve ==
  /\ SomethingWaits
  /\ DOMAIN done' = Kinds
  /\ \A k \in Kinds :
       IF Waiting(k) THEN done'[k] \in done[k] + 1 .. Len(log[k]) ELSE done'[k] = done[k]
  /\ UNCHANGED log

Next == (\E k \in Kinds, value \in Values : Accept(k, value)) \/ Serve

\* Weak fairness of Serve, which is enabled exactly while something waits.
Fairness == []<>(~ SomethingWaits) \/ []<><<Serve>>_vars

Spec == Init /\ [][Next]_vars /\ Fairness
=============================================================================
