----------------------------- MODULE TokenBucket -----------------------------
(***************************************************************************)
(* The life of one token bucket of the pipeline: the entry of one QER id   *)
(* in runtime_.qers, as process (src/application/packet_pipeline.cpp, the  *)
(* QER branch and the commit) and install use it through evaluateQer.      *)
(* Packets come with any arrival time, also an earlier one: the caller     *)
(* sets it.  spent counts what the bucket has let pass.                    *)
(***************************************************************************)
EXTENDS Engine

CONSTANTS Qers,       \* the QERs of this id that rulesets may configure
          Sizes,      \* payload sizes of packets
          Times,      \* arrival times of packets
          MaxBurst,   \* no QER of Qers has a larger burst ...
          MaxRate     \* ... or a larger rate

ASSUME QersAssumption ==
  /\ MaxBurst \in UInt64 /\ MaxRate \in UInt64
  /\ \A q \in Qers : /\ q.burstBytes \in UInt64 /\ q.burstBytes <= MaxBurst
                     /\ q.rateBitsPerSecond \in UInt64 /\ q.rateBitsPerSecond <= MaxRate
ASSUME ArrivalsAssumption == Sizes \subseteq UInt64 /\ Times \subseteq UInt64

VARIABLES
  qer,      \* the QER of the active ruleset
  bucket,   \* runtime_.qers of its id
  spent,    \* history: payload bytes committed in this generation
  last      \* history: time and outcome of the last packet since install

vars == <<qer, bucket, spent, last>>

NoPacket == [time |-> 0, outcome |-> "NOT_APPLICABLE"]

Init ==
  /\ qer \in Qers
  /\ bucket = FreshBucket(qer)
  /\ spent = 0
  /\ last = NoPacket

\* Mutant: the bucket is built anew and empty instead of copied.
InstallEmptied(q) ==
  /\ qer' = q
  /\ IF q.generation = qer.generation
     THEN /\ bucket' = [tokensBytes |-> 0, lastRefillMicros |-> 0, remainderBitMicros |-> 0]
          /\ UNCHANGED spent
     ELSE bucket' = FreshBucket(q) /\ spent' = 0

\* install: a new generation gets a fresh bucket; new parameters under the
\* same generation take over the bucket as it is.
Install(q) ==
  /\ qer' = q
  /\ IF q.generation = qer.generation
     THEN UNCHANGED <<bucket, spent>>
     ELSE bucket' = FreshBucket(q) /\ spent' = 0

Arrive(bytes, now) ==
  /\ last' = [time |-> now, outcome |-> QerOutcome(qer, bucket, bytes, now)]
  /\ UNCHANGED qer

\* The packet is allowed and committed.
Admit(bytes, now) ==
  /\ QerOutcome(qer, bucket, bytes, now) = "ALLOW"
  /\ Arrive(bytes, now)
  /\ bucket' = QerNext(qer, bucket, bytes, now)
  /\ spent' = spent + bytes

\* The packet is allowed, and then refused by URR arithmetic or for space:
\* neither the charge nor the refill is stored.
Abandon(bytes, now) ==
  /\ QerOutcome(qer, bucket, bytes, now) = "ALLOW"
  /\ Arrive(bytes, now)
  /\ UNCHANGED <<bucket, spent>>

\* The packet is rate limited: the refill is stored.
Limit(bytes, now) ==
  /\ QerOutcome(qer, bucket, bytes, now) = "RATE_LIMITED"
  /\ Arrive(bytes, now)
  /\ bucket' = QerNext(qer, bucket, bytes, now)
  /\ UNCHANGED spent

\* Mutant: a failed refill moves the time of the bucket on.
RefuseAdvancing(bytes, now) ==
  /\ QerOutcome(qer, bucket, bytes, now) \in {"GATE_CLOSED", "ARITHMETIC_ERROR"}
  /\ Arrive(bytes, now)
  /\ bucket' = [bucket EXCEPT !.lastRefillMicros = IF now > @ THEN now ELSE @]
  /\ UNCHANGED spent

\* The gate is closed or the arithmetic fails: nothing is stored.
Refuse(bytes, now) ==
  /\ QerOutcome(qer, bucket, bytes, now) \in {"GATE_CLOSED", "ARITHMETIC_ERROR"}
  /\ Arrive(bytes, now)
  /\ UNCHANGED <<bucket, spent>>

Next ==
  \/ last' = NoPacket /\ \E q \in Qers : Install(q)
  \/ \E bytes \in Sizes, now \in Times :
       Admit(bytes, now) \/ Abandon(bytes, now) \/ Limit(bytes, now) \/ Refuse(bytes, now)

Spec == Init /\ [][Next]_vars

-----------------------------------------------------------------------------
\* The bucket stays within 64 bits and its remainder below one byte, although
\* evaluateQer adds the earned tokens without an overflow check (qer.cpp,
\* next.tokensBytes = current.tokensBytes + added).
TypeOK ==
  /\ qer \in Qers
  /\ bucket \in TokenBucketState
  /\ spent \in Nat

\* No more passes than the contract allows: whatever the sizes, times and
\* refusals, and whatever parameters were exchanged under one generation, the
\* bytes passed and the tokens left never exceed the largest burst plus what
\* the largest rate earns until the last refill.  A refill that is counted
\* twice, a lost remainder paid back or a charge not stored would break it.
Conformance ==
  BitMicrosPerByte * (spent + bucket.tokensBytes) + bucket.remainderBitMicros
    <= BitMicrosPerByte * MaxBurst + MaxRate * bucket.lastRefillMicros

\* Tokens never exceed the largest burst configured, capped refills included.
WithinBurst == bucket.tokensBytes <= MaxBurst

\* The time of the bucket is the time of a packet that arrived, and it moves
\* forward only: a packet that arrives out of order never rewinds the refill
\* and so never earns the same interval twice.
RefillMovesForward ==
  [][qer'.generation = qer.generation => bucket'.lastRefillMicros >= bucket.lastRefillMicros]_vars

\* After an idle time so long that the refill does not fit 64 bits, the
\* bucket is stuck: the failure leaves lastRefillMicros where it was, so each
\* later packet of an open gate fails too, until a packet arrives with an
\* earlier time or the rule is installed anew.
OverflowIsPermanent ==
  [][(/\ qer' = qer /\ qer.gate = "OPEN"
      /\ last.outcome = "ARITHMETIC_ERROR" /\ last.time >= bucket.lastRefillMicros
      /\ last' # last /\ last'.time >= last.time)
        => last'.outcome = "ARITHMETIC_ERROR" /\ UNCHANGED bucket]_vars
=============================================================================
