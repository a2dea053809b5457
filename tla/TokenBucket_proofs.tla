------------------------- MODULE TokenBucket_proofs -------------------------
(***************************************************************************)
(* Proofs about TokenBucket, for every set of QERs, sizes and times and    *)
(* every width of integers.                                                *)
(***************************************************************************)
EXTENDS TokenBucket, TLAPS

\* Division with remainder, as the refill uses it.
LEMMA DivisionRemainder ==
  ASSUME NEW n \in Nat, NEW d \in Nat \ {0}
  PROVE  /\ n \div d \in Nat
         /\ n % d \in 0 .. d - 1
         /\ n = d * (n \div d) + (n % d)
  OBVIOUS

\* A product grows with its factor.
LEMMA ProductMonotone ==
  ASSUME NEW a \in Nat, NEW b \in Nat, NEW c \in Nat, b <= c
  PROVE  a * b \in Nat /\ a * b <= a * c
  OBVIOUS

\* What one refill does: it keeps the bucket in its type, moves its time to
\* now, never lifts the tokens above the burst (or what they were), and earns
\* at most what the largest rate pays for the elapsed time.
LEMMA RefillBounds ==
  ASSUME NEW q \in Qers, NEW b \in TokenBucketState, NEW now \in UInt64,
         ~ RefillFails(q, b, now)
  PROVE  /\ Refilled(q, b, now) \in TokenBucketState
         /\ Refilled(q, b, now).lastRefillMicros = now
         /\ b.lastRefillMicros <= now
         /\ b.tokensBytes <= Refilled(q, b, now).tokensBytes
         /\ b.tokensBytes <= MaxBurst => Refilled(q, b, now).tokensBytes <= MaxBurst
         /\ BitMicrosPerByte * Refilled(q, b, now).tokensBytes
              + Refilled(q, b, now).remainderBitMicros
            <= BitMicrosPerByte * b.tokensBytes + b.remainderBitMicros
               + MaxRate * (now - b.lastRefillMicros)
PROOF
  <1> DEFINE B == BitMicrosPerByte
  <1>1. /\ B \in Nat \ {0} /\ UInt64Max \in Nat
        /\ MaxBurst \in 0 .. UInt64Max /\ MaxRate \in 0 .. UInt64Max
        /\ q.burstBytes \in 0 .. UInt64Max /\ q.burstBytes <= MaxBurst
        /\ q.rateBitsPerSecond \in 0 .. UInt64Max /\ q.rateBitsPerSecond <= MaxRate
    BY BitMicrosPerByteAssumption, UInt64MaxAssumption, QersAssumption DEF UInt64
  <1>2. /\ b.tokensBytes \in 0 .. UInt64Max /\ b.lastRefillMicros \in 0 .. UInt64Max
        /\ b.remainderBitMicros \in 0 .. B - 1 /\ now \in 0 .. UInt64Max
    BY DEF TokenBucketState, UInt64
  <1>3. b.lastRefillMicros <= now
    BY <1>1, <1>2 DEF RefillFails
  <1>4. Elapsed(b, now) \in Nat /\ Elapsed(b, now) = now - b.lastRefillMicros
    BY <1>1, <1>2, <1>3 DEF Elapsed
  <1>5. /\ Elapsed(b, now) * q.rateBitsPerSecond \in Nat
        /\ Elapsed(b, now) * q.rateBitsPerSecond <= Elapsed(b, now) * MaxRate
    BY <1>1, <1>4, ProductMonotone
  <1> DEFINE n == Numerator(q, b, now)
  <1>6. n \in Nat /\ n = Elapsed(b, now) * q.rateBitsPerSecond + b.remainderBitMicros
    BY <1>1, <1>2, <1>5 DEF Numerator
  <1>7. /\ RefillBytes(q, b, now) \in Nat
        /\ n % B \in 0 .. B - 1
        /\ n = B * RefillBytes(q, b, now) + (n % B)
    BY <1>1, <1>6, DivisionRemainder DEF RefillBytes
  <1> HIDE DEF n
  <1>8. /\ Room(q, b) \in Nat
        /\ Room(q, b) # 0 => Room(q, b) = q.burstBytes - b.tokensBytes
    BY <1>1, <1>2 DEF Room
  <1>9. /\ AddedTokens(q, b, now) \in Nat
        /\ AddedTokens(q, b, now) <= RefillBytes(q, b, now)
        /\ AddedTokens(q, b, now) <= Room(q, b)
    BY <1>7, <1>8 DEF AddedTokens
  <1>10. /\ B * AddedTokens(q, b, now) \in Nat
         /\ B * AddedTokens(q, b, now) <= B * RefillBytes(q, b, now)
    BY <1>1, <1>7, <1>9, ProductMonotone
  <1>11. /\ Refilled(q, b, now).tokensBytes = b.tokensBytes + AddedTokens(q, b, now)
         /\ Refilled(q, b, now).lastRefillMicros = now
         /\ Refilled(q, b, now).remainderBitMicros = n % B
    BY DEF Refilled, n
  <1>12. b.tokensBytes + AddedTokens(q, b, now) \in 0 .. UInt64Max
    BY <1>1, <1>2, <1>8, <1>9
  <1>13. Refilled(q, b, now) \in TokenBucketState
    BY <1>2, <1>7, <1>11, <1>12 DEF Refilled, TokenBucketState, UInt64, n
  <1>14. b.tokensBytes <= MaxBurst => Refilled(q, b, now).tokensBytes <= MaxBurst
    BY <1>1, <1>2, <1>8, <1>9, <1>11
  <1>15. B * Refilled(q, b, now).tokensBytes = B * b.tokensBytes + B * AddedTokens(q, b, now)
    BY <1>1, <1>2, <1>9, <1>11
  <1>16. Elapsed(b, now) * MaxRate = MaxRate * (now - b.lastRefillMicros)
    BY <1>1, <1>2, <1>4
  <1>17. /\ B * b.tokensBytes \in Nat /\ MaxRate * (now - b.lastRefillMicros) \in Nat
         /\ B * RefillBytes(q, b, now) \in Nat
    BY <1>1, <1>2, <1>4, <1>7
  <1>18. B * Refilled(q, b, now).tokensBytes + Refilled(q, b, now).remainderBitMicros
           <= B * b.tokensBytes + b.remainderBitMicros + MaxRate * (now - b.lastRefillMicros)
    <2> DEFINE added  == B * AddedTokens(q, b, now)
               earned == B * RefillBytes(q, b, now)
               base   == B * b.tokensBytes
               paid   == Elapsed(b, now) * q.rateBitsPerSecond
               most   == MaxRate * (now - b.lastRefillMicros)
               rest   == n % B
    <2>1. /\ added \in Nat /\ earned \in Nat /\ base \in Nat /\ paid \in Nat /\ most \in Nat
          /\ rest \in Nat /\ b.remainderBitMicros \in Nat
          /\ added <= earned /\ paid <= most
          /\ earned + rest = paid + b.remainderBitMicros
      BY <1>1, <1>2, <1>5, <1>6, <1>7, <1>10, <1>16, <1>17
    <2>2. /\ B * Refilled(q, b, now).tokensBytes = base + added
          /\ Refilled(q, b, now).remainderBitMicros = rest
      BY <1>11, <1>15
    <2> HIDE DEF added, earned, base, paid, most, rest
    <2>3. base + added + rest <= base + b.remainderBitMicros + most
      BY <2>1
    <2> QED BY <2>2, <2>3 DEF base, most
  <1> QED
    BY <1>2, <1>3, <1>9, <1>11, <1>13, <1>14, <1>18

-----------------------------------------------------------------------------
\* The inductive invariant: conformance is inductive only together with the
\* types, which bound the remainder, and WithinBurst needs them too.
IInv == TypeOK /\ WithinBurst /\ Conformance

\* A fresh bucket conforms.
LEMMA FreshConforms ==
  ASSUME NEW q \in Qers
  PROVE  /\ FreshBucket(q) \in TokenBucketState
         /\ FreshBucket(q).tokensBytes <= MaxBurst
         /\ BitMicrosPerByte * (0 + FreshBucket(q).tokensBytes) + FreshBucket(q).remainderBitMicros
              <= BitMicrosPerByte * MaxBurst + MaxRate * FreshBucket(q).lastRefillMicros
PROOF
  <1>1. /\ BitMicrosPerByte \in Nat \ {0} /\ UInt64Max \in Nat
        /\ MaxBurst \in 0 .. UInt64Max /\ MaxRate \in 0 .. UInt64Max
        /\ q.burstBytes \in 0 .. UInt64Max /\ q.burstBytes <= MaxBurst
    BY BitMicrosPerByteAssumption, UInt64MaxAssumption, QersAssumption DEF UInt64
  <1>2. /\ FreshBucket(q).tokensBytes = q.burstBytes
        /\ FreshBucket(q).remainderBitMicros = 0 /\ FreshBucket(q).lastRefillMicros = 0
    BY DEF FreshBucket
  <1>3. FreshBucket(q) \in TokenBucketState
    BY <1>1 DEF FreshBucket, TokenBucketState, UInt64
  <1>4. BitMicrosPerByte * q.burstBytes <= BitMicrosPerByte * MaxBurst
    BY <1>1, ProductMonotone
  <1>5. 0 + q.burstBytes = q.burstBytes /\ MaxRate * 0 = 0
    BY <1>1
  <1>6. BitMicrosPerByte * q.burstBytes \in Nat /\ BitMicrosPerByte * MaxBurst \in Nat
    BY <1>1
  <1> QED
    BY <1>1, <1>2, <1>3, <1>4, <1>5, <1>6

\* A bucket that was refilled, and then charged with bytes it holds, conforms
\* when it conformed before.
LEMMA ChargeConforms ==
  ASSUME IInv, NEW now \in UInt64, NEW bytes \in Nat,
         ~ RefillFails(qer, bucket, now),
         bytes <= Refilled(qer, bucket, now).tokensBytes
  PROVE  LET next == [Refilled(qer, bucket, now) EXCEPT !.tokensBytes = @ - bytes]
         IN  /\ next \in TokenBucketState
             /\ next.tokensBytes <= MaxBurst
             /\ BitMicrosPerByte * (spent + bytes + next.tokensBytes) + next.remainderBitMicros
                  <= BitMicrosPerByte * MaxBurst + MaxRate * next.lastRefillMicros
PROOF
  <1> DEFINE r == Refilled(qer, bucket, now)
             next == [r EXCEPT !.tokensBytes = @ - bytes]
             B == BitMicrosPerByte
  <1>1. qer \in Qers /\ bucket \in TokenBucketState /\ spent \in Nat
    BY DEF IInv, TypeOK
  <1>2. /\ r \in TokenBucketState /\ r.lastRefillMicros = now
        /\ bucket.lastRefillMicros <= now
        /\ r.tokensBytes <= MaxBurst
        /\ B * r.tokensBytes + r.remainderBitMicros
             <= B * bucket.tokensBytes + bucket.remainderBitMicros
                + MaxRate * (now - bucket.lastRefillMicros)
    BY <1>1, RefillBounds DEF IInv, WithinBurst
  <1> HIDE DEF r
  <1>3. /\ B \in Nat /\ MaxRate \in Nat /\ MaxBurst \in Nat /\ UInt64Max \in Nat
        /\ now \in Nat /\ bucket.lastRefillMicros \in Nat
        /\ bucket.tokensBytes \in Nat /\ bucket.remainderBitMicros \in Nat
        /\ r.tokensBytes \in 0 .. UInt64Max /\ r.remainderBitMicros \in Nat
    BY <1>1, <1>2, BitMicrosPerByteAssumption, UInt64MaxAssumption, QersAssumption
    DEF TokenBucketState, UInt64
  <1>4. /\ next.tokensBytes = r.tokensBytes - bytes
        /\ next.remainderBitMicros = r.remainderBitMicros
        /\ next.lastRefillMicros = now
    BY <1>2 DEF TokenBucketState
  <1>5. r.tokensBytes - bytes \in 0 .. UInt64Max
    BY <1>3 DEF r
  <1>6. next \in TokenBucketState
    BY <1>2, <1>5 DEF TokenBucketState, UInt64
  <1>7. next.tokensBytes <= MaxBurst
    BY <1>2, <1>3, <1>4
  <1>8. spent + bytes + next.tokensBytes = spent + r.tokensBytes
    BY <1>1, <1>3, <1>4
  <1>9. /\ B * (spent + r.tokensBytes) = B * spent + B * r.tokensBytes
        /\ B * (spent + bucket.tokensBytes) = B * spent + B * bucket.tokensBytes
        /\ B * spent \in Nat /\ B * r.tokensBytes \in Nat /\ B * bucket.tokensBytes \in Nat
        /\ B * MaxBurst \in Nat
    BY <1>1, <1>3
  <1>10. /\ MaxRate * now = MaxRate * bucket.lastRefillMicros
                              + MaxRate * (now - bucket.lastRefillMicros)
         /\ MaxRate * bucket.lastRefillMicros \in Nat
         /\ MaxRate * (now - bucket.lastRefillMicros) \in Nat
    BY <1>2, <1>3
  <1>11. B * spent + B * bucket.tokensBytes + bucket.remainderBitMicros
           <= B * MaxBurst + MaxRate * bucket.lastRefillMicros
    BY <1>9 DEF IInv, Conformance
  <1>12. B * spent + B * r.tokensBytes + r.remainderBitMicros
           <= B * MaxBurst + MaxRate * now
    BY <1>2, <1>3, <1>9, <1>10, <1>11
  <1>13. B * (spent + bytes + next.tokensBytes) + next.remainderBitMicros
           <= B * MaxBurst + MaxRate * next.lastRefillMicros
    BY <1>4, <1>8, <1>9, <1>12
  <1> QED
    BY <1>6, <1>7, <1>13 DEF r

\* Every step keeps the inductive invariant.
LEMMA NextKeepsIInv ==
  IInv /\ [Next]_vars => IInv'
PROOF
  <1> SUFFICES ASSUME IInv, [Next]_vars PROVE IInv'
    OBVIOUS
  <1>1. ASSUME NEW q \in Qers, Install(q) PROVE IInv'
    <2>1. CASE q.generation = qer.generation
      BY <1>1, <2>1 DEF Install, IInv, TypeOK, WithinBurst, Conformance
    <2>2. CASE q.generation # qer.generation
      <3>1. qer' = q /\ bucket' = FreshBucket(q) /\ spent' = 0
        BY <1>1, <2>2 DEF Install
      <3> QED BY <3>1, FreshConforms DEF IInv, TypeOK, WithinBurst, Conformance
    <2> QED BY <2>1, <2>2
  <1>2. ASSUME NEW bytes \in Sizes, NEW now \in Times, Admit(bytes, now) PROVE IInv'
    <2>1. bytes \in Nat /\ now \in UInt64
      BY ArrivalsAssumption, UInt64MaxAssumption DEF UInt64
    <2>2. QerOutcome(qer, bucket, bytes, now) = "ALLOW"
      BY <1>2 DEF Admit
    <2>3. /\ ~ RefillFails(qer, bucket, now)
          /\ ~ (bytes > Refilled(qer, bucket, now).tokensBytes)
      BY <2>2 DEF QerOutcome
    <2>4. bytes <= Refilled(qer, bucket, now).tokensBytes
      <3>1. Refilled(qer, bucket, now) \in TokenBucketState
        BY <2>1, <2>3, RefillBounds DEF IInv, TypeOK
      <3>2. Refilled(qer, bucket, now).tokensBytes \in Nat
        BY <3>1, UInt64MaxAssumption DEF TokenBucketState, UInt64
      <3> QED BY <2>1, <2>3, <3>2
    <2>5. bucket' = [Refilled(qer, bucket, now) EXCEPT !.tokensBytes = @ - bytes]
      BY <1>2, <2>2 DEF Admit, QerNext
    <2>6. spent' = spent + bytes /\ qer' = qer
      BY <1>2 DEF Admit, Arrive
    <2>7. spent' \in Nat /\ qer' \in Qers
      BY <2>1, <2>6 DEF IInv, TypeOK
    <2> QED
      BY <2>1, <2>3, <2>4, <2>5, <2>6, <2>7, ChargeConforms
      DEF IInv, TypeOK, WithinBurst, Conformance
  <1>3. ASSUME NEW bytes \in Sizes, NEW now \in Times, Limit(bytes, now) PROVE IInv'
    <2>1. now \in UInt64
      BY ArrivalsAssumption
    <2>2. QerOutcome(qer, bucket, bytes, now) = "RATE_LIMITED"
      BY <1>3 DEF Limit
    <2>3. ~ RefillFails(qer, bucket, now)
      BY <2>2 DEF QerOutcome
    <2>4. bucket' = Refilled(qer, bucket, now) /\ spent' = spent /\ qer' = qer
      BY <1>3, <2>2 DEF Limit, Arrive, QerNext
    <2>5. Refilled(qer, bucket, now) \in TokenBucketState
      BY <2>1, <2>3, RefillBounds DEF IInv, TypeOK
    <2>6. /\ Refilled(qer, bucket, now).tokensBytes \in Nat /\ spent \in Nat
          /\ 0 <= Refilled(qer, bucket, now).tokensBytes
      BY <2>5, UInt64MaxAssumption DEF TokenBucketState, UInt64, IInv, TypeOK
    <2> DEFINE r == Refilled(qer, bucket, now)
               next == [r EXCEPT !.tokensBytes = @ - 0]
    <2>7. /\ next.tokensBytes <= MaxBurst
          /\ BitMicrosPerByte * (spent + 0 + next.tokensBytes) + next.remainderBitMicros
               <= BitMicrosPerByte * MaxBurst + MaxRate * next.lastRefillMicros
      BY <2>1, <2>3, <2>6, ChargeConforms
    <2>8. /\ next.tokensBytes = r.tokensBytes
          /\ next.remainderBitMicros = r.remainderBitMicros
          /\ next.lastRefillMicros = r.lastRefillMicros
          /\ spent + 0 = spent
      BY <2>5, <2>6 DEF TokenBucketState
    <2> HIDE DEF next
    <2>9. /\ r.tokensBytes <= MaxBurst
          /\ BitMicrosPerByte * (spent + r.tokensBytes) + r.remainderBitMicros
               <= BitMicrosPerByte * MaxBurst + MaxRate * r.lastRefillMicros
      BY <2>7, <2>8
    <2> QED
      BY <2>4, <2>5, <2>9 DEF IInv, TypeOK, WithinBurst, Conformance
  <1>4. ASSUME NEW bytes \in Sizes, NEW now \in Times,
               Abandon(bytes, now) \/ Refuse(bytes, now)
        PROVE  IInv'
    BY <1>4 DEF Abandon, Refuse, Arrive, IInv, TypeOK, WithinBurst, Conformance
  <1>5. ASSUME UNCHANGED vars PROVE IInv'
    BY <1>5 DEF vars, IInv, TypeOK, WithinBurst, Conformance
  <1> QED
    BY <1>1, <1>2, <1>3, <1>4, <1>5 DEF Next

\* The first bucket is fresh.
LEMMA InitIInv == Init => IInv
PROOF
  <1> SUFFICES ASSUME Init PROVE IInv
    OBVIOUS
  <1>1. qer \in Qers /\ bucket = FreshBucket(qer) /\ spent = 0
    BY DEF Init
  <1> QED BY <1>1, FreshConforms DEF IInv, TypeOK, WithinBurst, Conformance

\* The bucket stays in its type, within the largest burst, and conformant,
\* for all parameters, packets and histories of installs: evaluateQer's
\* unchecked addition does not overflow, and no traffic pattern obtains more
\* than burst plus rate times time.
THEOREM BucketConforms ==
  Spec => []TypeOK /\ []WithinBurst /\ []Conformance
PROOF
  <1>1. IInv => TypeOK /\ WithinBurst /\ Conformance
    BY DEF IInv
  <1> QED
    BY <1>1, InitIInv, NextKeepsIInv, PTL DEF Spec

-----------------------------------------------------------------------------
\* A refill stores the time of the packet, and only when it is not earlier.
LEMMA StoredTime ==
  ASSUME TypeOK, NEW bytes, NEW now \in UInt64,
         QerOutcome(qer, bucket, bytes, now) \in {"ALLOW", "RATE_LIMITED"}
  PROVE  /\ ~ RefillFails(qer, bucket, now)
         /\ QerNext(qer, bucket, bytes, now).lastRefillMicros = now
         /\ now >= bucket.lastRefillMicros
PROOF
  <1>1. qer \in Qers /\ bucket \in TokenBucketState
    BY DEF TypeOK
  <1>2. ~ RefillFails(qer, bucket, now)
    BY DEF QerOutcome
  <1>3. /\ Refilled(qer, bucket, now) \in TokenBucketState
        /\ Refilled(qer, bucket, now).lastRefillMicros = now
        /\ bucket.lastRefillMicros <= now
    BY <1>1, <1>2, RefillBounds
  <1>4. QerNext(qer, bucket, bytes, now).lastRefillMicros = now
    <2>1. CASE QerOutcome(qer, bucket, bytes, now) = "RATE_LIMITED"
      BY <1>3, <2>1 DEF QerNext
    <2>2. CASE QerOutcome(qer, bucket, bytes, now) = "ALLOW"
      <3>1. QerNext(qer, bucket, bytes, now)
              = [Refilled(qer, bucket, now) EXCEPT !.tokensBytes = @ - bytes]
        BY <2>2 DEF QerNext
      <3> QED BY <1>3, <3>1 DEF TokenBucketState
    <2> QED BY <2>1, <2>2
  <1>5. now >= bucket.lastRefillMicros
    BY <1>1, <1>3, UInt64MaxAssumption DEF TokenBucketState, UInt64
  <1> QED BY <1>2, <1>4, <1>5

\* Out-of-order arrivals never rewind a bucket: no interval is paid twice.
THEOREM BucketTimeMovesForward == Spec => RefillMovesForward
PROOF
  <1>1. ASSUME TypeOK, [Next]_vars, qer'.generation = qer.generation
        PROVE  bucket'.lastRefillMicros >= bucket.lastRefillMicros
    <2>0. bucket.lastRefillMicros \in Nat
      BY <1>1, UInt64MaxAssumption DEF TypeOK, TokenBucketState, UInt64
    <2>1. ASSUME NEW q \in Qers, Install(q) PROVE bucket' = bucket
      BY <1>1, <2>1 DEF Install
    <2>2. ASSUME NEW bytes \in Sizes, NEW now \in Times, Admit(bytes, now) \/ Limit(bytes, now)
          PROVE  bucket'.lastRefillMicros >= bucket.lastRefillMicros
      <3>1. /\ QerOutcome(qer, bucket, bytes, now) \in {"ALLOW", "RATE_LIMITED"}
            /\ bucket' = QerNext(qer, bucket, bytes, now)
        BY <2>2 DEF Admit, Limit
      <3>2. now \in UInt64
        BY ArrivalsAssumption
      <3> QED BY <1>1, <3>1, <3>2, StoredTime
    <2>3. ASSUME NEW bytes \in Sizes, NEW now \in Times, Abandon(bytes, now) \/ Refuse(bytes, now)
          PROVE  bucket' = bucket
      BY <2>3 DEF Abandon, Refuse
    <2>4. CASE UNCHANGED vars
      BY <2>0, <2>4 DEF vars
    <2> QED BY <1>1, <2>0, <2>1, <2>2, <2>3, <2>4 DEF Next
  <1>2. IInv /\ [Next]_vars =>
          [qer'.generation = qer.generation =>
             bucket'.lastRefillMicros >= bucket.lastRefillMicros]_vars
    BY <1>1 DEF IInv
  <1> QED
    BY <1>2, InitIInv, NextKeepsIInv, PTL DEF Spec, RefillMovesForward

\* What overflows after some elapsed time overflows after a longer one.
LEMMA OverflowGrows ==
  ASSUME NEW a \in Nat, NEW b \in Nat, a <= b, NEW r \in Nat, NEW c \in Nat,
         MultiplyOverflows(a, r) \/ AddOverflows(a * r, c)
  PROVE  MultiplyOverflows(b, r) \/ AddOverflows(b * r, c)
PROOF
  <1> DEFINE M == UInt64Max
  <1>0. M \in Nat
    BY UInt64MaxAssumption
  <1> HIDE DEF M
  <1>1. a * r \in Nat /\ b * r \in Nat /\ a * r <= b * r
    <2>1. r * a <= r * b
      BY ProductMonotone
    <2>2. r * a = a * r /\ r * b = b * r
      OBVIOUS
    <2> QED BY <2>1, <2>2
  <1>2. CASE MultiplyOverflows(a, r)
    <2>1. a # 0 /\ r > M \div a
      BY <1>2 DEF MultiplyOverflows, M
    <2>2. M \div a \in Nat /\ M % a \in 0 .. a - 1 /\ M = a * (M \div a) + (M % a)
      BY <1>0, <2>1, DivisionRemainder
    <2>3. a * (M \div a + 1) <= a * r
      <3>1. M \div a + 1 \in Nat /\ M \div a + 1 <= r
        BY <2>1, <2>2
      <3> QED BY <3>1, ProductMonotone
    <2>4. a * (M \div a + 1) = a * (M \div a) + a /\ a * (M \div a) \in Nat
      BY <2>2
    <2>5. a * r > M
      <3> DEFINE q == a * (M \div a)
                 p == a * r
                 m == M % a
      <3>1. q \in Nat /\ p \in Nat /\ m \in Nat /\ m < a /\ M = q + m /\ q + a <= p
        BY <1>1, <2>2, <2>3, <2>4
      <3> HIDE DEF p, q, m
      <3>2. p > M
        BY <1>0, <3>1
      <3> QED BY <3>2 DEF p
    <2>6. SUFFICES ASSUME ~ MultiplyOverflows(b, r) PROVE FALSE
      OBVIOUS
    <2>7. b # 0 /\ ~ (r > M \div b)
      BY <2>1, <2>6 DEF MultiplyOverflows, M
    <2>8. M \div b \in Nat /\ M % b \in Nat /\ M = b * (M \div b) + (M % b)
      BY <1>0, <2>7, DivisionRemainder
    <2>9. b * r <= b * (M \div b) /\ b * (M \div b) \in Nat
      <3>1. r <= M \div b
        BY <2>7, <2>8
      <3>2. M \div b \in Nat /\ b * (M \div b) \in Nat
        BY <2>8
      <3> QED BY <3>1, <3>2, ProductMonotone
    <2> DEFINE p == a * r
               s == b * r
               t == b * (M \div b)
               m == M % b
    <2>10. p \in Nat /\ s \in Nat /\ t \in Nat /\ m \in Nat /\ p > M /\ p <= s /\ s <= t /\ M = t + m
      BY <1>1, <2>5, <2>8, <2>9
    <2> HIDE DEF p, s, t, m
    <2> QED BY <1>0, <2>10
  <1>3. CASE AddOverflows(a * r, c)
    <2>1. c > M - a * r
      BY <1>3 DEF AddOverflows, M
    <2> DEFINE p == a * r
               s == b * r
    <2>2. p \in Nat /\ s \in Nat /\ p <= s /\ c > M - p
      BY <1>1, <2>1
    <2> HIDE DEF p, s
    <2>3. c > M - s
      BY <1>0, <2>2
    <2> QED BY <2>3 DEF AddOverflows, M, s
  <1> QED BY <1>2, <1>3

\* A failed packet names a time at which the bucket, unchanged since, fails.
LastFailed ==
  last.outcome = "ARITHMETIC_ERROR" =>
    last.time \in UInt64 /\ RefillFails(qer, bucket, last.time)

\* Every step keeps it: an install forgets the last packet, and a packet with
\* that outcome stores nothing.
LEMMA NextKeepsLastFailed ==
  LastFailed /\ [Next]_vars => LastFailed'
PROOF
  <1> SUFFICES ASSUME LastFailed, [Next]_vars, last'.outcome = "ARITHMETIC_ERROR"
               PROVE  last'.time \in UInt64 /\ RefillFails(qer', bucket', last'.time)
    BY DEF LastFailed, RefillFails, Elapsed
  <1>1. ASSUME last' = NoPacket PROVE FALSE
    BY <1>1 DEF NoPacket
  <1>2. ASSUME NEW bytes \in Sizes, NEW now \in Times,
               \/ Admit(bytes, now) \/ Abandon(bytes, now)
               \/ Limit(bytes, now) \/ Refuse(bytes, now)
        PROVE  last'.time \in UInt64 /\ RefillFails(qer', bucket', last'.time)
    <2>1. last'.time = now /\ last'.outcome = QerOutcome(qer, bucket, bytes, now) /\ qer' = qer
      BY <1>2 DEF Admit, Abandon, Limit, Refuse, Arrive
    <2>2. RefillFails(qer, bucket, now)
      BY <2>1 DEF QerOutcome
    <2>3. bucket' = bucket
      BY <1>2, <2>1 DEF Admit, Abandon, Limit, Refuse
    <2> QED BY <2>1, <2>2, <2>3, ArrivalsAssumption
  <1>3. CASE UNCHANGED vars
    BY <1>3 DEF vars, LastFailed
  <1> QED BY <1>1, <1>2, <1>3 DEF Next

\* A refill that failed at some time, other than for an early packet, fails at
\* every later time, and the time it failed at is not zero.
LEMMA FailureLasts ==
  ASSUME TypeOK, NEW t \in UInt64, NEW now \in UInt64, t <= now,
         bucket.lastRefillMicros <= t, RefillFails(qer, bucket, t)
  PROVE  RefillFails(qer, bucket, now) /\ t # 0
PROOF
  <1> DEFINE a == Elapsed(bucket, t)
             b == Elapsed(bucket, now)
             r == qer.rateBitsPerSecond
             c == bucket.remainderBitMicros
  <1>1. /\ UInt64Max \in Nat /\ t \in Nat /\ now \in Nat /\ bucket.lastRefillMicros \in Nat
        /\ r \in Nat /\ c \in 0 .. BitMicrosPerByte - 1 /\ BitMicrosPerByte \in Nat
        /\ BitMicrosPerByte <= UInt64Max
    BY UInt64MaxAssumption, BitMicrosPerByteAssumption, QersAssumption
    DEF TypeOK, TokenBucketState, UInt64
  <1>2. /\ a \in Nat /\ a = t - bucket.lastRefillMicros
        /\ b \in Nat /\ a <= b /\ c \in Nat /\ c <= UInt64Max
    BY <1>1 DEF Elapsed
  <1>3. ~ (t < bucket.lastRefillMicros)
    BY <1>1
  <1>4. MultiplyOverflows(a, r) \/ AddOverflows(a * r, c)
    BY <1>3 DEF RefillFails
  <1> HIDE DEF a, b, r, c
  <1>5. MultiplyOverflows(b, r) \/ AddOverflows(b * r, c)
    BY <1>1, <1>2, <1>4, OverflowGrows
  <1>6. RefillFails(qer, bucket, now)
    BY <1>5 DEF RefillFails, b, r, c
  <1>7. t # 0
    <2> SUFFICES ASSUME t = 0 PROVE FALSE
      OBVIOUS
    <2>1. a = 0
      BY <1>1, <1>2
    <2>2. ~ MultiplyOverflows(a, r)
      BY <2>1 DEF MultiplyOverflows
    <2>3. a * r = 0
      BY <1>1, <2>1
    <2>4. ~ AddOverflows(a * r, c)
      BY <1>1, <1>2, <2>3 DEF AddOverflows
    <2> QED BY <1>4, <2>2, <2>4
  <1> QED BY <1>6, <1>7

\* A bucket whose refill overflows is stuck: evaluateQer keeps its refill
\* time, so every later packet of the same rule overflows as well.
THEOREM StuckBucketStaysStuck == Spec => OverflowIsPermanent
PROOF
  <1>1. ASSUME TypeOK, LastFailed, Next, qer' = qer, qer.gate = "OPEN",
               last.outcome = "ARITHMETIC_ERROR", last.time >= bucket.lastRefillMicros,
               last'.time >= last.time
        PROVE  last'.outcome = "ARITHMETIC_ERROR" /\ UNCHANGED bucket
    <2>1. /\ last.time \in UInt64 /\ RefillFails(qer, bucket, last.time)
          /\ bucket.lastRefillMicros \in UInt64 /\ \A t \in UInt64 : t \in Nat
      BY <1>1, UInt64MaxAssumption DEF LastFailed, TypeOK, TokenBucketState, UInt64
    <2>2. bucket.lastRefillMicros <= last.time
      BY <1>1, <2>1
    <2>3. ASSUME last' = NoPacket PROVE FALSE
      <3>1. last.time <= 0
        BY <1>1, <2>1, <2>3 DEF NoPacket
      <3>2. last.time = 0
        BY <2>1, <3>1
      <3>3. last.time <= last.time
        BY <2>1
      <3> QED BY <1>1, <2>1, <2>2, <3>2, <3>3, FailureLasts
    <2>4. ASSUME NEW bytes \in Sizes, NEW now \in Times,
                 \/ Admit(bytes, now) \/ Abandon(bytes, now)
                 \/ Limit(bytes, now) \/ Refuse(bytes, now)
          PROVE  last'.outcome = "ARITHMETIC_ERROR" /\ UNCHANGED bucket
      <3>1. last'.time = now /\ last'.outcome = QerOutcome(qer, bucket, bytes, now)
        BY <2>4 DEF Admit, Abandon, Limit, Refuse, Arrive
      <3>2. now \in UInt64
        BY ArrivalsAssumption
      <3>3. last.time <= now
        BY <1>1, <2>1, <3>1, <3>2
      <3>4. RefillFails(qer, bucket, now)
        BY <1>1, <2>1, <2>2, <3>2, <3>3, FailureLasts
      <3>5. QerOutcome(qer, bucket, bytes, now) = "ARITHMETIC_ERROR"
        BY <1>1, <3>4 DEF QerOutcome
      <3> QED BY <2>4, <3>1, <3>5 DEF Admit, Abandon, Limit, Refuse
    <2> QED BY <1>1, <2>3, <2>4 DEF Next
  <1>2. ASSUME IInv, LastFailed, [Next]_vars, last' # last, qer' = qer, qer.gate = "OPEN",
               last.outcome = "ARITHMETIC_ERROR", last.time >= bucket.lastRefillMicros,
               last'.time >= last.time
        PROVE  last'.outcome = "ARITHMETIC_ERROR" /\ UNCHANGED bucket
    <2>1. Next
      BY <1>2 DEF vars
    <2> QED BY <1>1, <1>2, <2>1 DEF IInv
  <1>3. IInv /\ LastFailed /\ [Next]_vars =>
          [(/\ qer' = qer /\ qer.gate = "OPEN"
            /\ last.outcome = "ARITHMETIC_ERROR" /\ last.time >= bucket.lastRefillMicros
            /\ last' # last /\ last'.time >= last.time)
              => last'.outcome = "ARITHMETIC_ERROR" /\ UNCHANGED bucket]_vars
    BY <1>2
  <1>4. Init => LastFailed
    BY DEF Init, LastFailed, NoPacket
  <1> QED
    BY <1>3, <1>4, InitIInv, NextKeepsIInv, NextKeepsLastFailed, PTL
    DEF Spec, OverflowIsPermanent

\* Every reachable bucket has 64-bit tokens, a remainder below one byte and a
\* 64-bit refill time: no refill of evaluateQer that is stored overflowed.
THEOREM BucketIsTyped == Spec => []TypeOK
PROOF
  BY BucketConforms, PTL

\* No reachable bucket holds more tokens than the largest burst configured,
\* whatever came and went in between: evaluateQer caps before it charges, and
\* installing again with another burst keeps what a bucket holds.
THEOREM BucketWithinBurst == Spec => []WithinBurst
PROOF
  BY BucketConforms, PTL
=============================================================================
