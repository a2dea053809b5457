--------------------------- MODULE Runtime_proofs ---------------------------
(***************************************************************************)
(* Lemmas about the operators the pipeline and the rule service are built  *)
(* from: looking up a rule, evaluating a QER and a URR, and migrating the  *)
(* runtime state to a new ruleset.                                         *)
(***************************************************************************)
EXTENDS Runtime, TLAPS

-----------------------------------------------------------------------------
(* Looking up a rule.                                                      *)

\* The value of an optional that holds one.
LEMMA ValueOfSingleton ==
  ASSUME NEW v
  PROVE  Value({v}) = v
PROOF
  BY DEF Value

\* Validation leaves every list of a ruleset with unique ids.
LEMMA ValidListsAreUnique ==
  ASSUME NEW rs, ValidateRuleSet(rs)
  PROVE  /\ UniqueIds(rs.pdrs) /\ UniqueIds(rs.fars)
         /\ UniqueIds(rs.qers) /\ UniqueIds(rs.urrs)
PROOF
  <1>1. \A k \in 1 .. 4 : UniqueIds(RuleLists(rs)[k])
    BY DEF ValidateRuleSet
  <1>2. /\ RuleLists(rs)[1] = rs.pdrs /\ RuleLists(rs)[2] = rs.fars
        /\ RuleLists(rs)[3] = rs.qers /\ RuleLists(rs)[4] = rs.urrs
    BY DEF RuleLists
  <1>3. 1 \in 1 .. 4 /\ 2 \in 1 .. 4 /\ 3 \in 1 .. 4 /\ 4 \in 1 .. 4
    OBVIOUS
  <1> QED BY <1>1, <1>2, <1>3

\* With unique ids a rule is found by its id, and no other one is.
LEMMA RuleIsFound ==
  ASSUME NEW list, IsVector(list), UniqueIds(list), NEW i \in DOMAIN list
  PROVE  /\ FindRule(list, list[i].id) = {list[i]}
         /\ RuleOf(list, list[i].id) = list[i]
PROOF
  <1> DEFINE first == {k \in DOMAIN list :
                         /\ list[k].id = list[i].id
                         /\ \A j \in 1 .. k - 1 : list[j].id # list[i].id}
  <1>1. \A k \in first : k = i
    BY DEF UniqueIds
  <1>2. \A j \in 1 .. i - 1 : j \in DOMAIN list /\ j # i
    BY DEF IsVector
  <1>3. i \in first
    BY <1>2 DEF UniqueIds
  <1>4. first = {i}
    BY <1>1, <1>3
  <1>5. FindRule(list, list[i].id) = {list[k] : k \in first}
    BY DEF FindRule
  <1> HIDE DEF first
  <1>6. FindRule(list, list[i].id) = {list[i]}
    BY <1>4, <1>5
  <1> QED BY <1>6, ValueOfSingleton DEF RuleOf

\* What is found has the id that was asked for, and is a rule of the list.
LEMMA FoundIsListed ==
  ASSUME NEW list, NEW id, NEW rule \in FindRule(list, id)
  PROVE  rule.id = id /\ id \in Ids(list) /\ \E i \in DOMAIN list : rule = list[i]
PROOF
  BY DEF FindRule, Ids

\* An id of the list names exactly one of its rules.
LEMMA RuleOfId ==
  ASSUME NEW list, IsVector(list), UniqueIds(list), NEW id \in Ids(list)
  PROVE  /\ FindRule(list, id) = {RuleOf(list, id)}
         /\ RuleOf(list, id).id = id
         /\ \E i \in DOMAIN list : RuleOf(list, id) = list[i]
PROOF
  <1>1. PICK i \in DOMAIN list : list[i].id = id
    BY DEF Ids
  <1> QED BY <1>1, RuleIsFound

-----------------------------------------------------------------------------
(* QER.                                                                    *)

\* Division with remainder, as the refill uses it.
LEMMA DivMod ==
  ASSUME NEW n \in Nat, NEW d \in Nat \ {0}
  PROVE  n \div d \in Nat /\ n % d \in 0 .. d - 1
  OBVIOUS

\* A product of numbers is a number.
LEMMA ProductIsNat ==
  ASSUME NEW a \in Nat, NEW b \in Nat
  PROVE  a * b \in Nat
  OBVIOUS

\* What a refill that does not fail earns is a number of bytes and a rest.
LEMMA RefillIsNat ==
  ASSUME NEW q, WellTypedQer(q), NEW b \in TokenBucketState, NEW now \in UInt64,
         ~ RefillFails(q, b, now)
  PROVE  /\ RefillBytes(q, b, now) \in Nat
         /\ Numerator(q, b, now) % BitMicrosPerByte \in 0 .. BitMicrosPerByte - 1
PROOF
  <1> DEFINE B == BitMicrosPerByte
  <1>1. /\ B \in Nat \ {0} /\ UInt64Max \in Nat /\ q.rateBitsPerSecond \in 0 .. UInt64Max
    BY BitMicrosPerByteAssumption, UInt64MaxAssumption DEF WellTypedQer, UInt64
  <1>2. /\ b.lastRefillMicros \in 0 .. UInt64Max /\ b.remainderBitMicros \in 0 .. B - 1
        /\ now \in 0 .. UInt64Max
    BY DEF TokenBucketState, UInt64
  <1>3. b.lastRefillMicros <= now
    BY <1>1, <1>2 DEF RefillFails
  <1>4. Elapsed(b, now) \in Nat
    BY <1>1, <1>2, <1>3 DEF Elapsed
  <1>5. Elapsed(b, now) * q.rateBitsPerSecond \in Nat
    BY <1>1, <1>4, ProductIsNat
  <1>6. Numerator(q, b, now) \in Nat
    BY <1>1, <1>2, <1>5 DEF Numerator
  <1> QED BY <1>1, <1>6, DivMod DEF RefillBytes

\* A refill that does not fail stays within 64 bits, takes no token away, and
\* fills the bucket up to the burst at most: tokens above it, left over from
\* other parameters, are only kept.
LEMMA RefillStaysInRange ==
  ASSUME NEW q, WellTypedQer(q), NEW b \in TokenBucketState, NEW now \in UInt64,
         ~ RefillFails(q, b, now)
  PROVE  /\ Refilled(q, b, now) \in TokenBucketState
         /\ b.tokensBytes <= Refilled(q, b, now).tokensBytes
         /\ \/ Refilled(q, b, now).tokensBytes <= q.burstBytes
            \/ Refilled(q, b, now).tokensBytes = b.tokensBytes
PROOF
  <1> DEFINE B == BitMicrosPerByte
  <1>1. /\ B \in Nat \ {0} /\ UInt64Max \in Nat /\ q.burstBytes \in 0 .. UInt64Max
    BY BitMicrosPerByteAssumption, UInt64MaxAssumption DEF WellTypedQer, UInt64
  <1>2. b.tokensBytes \in 0 .. UInt64Max /\ now \in 0 .. UInt64Max
    BY DEF TokenBucketState, UInt64
  <1>3. RefillBytes(q, b, now) \in Nat /\ Numerator(q, b, now) % B \in 0 .. B - 1
    BY RefillIsNat
  <1>4. /\ AddedTokens(q, b, now) \in Nat
        /\ AddedTokens(q, b, now) <= Room(q, b)
        /\ Room(q, b) = 0 \/ b.tokensBytes + Room(q, b) = q.burstBytes
    BY <1>1, <1>2, <1>3 DEF AddedTokens, Room
  <1> DEFINE t == b.tokensBytes + AddedTokens(q, b, now)
  <1>5. t \in 0 .. UInt64Max /\ b.tokensBytes <= t /\ (t <= q.burstBytes \/ t = b.tokensBytes)
    BY <1>1, <1>2, <1>4 DEF Room
  <1>6. Refilled(q, b, now) = [tokensBytes |-> t, lastRefillMicros |-> now,
                                remainderBitMicros |-> Numerator(q, b, now) % B]
    BY DEF Refilled
  <1> HIDE DEF t
  <1> QED BY <1>2, <1>3, <1>5, <1>6 DEF TokenBucketState, UInt64

\* The outcomes of a QER.
LEMMA QerOutcomes ==
  ASSUME NEW q, NEW b, NEW bytes, NEW now
  PROVE  QerOutcome(q, b, bytes, now) \in
           {"GATE_CLOSED", "ARITHMETIC_ERROR", "RATE_LIMITED", "ALLOW"}
PROOF
  BY DEF QerOutcome

\* evaluateQer keeps the bucket in its type, fills it up to the burst at
\* most, and takes tokens only from a packet it allows; a packet refused for
\* the gate or the arithmetic changes nothing.
LEMMA QerNextInRange ==
  ASSUME NEW q, WellTypedQer(q), NEW b \in TokenBucketState,
         NEW bytes \in UInt64, NEW now \in UInt64
  PROVE  /\ QerNext(q, b, bytes, now) \in TokenBucketState
         /\ \/ QerNext(q, b, bytes, now).tokensBytes <= q.burstBytes
            \/ QerNext(q, b, bytes, now).tokensBytes <= b.tokensBytes
         /\ QerOutcome(q, b, bytes, now) # "ALLOW" =>
              b.tokensBytes <= QerNext(q, b, bytes, now).tokensBytes
         /\ QerOutcome(q, b, bytes, now) \in {"GATE_CLOSED", "ARITHMETIC_ERROR"} =>
              QerNext(q, b, bytes, now) = b
PROOF
  <1> DEFINE o == QerOutcome(q, b, bytes, now)
             r == Refilled(q, b, now)
             next == QerNext(q, b, bytes, now)
  <1>1. /\ b.tokensBytes \in 0 .. UInt64Max /\ UInt64Max \in Nat /\ bytes \in 0 .. UInt64Max
        /\ q.burstBytes \in 0 .. UInt64Max
    BY UInt64MaxAssumption DEF TokenBucketState, UInt64, WellTypedQer
  <1>2. CASE o = "ALLOW"
    <2>1. ~ RefillFails(q, b, now) /\ ~ (bytes > r.tokensBytes)
      BY <1>2 DEF QerOutcome
    <2>2. /\ r \in TokenBucketState
          /\ r.tokensBytes <= q.burstBytes \/ r.tokensBytes = b.tokensBytes
      BY <2>1, RefillStaysInRange
    <2>3. next = [r EXCEPT !.tokensBytes = r.tokensBytes - bytes]
      BY <1>2 DEF QerNext
    <2>4. r.tokensBytes \in 0 .. UInt64Max
      BY <2>2 DEF TokenBucketState, UInt64
    <2>5. r.tokensBytes - bytes \in 0 .. UInt64Max
      BY <1>1, <2>1, <2>4
    <2>6. next \in TokenBucketState /\ next.tokensBytes = r.tokensBytes - bytes
      BY <2>2, <2>3, <2>5 DEF TokenBucketState, UInt64
    <2> HIDE DEF o, r, next
    <2>7. next.tokensBytes <= q.burstBytes \/ next.tokensBytes <= b.tokensBytes
      BY <1>1, <2>2, <2>4, <2>6
    <2> QED BY <1>2, <2>6, <2>7 DEF o, next
  <1>3. CASE o = "RATE_LIMITED"
    <2>1. ~ RefillFails(q, b, now)
      BY <1>3 DEF QerOutcome
    <2>2. next = r
      BY <1>3 DEF QerNext
    <2>3. r.tokensBytes = b.tokensBytes => r.tokensBytes <= b.tokensBytes
      BY <1>1
    <2> QED BY <1>3, <2>1, <2>2, <2>3, RefillStaysInRange
  <1>4. CASE o \in {"GATE_CLOSED", "ARITHMETIC_ERROR"}
    <2>1. next = b
      BY <1>4 DEF QerNext
    <2> QED BY <1>1, <1>4, <2>1
  <1> QED BY <1>2, <1>3, <1>4, QerOutcomes

-----------------------------------------------------------------------------
(* URR.                                                                    *)

\* evaluateUrr keeps the counter in its type; unless it overflows it counts
\* one packet and its payload, and reports when the threshold is reached and
\* no report was sent.
LEMMA UrrNextInRange ==
  ASSUME NEW u, NEW usage \in UsageCounterState, NEW bytes \in UInt64
  PROVE  /\ UrrNext(u, usage, bytes) \in UsageCounterState
         /\ ~ UrrOverflows(usage, bytes) =>
              /\ UrrNext(u, usage, bytes).packets = usage.packets + 1
              /\ UrrNext(u, usage, bytes).payloadBytes = usage.payloadBytes + bytes
              /\ UrrNext(u, usage, bytes).reportEmitted =
                   (usage.reportEmitted \/ UrrReports(u, usage, bytes))
PROOF
  <1>1. /\ usage.packets \in 0 .. UInt64Max /\ usage.payloadBytes \in 0 .. UInt64Max
        /\ usage.reportEmitted \in BOOLEAN /\ UInt64Max \in Nat /\ bytes \in 0 .. UInt64Max
    BY UInt64MaxAssumption DEF UsageCounterState, UInt64
  <1>2. CASE UrrOverflows(usage, bytes)
    BY <1>2 DEF UrrNext
  <1>3. CASE ~ UrrOverflows(usage, bytes)
    <2>1. usage.packets + 1 \in 0 .. UInt64Max /\ usage.payloadBytes + bytes \in 0 .. UInt64Max
      BY <1>1, <1>3 DEF UrrOverflows, AddOverflows
    <2>2. UrrNext(u, usage, bytes) =
            [packets |-> usage.packets + 1, payloadBytes |-> usage.payloadBytes + bytes,
             reportEmitted |-> usage.reportEmitted \/ UrrReports(u, usage, bytes)]
      BY <1>3 DEF UrrNext
    <2>3. (usage.reportEmitted \/ UrrReports(u, usage, bytes)) \in BOOLEAN
      OBVIOUS
    <2> DEFINE flag == usage.reportEmitted \/ UrrReports(u, usage, bytes)
    <2> HIDE DEF flag
    <2> QED BY <2>1, <2>2, <2>3 DEF UsageCounterState, UInt64, flag
  <1> QED BY <1>2, <1>3

-----------------------------------------------------------------------------
(* install: what migration makes of the runtime state.                     *)

\* The declared type of RuntimeState.
WellTypedRuntime(r) ==
  /\ r \in [qers : {r.qers}, urrs : {r.urrs},
            qerGenerations : {r.qerGenerations}, urrGenerations : {r.urrGenerations}]
  /\ r.qers \in [DOMAIN r.qers -> TokenBucketState]
  /\ r.urrs \in [DOMAIN r.urrs -> UsageCounterState]

\* r holds the state of the rules of rs, and of no other.
RuntimeOf(r, rs) ==
  /\ DOMAIN r.qers = Ids(rs.qers) /\ r.qerGenerations = Generations(rs.qers)
  /\ DOMAIN r.urrs = Ids(rs.urrs) /\ r.urrGenerations = Generations(rs.urrs)

\* The empty runtime state has its type.
LEMMA NoRuntimeTyped == WellTypedRuntime(NoRuntime)
PROOF
  BY DEF WellTypedRuntime, NoRuntime

\* A packet evaluateQer allows is no larger than the burst, as long as the
\* bucket held no more than that.
LEMMA AllowedFits ==
  ASSUME NEW q, WellTypedQer(q), NEW b \in TokenBucketState,
         NEW bytes \in UInt64, NEW now \in UInt64,
         QerOutcome(q, b, bytes, now) = "ALLOW", b.tokensBytes <= q.burstBytes
  PROVE  bytes <= q.burstBytes
PROOF
  <1> DEFINE tokens == Refilled(q, b, now).tokensBytes
  <1>1. ~ RefillFails(q, b, now) /\ ~ (bytes > tokens)
    BY DEF QerOutcome
  <1>2. tokens <= q.burstBytes \/ tokens = b.tokensBytes
    BY <1>1, RefillStaysInRange
  <1>3. tokens \in UInt64 /\ q.burstBytes \in UInt64
    BY <1>1, RefillStaysInRange DEF TokenBucketState, WellTypedQer
  <1> HIDE DEF tokens
  <1> QED BY <1>1, <1>2, <1>3, UInt64MaxAssumption DEF UInt64

\* What process stores of a rate-limited packet touches the buckets only.
LEMMA BucketsStored ==
  ASSUME NEW r, WellTypedRuntime(r),
         NEW qers, qers \in [DOMAIN qers -> TokenBucketState],
         NEW x, x = [r EXCEPT !.qers = qers]
  PROVE  /\ WellTypedRuntime(x) /\ x.qers = qers /\ x.urrs = r.urrs
         /\ x.qerGenerations = r.qerGenerations /\ x.urrGenerations = r.urrGenerations
PROOF
  BY DEF WellTypedRuntime

\* A migrated bucket or counter is typed and belongs to its rule.
LEMMA MigratedFits ==
  ASSUME NEW r, WellTypedRuntime(r),
         NEW rs, WellTypedRuleSet(rs), ValidateRuleSet(rs)
  PROVE  WellTypedRuntime(Migrated(r, rs)) /\ RuntimeOf(Migrated(r, rs), rs)
PROOF
  <1> DEFINE m == Migrated(r, rs)
  <1>1. /\ DOMAIN m.qers = Ids(rs.qers) /\ m.qerGenerations = Generations(rs.qers)
        /\ DOMAIN m.urrs = Ids(rs.urrs) /\ m.urrGenerations = Generations(rs.urrs)
        /\ m \in [qers : {m.qers}, urrs : {m.urrs},
                  qerGenerations : {m.qerGenerations}, urrGenerations : {m.urrGenerations}]
    BY DEF Migrated
  <1>2. ASSUME NEW id \in Ids(rs.qers) PROVE m.qers[id] \in TokenBucketState
    <2>1. PICK i \in DOMAIN rs.qers : RuleOf(rs.qers, id) = rs.qers[i]
      BY RuleOfId, ValidListsAreUnique DEF WellTypedRuleSet
    <2>2. RuleOf(rs.qers, id).burstBytes \in UInt64
      BY <2>1 DEF WellTypedRuleSet, WellTypedQer
    <2>3. FreshBucket(RuleOf(rs.qers, id)) \in TokenBucketState
      BY <2>2, UInt64MaxAssumption, BitMicrosPerByteAssumption
      DEF FreshBucket, TokenBucketState, UInt64
    <2>4. id \in DOMAIN r.qers => r.qers[id] \in TokenBucketState
      BY DEF WellTypedRuntime
    <2>5. m.qers[id] = IF Survives(r.qers, r.qerGenerations, RuleOf(rs.qers, id))
                       THEN r.qers[id] ELSE FreshBucket(RuleOf(rs.qers, id))
      BY DEF Migrated
    <2>6. RuleOf(rs.qers, id).id = id
      BY RuleOfId, ValidListsAreUnique DEF WellTypedRuleSet
    <2> QED BY <2>3, <2>4, <2>5, <2>6 DEF Survives
  <1>3. ASSUME NEW id \in Ids(rs.urrs) PROVE m.urrs[id] \in UsageCounterState
    <2>1. FreshUsage \in UsageCounterState
      BY UInt64MaxAssumption DEF FreshUsage, UsageCounterState, UInt64
    <2>2. id \in DOMAIN r.urrs => r.urrs[id] \in UsageCounterState
      BY DEF WellTypedRuntime
    <2>3. m.urrs[id] = IF Survives(r.urrs, r.urrGenerations, RuleOf(rs.urrs, id))
                       THEN r.urrs[id] ELSE FreshUsage
      BY DEF Migrated
    <2>4. RuleOf(rs.urrs, id).id = id
      BY RuleOfId, ValidListsAreUnique DEF WellTypedRuleSet
    <2> QED BY <2>1, <2>2, <2>3, <2>4 DEF Survives
  <1>4. /\ m.qers \in [DOMAIN m.qers -> TokenBucketState]
        /\ m.urrs \in [DOMAIN m.urrs -> UsageCounterState]
    <2>1. /\ m.qers = [id \in Ids(rs.qers) |-> m.qers[id]]
          /\ m.urrs = [id \in Ids(rs.urrs) |-> m.urrs[id]]
      BY DEF Migrated
    <2> HIDE DEF m
    <2> QED BY <1>2, <1>3, <2>1
  <1> HIDE DEF m
  <1>5. WellTypedRuntime(m)
    BY <1>1, <1>4 DEF WellTypedRuntime
  <1>6. RuntimeOf(m, rs)
    BY <1>1 DEF RuntimeOf
  <1> QED BY <1>5, <1>6 DEF m

\* A rule keeps its state exactly when its generation is the installed one.
LEMMA SurvivesInRuntime ==
  ASSUME NEW r, NEW old, RuntimeOf(r, old), NEW rule
  PROVE  /\ Survives(r.qers, r.qerGenerations, rule) <=>
               /\ rule.id \in Ids(old.qers)
               /\ RuleOf(old.qers, rule.id).generation = rule.generation
         /\ Survives(r.urrs, r.urrGenerations, rule) <=>
               /\ rule.id \in Ids(old.urrs)
               /\ RuleOf(old.urrs, rule.id).generation = rule.generation
PROOF
  BY DEF Survives, RuntimeOf, Generations

\* Installing the active ruleset once more changes nothing.
LEMMA MigratedAgain ==
  ASSUME NEW r, WellTypedRuntime(r),
         NEW rs, WellTypedRuleSet(rs), ValidateRuleSet(rs), RuntimeOf(r, rs)
  PROVE  Migrated(r, rs) = r
PROOF
  <1> DEFINE m == Migrated(r, rs)
  <1>1. ASSUME NEW id \in Ids(rs.qers) PROVE m.qers[id] = r.qers[id]
    <2>1. RuleOf(rs.qers, id).id = id
      BY RuleOfId, ValidListsAreUnique DEF WellTypedRuleSet
    <2>2. Survives(r.qers, r.qerGenerations, RuleOf(rs.qers, id))
      BY <2>1, SurvivesInRuntime
    <2> QED BY <2>2 DEF Migrated
  <1>2. ASSUME NEW id \in Ids(rs.urrs) PROVE m.urrs[id] = r.urrs[id]
    <2>1. RuleOf(rs.urrs, id).id = id
      BY RuleOfId, ValidListsAreUnique DEF WellTypedRuleSet
    <2>2. Survives(r.urrs, r.urrGenerations, RuleOf(rs.urrs, id))
      BY <2>1, SurvivesInRuntime
    <2> QED BY <2>2 DEF Migrated
  <1>3. /\ m.qers = [id \in Ids(rs.qers) |-> m.qers[id]]
        /\ m.urrs = [id \in Ids(rs.urrs) |-> m.urrs[id]]
        /\ m.qerGenerations = r.qerGenerations /\ m.urrGenerations = r.urrGenerations
        /\ m \in [qers : {m.qers}, urrs : {m.urrs},
                  qerGenerations : {m.qerGenerations}, urrGenerations : {m.urrGenerations}]
    BY DEF Migrated, RuntimeOf
  <1>4. /\ r.qers = [id \in Ids(rs.qers) |-> r.qers[id]]
        /\ r.urrs = [id \in Ids(rs.urrs) |-> r.urrs[id]]
        /\ r \in [qers : {r.qers}, urrs : {r.urrs},
                  qerGenerations : {r.qerGenerations}, urrGenerations : {r.urrGenerations}]
    BY DEF WellTypedRuntime, RuntimeOf
  <1> HIDE DEF m
  <1>5. m.qers = r.qers /\ m.urrs = r.urrs
    BY <1>1, <1>2, <1>3, <1>4
  <1>6. m = r
    BY <1>3, <1>4, <1>5
  <1> QED BY <1>6 DEF m
=============================================================================
