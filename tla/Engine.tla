------------------------------- MODULE Engine -------------------------------
(***************************************************************************)
(* The policy functions applied to one packet: evaluateQer, evaluateFar    *)
(* and evaluateUrr (include/upf/domain/engine.hpp, src/domain/qer.cpp,     *)
(* far.cpp, urr.cpp).  They compute; the pipeline decides what to store.   *)
(***************************************************************************)
EXTENDS UpfTypes

CONSTANT BitMicrosPerByte   \* 8000000 in the code: 8 bits times 10^6 microseconds

ASSUME BitMicrosPerByteAssumption ==
  BitMicrosPerByte \in Nat \ {0} /\ BitMicrosPerByte <= UInt64Max

-----------------------------------------------------------------------------
(* QER: gate, then refill, then charge.                                    *)

TokenBucketState == [tokensBytes : UInt64, lastRefillMicros : UInt64,
                     remainderBitMicros : 0 .. BitMicrosPerByte - 1]

\* A bucket of a new rule or a new generation: full, as of time zero.
FreshBucket(qer) ==
  [tokensBytes |-> qer.burstBytes, lastRefillMicros |-> 0, remainderBitMicros |-> 0]

Elapsed(bucket, now) == now - bucket.lastRefillMicros

Numerator(qer, bucket, now) ==
  Elapsed(bucket, now) * qer.rateBitsPerSecond + bucket.remainderBitMicros

\* The arithmetic evaluateQer refuses to do.
RefillFails(qer, bucket, now) ==
  \/ now < bucket.lastRefillMicros
  \/ MultiplyOverflows(Elapsed(bucket, now), qer.rateBitsPerSecond)
  \/ AddOverflows(Elapsed(bucket, now) * qer.rateBitsPerSecond,
                  bucket.remainderBitMicros)

RefillBytes(qer, bucket, now) == Numerator(qer, bucket, now) \div BitMicrosPerByte

\* Mutant: the cap is the burst, whatever the bucket holds.
RoomOfEmpty(qer, bucket) == qer.burstBytes

Room(qer, bucket) ==
  IF qer.burstBytes > bucket.tokensBytes
  THEN qer.burstBytes - bucket.tokensBytes ELSE 0

AddedTokens(qer, bucket, now) ==
  IF Room(qer, bucket) < RefillBytes(qer, bucket, now)
  THEN Room(qer, bucket) ELSE RefillBytes(qer, bucket, now)

\* Mutant: the remainder keeps the bytes already earned.
RefilledUnreduced(qer, bucket, now) ==
  [tokensBytes        |-> bucket.tokensBytes + AddedTokens(qer, bucket, now),
   lastRefillMicros   |-> now,
   remainderBitMicros |-> Numerator(qer, bucket, now)]

\* Mutant: the refill time is not stored.
RefilledUntimed(qer, bucket, now) ==
  [tokensBytes        |-> bucket.tokensBytes + AddedTokens(qer, bucket, now),
   lastRefillMicros   |-> bucket.lastRefillMicros,
   remainderBitMicros |-> Numerator(qer, bucket, now) % BitMicrosPerByte]

Refilled(qer, bucket, now) ==
  [tokensBytes        |-> bucket.tokensBytes + AddedTokens(qer, bucket, now),
   lastRefillMicros   |-> now,
   remainderBitMicros |-> Numerator(qer, bucket, now) % BitMicrosPerByte]

QerOutcome(qer, bucket, bytes, now) ==
  IF qer.gate = "CLOSED"             THEN "GATE_CLOSED"
  ELSE IF RefillFails(qer, bucket, now) THEN "ARITHMETIC_ERROR"
  ELSE IF bytes > Refilled(qer, bucket, now).tokensBytes THEN "RATE_LIMITED"
  ELSE "ALLOW"

\* QerEvaluation::next
QerNext(qer, bucket, bytes, now) ==
  CASE QerOutcome(qer, bucket, bytes, now) = "RATE_LIMITED" -> Refilled(qer, bucket, now)
    [] QerOutcome(qer, bucket, bytes, now) = "ALLOW" ->
         [Refilled(qer, bucket, now) EXCEPT !.tokensBytes = @ - bytes]
    [] OTHER -> bucket

\* QerEvaluation::decision.  refillBytes is what the elapsed time earned,
\* before the bucket's room limits it.
QerDecision(qer, bucket, bytes, now) ==
  LET outcome == QerOutcome(qer, bucket, bytes, now)
  IN  [qerId             |-> qer.id,
       outcome           |-> outcome,
       tokensBefore      |-> bucket.tokensBytes,
       refillBytes       |-> IF outcome \in {"ALLOW", "RATE_LIMITED"}
                             THEN RefillBytes(qer, bucket, now) ELSE 0,
       packetChargeBytes |-> bytes,
       tokensAfter       |-> QerNext(qer, bucket, bytes, now).tokensBytes]

-----------------------------------------------------------------------------
(* FAR: forward with a tunnel change, or drop.                             *)

RemovesTunnel(far, packet) ==
  /\ packet.ingress = "N3" /\ far.destination = {"N6"} /\ far.operation = "REMOVE"

AddsTunnel(far, packet) ==
  /\ packet.ingress = "N6" /\ far.destination = {"N3"} /\ far.operation = "ADD"
  /\ HasValue(far.tunnel)

FarForwards(far, packet) ==
  far.action = "FORWARD" /\ (RemovesTunnel(far, packet) \/ AddsTunnel(far, packet))

FarValid(far, packet) ==
  \/ FarForwards(far, packet)
  \/ far.action = "DROP" /\ far.destination = {} /\ far.operation = "TUNNEL_NONE"

\* FarEvaluation::destination: N6 until a forwarding FAR names another.
FarDestination(far) ==
  IF far.action = "FORWARD" /\ HasValue(far.destination)
  THEN Value(far.destination) ELSE "N6"

\* Mutant: the tunnel of the packet is kept.
FarPacketUntouched(far, packet) == packet

\* FarEvaluation::packet
FarPacket(far, packet) ==
  IF ~ FarForwards(far, packet) THEN packet
  ELSE [packet EXCEPT !.tunnel = IF RemovesTunnel(far, packet) THEN {} ELSE far.tunnel]

-----------------------------------------------------------------------------
(* URR: count the packet and its payload, report the first crossing.       *)

UsageCounterState == [packets : UInt64, payloadBytes : UInt64, reportEmitted : BOOLEAN]

FreshUsage == [packets |-> 0, payloadBytes |-> 0, reportEmitted |-> FALSE]

\* Mutant: the payload is added unchecked.
UrrPacketsOverflow(usage, bytes) == AddOverflows(usage.packets, 1)

UrrOverflows(usage, bytes) ==
  AddOverflows(usage.packets, 1) \/ AddOverflows(usage.payloadBytes, bytes)

UrrReports(urr, usage, bytes) ==
  /\ ~ UrrOverflows(usage, bytes)
  /\ ~ usage.reportEmitted
  /\ usage.payloadBytes + bytes >= urr.volumeThresholdBytes

\* Mutant: the report flag does not outlive the packet that set it.
UrrNextForgetful(urr, usage, bytes) ==
  IF UrrOverflows(usage, bytes) THEN usage
  ELSE [packets       |-> usage.packets + 1,
        payloadBytes  |-> usage.payloadBytes + bytes,
        reportEmitted |-> UrrReports(urr, usage, bytes)]

\* UrrEvaluation::next
UrrNext(urr, usage, bytes) ==
  IF UrrOverflows(usage, bytes) THEN usage
  ELSE [packets       |-> usage.packets + 1,
        payloadBytes  |-> usage.payloadBytes + bytes,
        reportEmitted |-> usage.reportEmitted \/ UrrReports(urr, usage, bytes)]

\* The report id is session, URR, generation and version joined by fixed
\* marks; read from its end it gives the four back, so it is their tuple.
ReportId(urr, session, version) == <<session, urr.id, urr.generation, version>>

\* UrrEvaluation::decision
UrrDecision(urr, usage, bytes, session, version) ==
  [urrId            |-> urr.id,
   counted          |-> TRUE,
   packetsBefore    |-> usage.packets,
   packetsAfter     |-> IF UrrOverflows(usage, bytes) THEN 0 ELSE usage.packets + 1,
   bytesBefore      |-> usage.payloadBytes,
   bytesAfter       |-> IF UrrOverflows(usage, bytes) THEN 0
                        ELSE usage.payloadBytes + bytes,
   reportId         |-> IF UrrReports(urr, usage, bytes)
                        THEN {ReportId(urr, session, version)} ELSE {}]
=============================================================================
