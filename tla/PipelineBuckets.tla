--------------------------- MODULE PipelineBuckets ---------------------------
(***************************************************************************)
(* The pipeline and the token bucket composed.  TokenBucket describes one  *)
(* entry of runtime_.qers on its own; here the entry of QER QerId lives    *)
(* among other rules, and rulesets bring it, change it, renew it and take  *)
(* it away.  Two history variables say what the packets did to it.         *)
(***************************************************************************)
EXTENDS PacketPipeline

CONSTANTS QerId,     \* the QER whose bucket is followed
          MaxBurst,  \* no QER of that id has a larger burst ...
          MaxRate    \* ... or a larger rate

VARIABLES
  spent,    \* history: payload bytes committed under the QER in its generation
  last      \* history: time and QER outcome of the last packet it evaluated

bucketVars == <<vars, spent, last>>

\* What stands for the QER while the ruleset has none: nothing passes it, and
\* no rule has its generation.
Absent == [id |-> QerId, gate |-> "CLOSED", rateBitsPerSecond |-> 0, burstBytes |-> 0,
           generation |-> UInt64Max + 1]

Configured == {Absent} \cup UNION {FindRule(rs.qers, QerId) : rs \in RuleSets}

QerIn(active) ==
  LET found == UNION {FindRule(rs.qers, QerId) : rs \in active}
  IN  IF HasValue(found) THEN Value(found) ELSE Absent

ASSUME ConfiguredAssumption ==
  /\ MaxBurst \in UInt64 /\ MaxRate \in UInt64
  /\ \A q \in Configured : q.burstBytes <= MaxBurst /\ q.rateBitsPerSecond <= MaxRate

Bucket == INSTANCE TokenBucket
            WITH Qers     <- Configured,
                 Sizes    <- {p.payloadBytes : p \in Packets},
                 Times    <- {p.arrivalTimeMicros : p \in Packets},
                 qer      <- QerIn(rules),
                 bucket   <- IF QerId \in DOMAIN runtime.qers
                             THEN runtime.qers[QerId] ELSE FreshBucket(Absent)

BucketsInit == Init /\ spent = 0 /\ last = Bucket!NoPacket

-----------------------------------------------------------------------------
NoteInstall ==
  /\ last' = Bucket!NoPacket
  /\ spent' = IF QerIn(rules').generation = QerIn(rules).generation THEN spent ELSE 0

\* The decisions of QerId on p, if process comes to evaluate it.
Evaluated(p) ==
  IF HasResultSpace /\ Acceptable(p)
  THEN {d \in UNION {QerDecisions(pdr, p) : pdr \in Winner(Active, p)} : d.qerId = QerId}
  ELSE {}

NoteProcess(p) ==
  IF Evaluated(p) = {} THEN UNCHANGED <<spent, last>>
  ELSE /\ last' = [time |-> p.arrivalTimeMicros, outcome |-> Value(Evaluated(p)).outcome]
       /\ spent' = IF returned' \subseteq CommittedResults
                   THEN spent + p.payloadBytes ELSE spent

\* The steps of PacketPipeline, noted.
BucketsNext ==
  \/ /\ UNCHANGED <<limits, sinks, reports, decisions, events, droppedEvents, returned>>
     /\ \E rs \in RuleSets :
          \/ Install(rs) /\ NoteInstall
          \/ RefuseInstall(rs) /\ UNCHANGED <<spent, last>>
  \/ /\ UNCHANGED <<limits, rules, since>>
     /\ \E p \in Packets : Process(p) /\ NoteProcess(p)

BucketsSpec == BucketsInit /\ [][BucketsNext]_bucketVars

-----------------------------------------------------------------------------
\* Whatever the pipeline does with its other rules, with packets refused for
\* their FAR, their URR or for space, and with rulesets that drop the QER and
\* bring it back, the QER's entry goes through the life of one TokenBucket:
\* charged exactly by the packets committed under it, refilled exactly by
\* those rate limited or committed, kept or renewed by install.  So the
\* contract proved of TokenBucket holds of it in the pipeline.
ImplementsTokenBucket == Bucket!Spec
=============================================================================
