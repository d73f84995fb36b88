------------------------ MODULE SchemaVersionsProofs ------------------------
(***************************************************************************)
(* The gateway's answers are truthful for every policy, every record and   *)
(* every width of a version number.                                        *)
(***************************************************************************)
EXTENDS SchemaVersions, TLAPS

\* The end of the band as computed is never past the real one, and it is the
\* real one unless the sum overflows.
LEMMA BandEnds ==
  ASSUME NEW policy \in SupportPolicy
  PROVE  /\ BandTop(policy) \in Int
         /\ BandTop(policy) <= policy.min + policy.band
         /\ policy.min + policy.band < U32 => BandTop(policy) = policy.min + policy.band
<1>1. policy.min \in Nat /\ policy.band \in Nat /\ policy.min + policy.band \in Nat
  BY VersionAssumption DEF SupportPolicy, Version
<1>2. U32 \in Nat /\ U32 > 0
  BY VersionAssumption DEF CURRENT
<1>3. \A a \in Nat : a % U32 \in 0..(U32 - 1) /\ (a < U32 => a % U32 = a)
  BY <1>2
<1>4. \A a \in Nat : a % U32 <= a
  <2> TAKE a \in Nat
  <2>1. CASE a < U32
    BY <1>3, <2>1
  <2>2. CASE a >= U32
    BY <1>2, <1>3, <2>2
  <2> QED
    BY <1>2, <2>1, <2>2
<1> QED
  BY <1>1, <1>2, <1>3, <1>4 DEF BandTop

\* A version is accepted exactly from the floor to the current one, with a step
\* for each version it lacks, and warned about in the band.
LEMMA NegotiatedAsPromised ==
  ASSUME NEW policy \in SupportPolicy, NEW v \in Version
  PROVE  LET n == Negotiate(v, policy) IN
         /\ n.accept <=> v \in policy.min..policy.current
         /\ n.accept => /\ Len(n.plan) = policy.current - v
                        /\ n.warn => InBand(v, policy)
                        /\ policy.min + policy.band < U32 => (InBand(v, policy) => n.warn)
<1> DEFINE top == BandTop(policy)
<1>1. /\ policy.min \in Nat /\ policy.band \in Nat /\ policy.current \in Nat /\ v \in Nat
      /\ top \in Int /\ top <= policy.min + policy.band
      /\ policy.min + policy.band < U32 => top = policy.min + policy.band
  BY VersionAssumption, BandEnds DEF SupportPolicy, Version
<1>2. CASE v < policy.min \/ v > policy.current
  <2>1. Classify(v, policy) = "Unsupported"
    BY <1>2 DEF Classify
  <2> QED
    BY <1>1, <1>2, <2>1 DEF Negotiate
<1>3. CASE policy.min <= v /\ v = policy.current
  <2>1. Classify(v, policy) = "Current"
    BY <1>1, <1>3 DEF Classify
  <2>2. Negotiate(v, policy) = [accept |-> TRUE, warn |-> FALSE, plan |-> <<>>]
    BY <2>1 DEF Negotiate
  <2> QED
    BY <1>1, <1>3, <2>2 DEF InBand
<1>4. CASE policy.min <= v /\ v < policy.current
  <2>1. Len(PlanFrom(v, policy.current)) = policy.current - v
    <3>1. policy.current - v \in Nat
      BY <1>1, <1>4
    <3> QED
      BY <3>1 DEF PlanFrom
  <2>2. CASE v < top
    <3>1. Classify(v, policy) = "Deprecated"
      BY <1>1, <1>4, <2>2 DEF Classify
    <3>2. Negotiate(v, policy) = [accept |-> TRUE, warn |-> TRUE, plan |-> PlanFrom(v, policy.current)]
      BY <3>1 DEF Negotiate
    <3>3. InBand(v, policy)
      BY <1>1, <1>4, <2>2 DEF InBand
    <3> QED
      BY <1>1, <1>4, <2>1, <3>2, <3>3
  <2>3. CASE ~(v < top)
    <3>1. Classify(v, policy) = "Supported"
      BY <1>1, <1>4, <2>3 DEF Classify
    <3>2. Negotiate(v, policy) = [accept |-> TRUE, warn |-> FALSE, plan |-> PlanFrom(v, policy.current)]
      BY <3>1 DEF Negotiate
    <3>3. policy.min + policy.band < U32 => ~InBand(v, policy)
      BY <1>1, <2>3 DEF InBand
    <3> QED
      BY <1>1, <1>4, <2>1, <3>2, <3>3
  <2> QED
    BY <2>2, <2>3
<1> QED
  BY <1>1, <1>2, <1>3, <1>4

\* An envelope as its SDK sends it arrives in the current shape, unchanged
\* otherwise, and with its clock and what it lacks disclosed.
LEMMA MigratedTruthfully ==
  ASSUME NEW env \in RolloutEnvelope, AsSent(env)
  PROVE  /\ MigrateToCurrent(env).env = [env EXCEPT !.version = CURRENT]
         /\ Disclosed(env, MigrateToCurrent(env))
<1> USE DEF CURRENT
<1>1. env.version \in {1, 2, 3}
  BY DEF AsSent
<1>2. env = [version |-> env.version, clock |-> env.clock, offset |-> env.offset]
  BY DEF RolloutEnvelope
<1>3. CASE env.version = 1
  <2>1. env.clock = None /\ env.offset = None
    BY <1>3 DEF AsSent
  <2>2. StepV1(Full(env)) = [env |-> [env EXCEPT !.version = 2], clock |-> "WallOnly",
                             degradations |-> {"monotonic_clock"}]
    BY <1>3 DEF StepV1, Full, MigrateV1ToV2
  <2> DEFINE m == StepV1(Full(env))
             e2 == [env EXCEPT !.version = 2]
  <2>3. e2.version = 2 /\ e2.offset = None /\ [e2 EXCEPT !.version = 3] = [env EXCEPT !.version = 3]
    BY <1>2, <2>1
  <2>4. m.env = e2 /\ m.clock = "WallOnly" /\ m.degradations = {"monotonic_clock"}
    BY <2>2
  <2>5. MigrateToCurrent(env) = StepV2(m)
    BY DEF MigrateToCurrent
  <2> HIDE DEF m, e2
  <2>6. MigrateToCurrent(env) =
          [env |-> [env EXCEPT !.version = 3], clock |-> "WallOnly",
           degradations |-> {"monotonic_clock"} \cup {"server_anchor_offset_ns"}]
    BY <2>3, <2>4, <2>5 DEF StepV2, MigrateV2ToV3
  <2>7. /\ MigrateToCurrent(env).env = [env EXCEPT !.version = 3]
        /\ Disclosed(env, MigrateToCurrent(env))
    BY <2>1, <2>6 DEF Disclosed, ClockCapabilityOf
  <2> QED
    BY <2>7
<1>4. CASE env.version = 2
  <2>1. env.clock # None /\ env.offset = None
    BY <1>4 DEF AsSent
  <2> DEFINE m == Full(env)
  <2>2. m.env = env /\ m.clock = "Monotonic" /\ m.degradations = {}
    BY DEF Full
  <2>3. MigrateToCurrent(env) = StepV2(m)
    BY <1>4, <2>2 DEF MigrateToCurrent, StepV1
  <2> HIDE DEF m
  <2>4. MigrateToCurrent(env) =
          [env |-> [env EXCEPT !.version = 3], clock |-> "Monotonic",
           degradations |-> {} \cup {"server_anchor_offset_ns"}]
    BY <1>4, <2>1, <2>2, <2>3 DEF StepV2, MigrateV2ToV3
  <2>5. /\ MigrateToCurrent(env).env = [env EXCEPT !.version = 3]
        /\ Disclosed(env, MigrateToCurrent(env))
    BY <2>1, <2>4 DEF Disclosed, ClockCapabilityOf
  <2> QED
    BY <2>5
<1>5. CASE env.version = 3
  <2>1. env.clock # None /\ env.offset # None
    BY <1>5 DEF AsSent
  <2>2. MigrateToCurrent(env) = Full(env)
    BY <1>5 DEF MigrateToCurrent, StepV1, StepV2, Full
  <2>3. [env EXCEPT !.version = 3] = env
    BY <1>2, <1>5
  <2> QED
    BY <2>1, <2>2, <2>3 DEF Disclosed, ClockCapabilityOf, Full
<1> QED
  BY <1>1, <1>3, <1>4, <1>5

\* What the gateway answers to a call is truthful.
LEMMA AnswerIsTruthful ==
  ASSUME NEW c \in Calls
  PROVE  Truthful(c, IngestNegotiate(c.declared, c.env, c.policy))
<1> DEFINE n == Negotiate(c.declared, c.policy)
           answer == IngestNegotiate(c.declared, c.env, c.policy)
<1>1. c.declared \in Version /\ c.env \in RolloutEnvelope /\ c.policy \in SupportPolicy
  BY VersionAssumption
<1>2. /\ n.accept <=> c.declared \in c.policy.min..c.policy.current
      /\ n.accept => /\ Len(n.plan) = c.policy.current - c.declared
                     /\ n.warn => InBand(c.declared, c.policy)
                     /\ c.policy.min + c.policy.band < U32 => (InBand(c.declared, c.policy) => n.warn)
  BY <1>1, NegotiatedAsPromised
<1>3. CASE n.accept
  <2>1. answer = [accept |-> TRUE, warn |-> n.warn, record |-> MigrateToCurrent(c.env)]
    BY <1>3 DEF IngestNegotiate
  <2>2. answer.record = MigrateToCurrent(c.env) /\ answer.accept /\ answer.warn = n.warn
    BY <2>1
  <2>3. AsSent(c.env) => /\ answer.record.env = [c.env EXCEPT !.version = CURRENT]
                         /\ Disclosed(c.env, answer.record)
    BY <1>1, <2>2, MigratedTruthfully
  <2> SUFFICES Truthful(c, answer)
    OBVIOUS
  <2> HIDE DEF answer
  <2> QED
    BY <1>2, <1>3, <2>2, <2>3 DEF Truthful
<1>4. CASE ~n.accept
  <2>1. answer = n
    BY <1>4 DEF IngestNegotiate
  <2> QED
    BY <1>2, <1>4, <2>1 DEF Truthful
<1> QED
  BY <1>3, <1>4

\* Every answer of the gateway is truthful: under any policy a version is
\* accepted exactly between the floor and the current one, and what an SDK sent
\* arrives in the current shape with what it lacks disclosed.
THEOREM AdmittedTruthfully == GatewaySpec => []AdmittedIsTruthful
<1>1. GatewayInit => AdmittedIsTruthful
  BY DEF GatewayInit, AdmittedIsTruthful
<1>2. AdmittedIsTruthful /\ [Receive \/ Quiet]_received => AdmittedIsTruthful'
  <2> SUFFICES ASSUME AdmittedIsTruthful, [Receive \/ Quiet]_received
               PROVE  AdmittedIsTruthful'
    OBVIOUS
  <2>1. CASE Receive
    <3>1. PICK c \in Calls :
            received' = [call |-> c, answer |-> IngestNegotiate(c.declared, c.env, c.policy)]
      BY <2>1 DEF Receive
    <3>2. received'.call = c /\ received'.answer = IngestNegotiate(c.declared, c.env, c.policy)
      BY <3>1
    <3>3. Truthful(received'.call, received'.answer)
      BY <3>2, AnswerIsTruthful
    <3> QED
      BY <3>3 DEF AdmittedIsTruthful
  <2>2. CASE Quiet
    BY <2>2 DEF Quiet, AdmittedIsTruthful
  <2>3. CASE UNCHANGED received
    BY <2>3 DEF AdmittedIsTruthful
  <2> QED
    BY <2>1, <2>2, <2>3
<1> QED
  BY <1>1, <1>2, PTL DEF GatewaySpec
=============================================================================
