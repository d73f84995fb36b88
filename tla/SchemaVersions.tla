--------------------------- MODULE SchemaVersions ---------------------------
(***************************************************************************)
(* fieldloop-schemaver: what a gateway does with a record of a declared    *)
(* schema version.  A policy is [min, current, band]; an envelope is       *)
(* [version, clock, offset], None for a field the sender does not know.    *)
(***************************************************************************)
EXTENDS Integers, Sequences

CONSTANTS
    None,
    U32,      \* 2^32: a version is a 32-bit unsigned integer
    Clocks,   \* readings of a monotonic clock
    Offsets,  \* offsets of a boot from the server's time
    Calls     \* what the gateway may be called with: [declared, env, policy]

VARIABLES
    received  \* the gateway's call of this step, and its answer

CURRENT == 3

Version == 0..(U32 - 1)
SupportPolicy == [min : Version, current : Version, band : Version]
RolloutEnvelope == [version : Version, clock : Clocks \cup {None}, offset : Offsets \cup {None}]

ASSUME VersionAssumption ==
    /\ U32 \in Nat /\ U32 > CURRENT
    /\ None \notin Clocks /\ None \notin Offsets
    /\ Calls \subseteq [declared : Version, env : RolloutEnvelope, policy : SupportPolicy]

\* The end of the deprecation band, exclusive: the addition is not checked.
BandTop(policy) == (policy.min + policy.band) % U32

Classify(v, policy) ==
    IF v > policy.current \/ v < policy.min THEN "Unsupported"
    ELSE IF v = policy.current THEN "Current"
    ELSE IF v < BandTop(policy) THEN "Deprecated"
    ELSE "Supported"

PlanFrom(declared, current) == [i \in 1..(current - declared) |-> <<declared + i - 1, declared + i>>]

RejectReason(declared, policy) == IF declared > policy.current THEN "FutureOrUnknown" ELSE "BelowMinSupported"

Negotiate(declared, policy) ==
    LET class == Classify(declared, policy)
    IN  IF class = "Unsupported" THEN [accept |-> FALSE, reason |-> RejectReason(declared, policy)]
        ELSE [accept |-> TRUE, warn |-> class = "Deprecated",
              plan |-> IF class = "Current" THEN <<>> ELSE PlanFrom(declared, policy.current)]

(***************************************************************************)
(* The migration chain over m = [env, clock, degradations]: the envelope   *)
(* and its capabilities.                                                   *)
(***************************************************************************)

Full(env) == [env |-> env, clock |-> "Monotonic", degradations |-> {}]

MigrateV1ToV2(m) ==
    [env |-> [m.env EXCEPT !.version = 2], clock |-> "WallOnly",
     degradations |-> m.degradations \cup {"monotonic_clock"}]

\* A mutant: an absent offset is not disclosed.
MigrateSilently(m) == [m EXCEPT !.env.version = 3]
MigrateV2ToV3(m) ==
    [env |-> [m.env EXCEPT !.version = 3], clock |-> m.clock,
     degradations |-> m.degradations \cup (IF m.env.offset = None THEN {"server_anchor_offset_ns"} ELSE {})]

\* A step runs only on an envelope that sits exactly at its version.
StepV1(m) == IF m.env.version = 1 THEN MigrateV1ToV2(m) ELSE m
StepV2(m) == IF m.env.version = 2 THEN MigrateV2ToV3(m) ELSE m
MigrateToCurrent(env) == StepV2(StepV1(Full(env)))

ClockCapabilityOf(env) == IF env.clock = None THEN "WallOnly" ELSE "Monotonic"

\* The one call of a gateway per record: the envelope's own version, not the
\* declared one, decides what is migrated.
IngestNegotiate(declared, env, policy) ==
    LET n == Negotiate(declared, policy)
    IN  IF n.accept THEN [accept |-> TRUE, warn |-> n.warn, record |-> MigrateToCurrent(env)]
        ELSE n

GatewayInit == received = None

Receive ==
    \E c \in Calls : received' = [call |-> c, answer |-> IngestNegotiate(c.declared, c.env, c.policy)]

\* The answer is the output of its step.
Quiet == received' = None

GatewaySpec == GatewayInit /\ [][Receive \/ Quiet]_received

(***************************************************************************)
(* What it promises.                                                       *)
(***************************************************************************)

\* What the SDK of each version sends: v1 has no monotonic clock, v1 and v2 no
\* offset.
AsSent(env) ==
    /\ env.version \in 1..CURRENT
    /\ env.clock = None <=> env.version = 1
    /\ env.offset = None <=> env.version < 3

\* What is said of a record: the clock it really has, one note per field that
\* its sender did not know.
Disclosed(env, record) ==
    /\ record.clock = ClockCapabilityOf(env)
    /\ "monotonic_clock" \in record.degradations <=> env.clock = None
    /\ "server_anchor_offset_ns" \in record.degradations <=> env.offset = None

\* On notice: older than the current version and among the first "band" ones.
InBand(v, policy) == v < policy.current /\ v < policy.min + policy.band

\* Under any policy a version is accepted exactly from the floor to the current
\* one, with a step for each version it lacks.  A sender is warned only in the
\* band, and always in it unless the sum that ends the band overflows.  What an
\* SDK sent as its version says arrives in the current shape with its fields as
\* they were sent, and what it can do is said truthfully, even if another
\* version was declared for it.
Truthful(c, answer) ==
    /\ answer.accept <=> c.declared \in c.policy.min..c.policy.current
    /\ answer.accept =>
         /\ Len(Negotiate(c.declared, c.policy).plan) = c.policy.current - c.declared
         /\ answer.warn => InBand(c.declared, c.policy)
         /\ c.policy.min + c.policy.band < U32 => (InBand(c.declared, c.policy) => answer.warn)
         /\ AsSent(c.env) => /\ answer.record.env = [c.env EXCEPT !.version = CURRENT]
                             /\ Disclosed(c.env, answer.record)

\* The gateway's answer is truthful ("explicit degradation markers", migrate.rs).
AdmittedIsTruthful == received # None => Truthful(received.call, received.answer)
=============================================================================
