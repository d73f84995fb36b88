------------------------------ MODULE Trigger -------------------------------
(***************************************************************************)
(* fieldloop-trigger: detectors flag rollouts, the broker picks which      *)
(* payloads to pull under a budget, and a bounded queue keeps the events   *)
(* most worth a human's time.                                              *)
(*                                                                         *)
(* A priority is in thousandths.  A confidence tag may parse to NaN, which *)
(* passes the threshold and the clamp, and total_cmp ranks it above every  *)
(* number.                                                                 *)
(***************************************************************************)
EXTENDS Feedback, Lists, Functions

CONSTANTS
    Batches,          \* what select_uploads is called with: [rollouts, outcomes]
    Flags,            \* events of a learned detector, a human, a random sample
    Budget,           \* [requests, bytes]
    BytesPerRequest,
    ByteCap,          \* the largest byte count: additions saturate there
    Capacity,         \* of the review queue
    MaxDecisions, MaxLabels   \* bounds

ASSUME BudgetAssumption ==
    /\ {Budget.requests, Budget.bytes, BytesPerRequest, ByteCap, Capacity} \subseteq Nat
    /\ Budget.bytes <= ByteCap

VARIABLES
    fired,      \* events emitted so far
    decision,   \* the last broker call
    offered,    \* events offered to the queue so far
    queue,      \* what the queue holds, best first
    labels      \* accepted label records

triggerVars == <<fired, decision, offered, queue, labels>>

NaN == One + 1
LowConfidence == 300

Event(rollout, outcome, detector, tier, source, hint, priority) ==
    [rollout |-> rollout, outcome |-> outcome, detector |-> detector, tier |-> tier,
     source |-> source, hint |-> hint, priority |-> priority]

\* Events are ranked by rollout and by priority.
IsEvent(e) == e.rollout \in Nat /\ e.priority \in 0..NaN

\* Where an event came from: a detector of some generation, a human, or a
\* random sample.
Detector(generation) == [by |-> "detector", generation |-> generation]
Human == [by |-> "human"]
RandomSample == [by |-> "random_sample"]
Shipped == Detector(0)

\* The record of an event: whether a detector seeded it, and which generations
\* of the detector it may train: all but the one that flagged it.
TrainingEligible(source, generation) == source # Detector(generation)
TriggerRecord(e) == [event |-> e, seed |-> e.source.by = "detector"]
SeedGeneration(record) == IF record.seed THEN record.event.source.generation ELSE None

ClassHint(kind) ==
    CASE kind \in {"teleop_takeover", "e_stop"} -> "operator"
      [] kind = "collision" -> "manipulation"
      [] kind = "downstream_failure" -> "environment"
      [] OTHER -> None

\* The outcome of a rollout is the last one that names it; heartbeats are
\* routed elsewhere.
Paired(r, outcomes) ==
    LET naming == {i \in DOMAIN outcomes : outcomes[i].explicit = r.id /\ outcomes[i].kind # "heartbeat"}
    IN  {outcomes[i] : i \in {j \in naming : \A k \in naming : k <= j}}

Reflex(r, paired) ==
    {Event(r.id, o.id, "reflex.outcome", "reflex_a", Shipped, ClassHint(o.kind), One) :
        o \in {x \in paired : ClassHint(x.kind) # None}}

\* A missing or malformed tag is no signal.
PreFilter(r) ==
    {Event(r.id, None, "prefilter.low_confidence", "pre_filter", Shipped, "perception",
           IF c = NaN THEN NaN ELSE Clamp(One - (One * c) \div LowConfidence, 0, One)) :
        c \in {x \in {r.confidence} \ {None} : x < LowConfidence \/ x = NaN}}

LearnedThreshold == 500
Learned(rollout, outcome, score, generation) ==
    IF score < LearnedThreshold THEN <<>>
    ELSE <<Event(rollout, outcome, "learned", "learned_b", Detector(generation),
                 "environment", Clamp(score, 0, One))>>

\* Both detectors look at each rollout.
Detected(batch) ==
    LET found == [k \in 1..2 * Len(batch.rollouts) |->
            LET r == batch.rollouts[(k + 1) \div 2] IN
            IF k % 2 = 1 THEN Reflex(r, Paired(r, batch.outcomes)) ELSE PreFilter(r)]
        some == Picked(found, {k \in DOMAIN found : found[k] # {}})
    IN  [k \in DOMAIN some |-> CHOOSE e \in some[k] : TRUE]

IsSafety(e) == e.tier = "reflex_a"

ASSUME EventsAssumption ==
    /\ \A batch \in Batches :
          /\ IsList(batch.rollouts) /\ IsList(batch.outcomes)
          /\ \A r \in Range(batch.rollouts) : r.id \in Nat /\ (r.confidence # None => r.confidence \in Int)
    /\ \A extra \in Flags : IsList(extra) /\ \A e \in Range(extra) : IsEvent(e)

(***************************************************************************)
(* The broker.                                                             *)
(***************************************************************************)

\* Highest priority first, then by rollout.
Outranks(e, f) == \/ e.priority > f.priority
                  \/ e.priority = f.priority /\ e.rollout < f.rollout

SafetyEvents(events) == Picked(events, {i \in DOMAIN events : IsSafety(events[i])})

\* A mutant: the first come are the first served.
ArrivalOrder(events) == Picked(events, {i \in DOMAIN events : ~IsSafety(events[i])})
Droppable(events) == Sorted(events, {i \in DOMAIN events : ~IsSafety(events[i])}, Outranks)

Charged(bytes) == IF bytes + BytesPerRequest > ByteCap THEN ByteCap ELSE bytes + BytesPerRequest

\* What is asked of the robot, and what the operator sees of a drop.
Request(e) == [rollout |-> e.rollout, outcome |-> e.outcome, detector |-> e.detector,
               tier |-> e.tier, priority |-> e.priority]
DroppedEvent(e) == [rollout |-> e.rollout, detector |-> e.detector, tier |-> e.tier,
                    priority |-> e.priority]

UploadDecision(events) ==
    LET safety == SafetyEvents(events)
    IN  [events |-> events, dropped |-> <<>>, admitted |-> 0, bytes |-> 0,
         requests |-> [i \in DOMAIN safety |-> Request(safety[i])]]

Admit(d, e) ==
    IF d.admitted < Budget.requests /\ Charged(d.bytes) <= Budget.bytes
    THEN [d EXCEPT !.admitted = @ + 1, !.bytes = Charged(@), !.requests = Append(@, Request(e))]
    ELSE [d EXCEPT !.dropped = Append(@, DroppedEvent(e))]

\* Safety events first and free of charge, then greedily under both limits.
Select(events) ==
    LET rest == Droppable(events)
        decisions[k \in 0..Len(rest)] ==
            IF k = 0 THEN UploadDecision(events) ELSE Admit(decisions[k - 1], rest[k])
    IN  decisions[Len(rest)]

(***************************************************************************)
(* The review queue.                                                       *)
(***************************************************************************)

\* Uncertainty peaks at a coin flip; a safety event is worth twice as much.
ValueWeight(e) == IF IsSafety(e) THEN 2 ELSE 1
ReviewPriority(e) ==
    IF e.priority = NaN THEN 2 * One + 1
    ELSE (One - 2 * Abs(e.priority - One \div 2)) * ValueWeight(e)

Ahead(e, f) == \/ ReviewPriority(e) > ReviewPriority(f)
               \/ ReviewPriority(e) = ReviewPriority(f) /\ e.rollout < f.rollout

Ranked(q) == Sorted(q, DOMAIN q, Ahead)

\* A mutant: a full queue keeps what it has.
KeptIfRoom(q, e) == IF Len(q) < Capacity THEN Ranked(Append(q, e)) ELSE q
\* A mutant: the queue is never trimmed.
Untrimmed(q, e) == Ranked(Append(q, e))
Offered(q, e) ==
    LET ranked == Ranked(Append(q, e))
    IN  SubSeq(ranked, 1, IF Len(ranked) > Capacity THEN Capacity ELSE Len(ranked))

\* The human's verdict beside the detector's hint: a class, or success.
LabelRecord(e, verdict) ==
    [rollout |-> e.rollout, outcome |-> e.outcome, detector |-> e.detector, hint |-> e.hint,
     verdict |-> verdict]

(***************************************************************************)
(* Actions.                                                                *)
(***************************************************************************)

SelectUploads ==
    /\ decision.calls < MaxDecisions
    /\ \E batch \in Batches, extra \in Flags :
          LET events == Detected(batch) \o extra IN
          /\ fired' = fired \cup Range(events)
          /\ decision' = [calls |-> decision.calls + 1, made |-> Select(events)]
    /\ UNCHANGED <<offered, queue, labels>>

Offer ==
    /\ \E e \in fired \ offered :
          /\ queue' = Offered(queue, e)
          /\ offered' = offered \cup {e}
    /\ UNCHANGED <<fired, decision, labels>>

\* Labelling an event leaves it in the queue.
AcceptLabel(e, verdict) ==
    /\ Len(labels) < MaxLabels
    /\ labels' = Append(labels, LabelRecord(e, verdict))
    /\ UNCHANGED <<fired, decision, offered, queue>>

TriggerInit ==
    /\ fired = {} /\ offered = {} /\ queue = <<>> /\ labels = <<>>
    /\ decision = [calls |-> 0, made |-> Select(<<>>)]

(***************************************************************************)
(* Properties.                                                             *)
(***************************************************************************)

\* Every event of a call is pulled or reported as dropped, never both and
\* never neither; a safety event is always pulled; the rest stays under both
\* limits, leaves no room unused, and nothing is dropped for the sake of an
\* event of lower priority, in whatever order the events came
\* (SelectiveUploadBroker::select).
BudgetIsFair ==
    LET d == decision.made
        budgeted == Picked(d.requests, {i \in DOMAIN d.requests : ~IsSafety(d.requests[i])})
    IN  /\ Len(d.requests) + Len(d.dropped) = Len(d.events)
        /\ \A e \in Range(d.events) : \/ Request(e) \in Range(d.requests)
                                      \/ DroppedEvent(e) \in Range(d.dropped)
        /\ \A e \in Range(d.dropped) : ~IsSafety(e)
        /\ Len(budgeted) <= Budget.requests
        /\ Len(budgeted) * BytesPerRequest <= Budget.bytes \/ Budget.bytes = ByteCap
        /\ d.dropped # <<>> => \/ Len(budgeted) = Budget.requests
                               \/ (Len(budgeted) + 1) * BytesPerRequest > Budget.bytes
        /\ \A e \in Range(d.dropped), f \in Range(budgeted) : f.priority >= e.priority

\* Whatever the order of the offers, the queue holds the best of all events
\* ever offered, best first, as many as fit (ReviewQueue::offer).
QueueIsTopK ==
    /\ Len(queue) = IF Cardinality(offered) < Capacity THEN Cardinality(offered) ELSE Capacity
    /\ Range(queue) \subseteq offered
    /\ \A i, j \in DOMAIN queue : i < j => ReviewPriority(queue[i]) >= ReviewPriority(queue[j])
    /\ \A e \in Range(queue), f \in offered \ Range(queue) : ReviewPriority(e) >= ReviewPriority(f)
=============================================================================
