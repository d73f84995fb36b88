------------------------------- MODULE Import -------------------------------
(***************************************************************************)
(* fieldloop-import: a recording, a sequence of messages [topic, log,      *)
(* publish]; a mapping, which says what its topics mean; the import of the *)
(* one under the other, and the doctor, which looks at both before.        *)
(***************************************************************************)
EXTENDS Integers, SequencesExt, Lists

\* A mapping names the topics and the one robot, boot and episode of a file;
\* ids that are not UUIDs are read as text until the import.
IsMapping(mapping) ==
    /\ DOMAIN mapping = {"decisions", "outcomes", "source", "embodiment", "policy", "boot", "episode"}
    /\ IsList(mapping.decisions) /\ IsList(mapping.outcomes) /\ mapping.source \in {"LogTime", "PublishTime"}
    /\ \A i \in DOMAIN mapping.outcomes : DOMAIN mapping.outcomes[i] = {"topic", "role"}

\* The roles of the topics in the order they are declared: [topic, role], the
\* decision topics first; the role of an outcome topic is its kind.
Claims(mapping) ==
    [i \in DOMAIN mapping.decisions |-> [topic |-> mapping.decisions[i], role |-> "Decision"]] \o mapping.outcomes

MappingErrors(mapping) ==
    LET claims == Claims(mapping)
    IN  {claims[i].topic : i \in {i \in DOMAIN claims : \E j \in 1..(i - 1) : claims[j].topic = claims[i].topic}}

\* Of a conflict-free mapping.
RoleOf(mapping, topic) ==
    LET claims == {c \in ToSet(Claims(mapping)) : c.topic = topic}
    IN  IF claims = {} THEN "Unmapped" ELSE (CHOOSE c \in claims : TRUE).role

Stamp(mapping, m) == IF mapping.source = "PublishTime" THEN m.publish ELSE m.log

\* Decisions are numbered in the order of their stamps, outcomes stay in the
\* order of the file.
\* A mutant: decisions are numbered as they come.
FileOrder(stamps) == stamps
SmallerStamp(a, b) == a < b
InClockOrder(stamps) == Sorted(stamps, DOMAIN stamps, SmallerStamp)

NotUuid == "not a UUID"
BadIds(mapping) == {field \in {"boot", "episode"} : mapping[field] = NotUuid}
ImportErrors(mapping) == IF MappingErrors(mapping) # {} THEN MappingErrors(mapping) ELSE BadIds(mapping)

\* One boot and one episode for the whole file.
ImportedRollout(mapping, step, stamp) ==
    [step |-> step, stamp |-> stamp, boot |-> mapping.boot, episode |-> mapping.episode,
     embodiment |-> mapping.embodiment, policy |-> mapping.policy]
ImportedOutcome(mapping, m) ==
    [kind |-> RoleOf(mapping, m.topic), stamp |-> Stamp(mapping, m), boot |-> mapping.boot]

ImportMcap(recording, mapping) ==
    LET role == [i \in DOMAIN recording |-> RoleOf(mapping, recording[i].topic)]
        decisions == Picked(recording, {i \in DOMAIN recording : role[i] = "Decision"})
        outcomes == Picked(recording, {i \in DOMAIN recording : role[i] \notin {"Decision", "Unmapped"}})
        stamps == InClockOrder([i \in DOMAIN decisions |-> Stamp(mapping, decisions[i])])
    IN  [rollouts |-> [i \in DOMAIN stamps |-> ImportedRollout(mapping, i - 1, stamps[i])],
         outcomes |-> [i \in DOMAIN outcomes |-> ImportedOutcome(mapping, outcomes[i])]]

(***************************************************************************)
(* The doctor.                                                             *)
(***************************************************************************)

\* A publish time of 0 is a writer that does not know it.
Skew(m) == IF m.publish = 0 THEN 0 ELSE Max({m.log - m.publish, m.publish - m.log})

TopicReport(recording, mapping, topic) ==
    LET on == {i \in DOMAIN recording : recording[i].topic = topic}
        logs == {recording[i].log : i \in on}
    IN  [role |-> RoleOf(mapping, topic), count |-> Cardinality(on), first |-> Min(logs), last |-> Max(logs),
         skew |-> Max({Skew(recording[i]) : i \in on})]

\* Every topic of the file is reported, also one that is not mapped, and any
\* of them may be skewed.
Diagnose(recording, mapping, threshold) ==
    LET present == {m.topic : m \in ToSet(recording)}
        topics == [t \in present |-> TopicReport(recording, mapping, t)]
    IN  [topics |-> topics, threshold |-> threshold,
         missing |-> {c.topic : c \in ToSet(Claims(mapping))} \ present,
         skewed |-> {t \in present : topics[t].skew > threshold}]

HasProblems(diagnosis) == diagnosis.missing # {} \/ diagnosis.skewed # {}
=============================================================================
