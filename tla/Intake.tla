------------------------------- MODULE Intake -------------------------------
(***************************************************************************)
(* What comes in by other ways than the recorder: recordings of a foreign  *)
(* stack, imported under a mapping and a configuration that an operator    *)
(* edits and a doctor checks, and records of robots with an older SDK.     *)
(***************************************************************************)
EXTENDS Config, Import, SchemaVersions

CONSTANTS
    Failed,       \* the result of a call that is refused
    Texts,        \* configurations the operator may write
    Mappings,     \* mappings the operator may write
    Messages,     \* what a recording may hold
    Thresholds,   \* of clock skew, for the doctor
    MaxMessages   \* bound

\* The kinds of outcome are a closed set.
ASSUME MappingsAssumption ==
    \A m \in Mappings :
        IsMapping(m) /\ \A i \in DOMAIN m.outcomes : m.outcomes[i].role \in Range(KindSpelling)

\* Stamps are unsigned, tables finite.
ASSUME FilesAssumption ==
    /\ Thresholds \subseteq Nat /\ \A m \in Messages : m.log \in Nat /\ m.publish \in Nat
    /\ \A t \in Texts : Deserializes(t) => /\ IsFiniteSet(DOMAIN t.embodiments) /\ IsFiniteSet(DOMAIN t.metrics)
                                           /\ IsFiniteSet(DOMAIN t.labels)

VARIABLES
    text,        \* the configuration as written
    mapping,     \* the mapping as written
    recording,   \* the file
    config,      \* the last load of this text
    diagnosis,   \* the doctor's last word on this mapping and file
    events       \* what an import returned in this step

files == <<text, mapping, recording>>
vars == <<files, config, diagnosis, events, received>>

EditConfig ==
    /\ text' \in Texts \ {text}
    /\ config' = None
    /\ events' = None /\ Quiet
    /\ UNCHANGED <<mapping, recording, diagnosis>>

EditMapping ==
    /\ mapping' \in Mappings \ {mapping}
    /\ diagnosis' = None /\ events' = None /\ Quiet
    /\ UNCHANGED <<text, recording, config>>

\* Messages reach the file in any order of their stamps.
Record ==
    /\ Len(recording) < MaxMessages
    /\ \E m \in Messages : recording' = Append(recording, m)
    /\ diagnosis' = None /\ events' = None /\ Quiet
    /\ UNCHANGED <<text, mapping, config>>

FromTomlStr(result) ==
    \/ ~Deserializes(text) /\ result = Failed
    \/ /\ Deserializes(text)
       /\ \E order \in LoadOrders(text) : \E e \in ConfigErrors(text, order) :
             result = IF e = Ok THEN LoadedConfig(text, order) ELSE Failed

LoadConfig ==
    /\ FromTomlStr(config')
    /\ events' = None /\ Quiet
    /\ UNCHANGED <<files, diagnosis>>

\* The doctor does not look at the ids of a mapping.
Doctor ==
    /\ \E threshold \in Thresholds :
         diagnosis' = IF MappingErrors(mapping) # {} THEN Failed ELSE Diagnose(recording, mapping, threshold)
    /\ events' = None /\ Quiet
    /\ UNCHANGED <<files, config>>

\* Heartbeats go to the coverage, the rest to the engine, each with the window
\* of its kind; an embodiment the configuration does not know has none.
Routed(loaded, imported) ==
    LET beats == {i \in DOMAIN imported.outcomes : imported.outcomes[i].kind = "Heartbeat"}
        heartbeats == Picked(imported.outcomes, beats)
        failures == Picked(imported.outcomes, DOMAIN imported.outcomes \ beats)
    IN  [rollouts |-> imported.rollouts, heartbeats |-> heartbeats,
         outcomes |-> [i \in DOMAIN failures |->
             [o |-> failures[i], window |-> WindowOf(loaded, mapping.embodiment, failures[i].kind, None)]]]

AttributeMcap ==
    /\ FromTomlStr(config')
    /\ events' = IF config' = Failed \/ ImportErrors(mapping) # {} THEN Failed
                 ELSE Routed(config', ImportMcap(recording, mapping))
    /\ Quiet
    /\ UNCHANGED <<files, diagnosis>>

Init ==
    /\ text \in Texts /\ mapping \in Mappings /\ recording = <<>>
    /\ config = None /\ diagnosis = None /\ events = None
    /\ GatewayInit

Next ==
    \/ EditConfig
    \/ EditMapping
    \/ Record
    \/ LoadConfig
    \/ Doctor
    \/ AttributeMcap
    \/ Receive /\ events' = None /\ UNCHANGED <<files, config, diagnosis>>

Spec == Init /\ [][Next]_vars

(***************************************************************************)
(* Properties.                                                             *)
(***************************************************************************)

\* The same text always loads to the same configuration, or always fails,
\* whatever order its hash maps are walked in: "a case-folding lookup is never
\* ambiguous" (config lib.rs).
LoadIsStable == [][text' = text /\ config # None => config' = config]_vars

\* What the i-th message of the file is, and when.
Role(i) == RoleOf(mapping, recording[i].topic)
Time(i) == Stamp(mapping, recording[i])

\* The messages of a role and a stamp, and the events an import made of them:
\* <<role, stamp>> of each event is in Bound.
Said(role, stamp) == {i \in DOMAIN recording : Role(i) = role /\ Time(i) = stamp}
Made(role, stamp) ==
    CASE role = "Decision" -> {k \in DOMAIN events.rollouts : events.rollouts[k].stamp = stamp}
      [] role = "Heartbeat" -> {k \in DOMAIN events.heartbeats :
                                    events.heartbeats[k].kind = role /\ events.heartbeats[k].stamp = stamp}
      [] OTHER -> {k \in DOMAIN events.outcomes : events.outcomes[k].o.kind = role /\ events.outcomes[k].o.stamp = stamp}
Bound ==
    {<<"Decision", r.stamp>> : r \in ToSet(events.rollouts)}
    \cup {<<h.kind, h.stamp>> : h \in ToSet(events.heartbeats)}
    \cup {<<x.o.kind, x.o.stamp>> : x \in ToSet(events.outcomes)}

\* One event per message whose topic has a role, decision or outcome, at the
\* stamp of the mapping's clock, and no other event.
OneEventEach ==
    \A e \in Bound \cup {<<Role(i), Time(i)>> : i \in {j \in DOMAIN recording : Role(j) # "Unmapped"}} :
        Cardinality(Made(e[1], e[2])) = Cardinality(Said(e[1], e[2]))

\* Decisions are numbered from 0 in the order of the clock.
NumberedByClock ==
    /\ \A k \in DOMAIN events.rollouts : events.rollouts[k].step = k - 1
    /\ \A k, l \in DOMAIN events.rollouts : k < l => events.rollouts[k].stamp <= events.rollouts[l].stamp

\* Every event is within the doctor's threshold of the recorder's clock, unless
\* the mapping reads publish times and its message has none.
WithinThreshold ==
    \A e \in Bound : \A i \in Said(e[1], e[2]) :
        \/ mapping.source = "PublishTime" /\ recording[i].publish = 0
        \/ Max({e[2], recording[i].log}) - Min({e[2], recording[i].log}) <= diagnosis.threshold

\* Every declared topic gave an event of its role.
NothingMissing ==
    \A c \in ToSet(Claims(mapping)) :
        \E i \in DOMAIN recording : recording[i].topic = c.topic /\ Made(c.role, Time(i)) # {}

\* An import makes one event of each message that has a role, stamped by the
\* clock of the mapping, and numbers the decisions by it, whatever order the
\* file has them in ("the re-import never renumbers contract", import lib.rs).
\* After a doctor who found no problem every declared topic gave something and
\* no known stamp is off the recorder's clock; and a collision is never given a
\* window that may match on wall-clock time.
ImportKeepsTheClock ==
    events \notin {None, Failed} =>
        /\ OneEventEach
        /\ NumberedByClock
        /\ \A x \in ToSet(events.outcomes) : x.o.kind = "Collision" /\ x.window # None => x.window.colocated
        /\ diagnosis \notin {None, Failed} /\ ~HasProblems(diagnosis) => WithinThreshold /\ NothingMissing
=============================================================================
