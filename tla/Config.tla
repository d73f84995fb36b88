------------------------------- MODULE Config -------------------------------
(***************************************************************************)
(* fieldloop-config: a configuration as it is written, a table per section *)
(* keyed by the names the operator typed, and as it is loaded, keyed by    *)
(* the names in lower case.  The loader walks a hash map, in any order.    *)
(* An Option that is absent is Unset.                                      *)
(***************************************************************************)
EXTENDS Integers, Sequences, TLC, FiniteSetsExt, Functions

CONSTANTS
    Unset,       \* an absent Option
    Fold,        \* a name as typed |-> the name in lower case
    Reserved     \* names that are "fieldloop" or begin with "fieldloop_", as typed

\* An attribution table is keyed by the spelling of a kind.
KindSpelling == [teleop_takeover |-> "TeleopTakeover", e_stop |-> "EStop", collision |-> "Collision",
                 downstream_failure |-> "DownstreamFailure", heartbeat |-> "Heartbeat"]

Ok == "Ok"

(***************************************************************************)
(* The shape of a text: closed sets and known fields only.                 *)
(***************************************************************************)

ActionSpaces == {"joint_position", "joint_velocity", "end_effector_pose", "discrete"}
AttributionWindow == [ms : Nat, colocated : BOOLEAN]
IsEmbodiment(raw) ==
    /\ DOMAIN raw = {"space", "attribution"} /\ raw.space \in ActionSpaces
    /\ \A kind \in DOMAIN raw.attribution : raw.attribution[kind] \in AttributionWindow

RawMetric == [level : {"inference", "episode"}, kind : {"boolean", "float", "failure_class"},
              optimize : {Unset, "max", "min"}]

Classes == {"perception", "planning", "manipulation", "hardware", "network", "environment", "operator"}
IsLabel(raw) ==
    /\ DOMAIN raw = {"kind", "class", "severity", "window"}
    /\ raw.kind \in DOMAIN KindSpelling /\ raw.class \in Classes
    /\ raw.severity \in {"standard", "critical"} /\ raw.window \in {Unset} \cup Nat

IsCalibration(raw) == DOMAIN raw = {"version", "window"} /\ raw.window \in Nat

Deserializes(raw) ==
    /\ DOMAIN raw = {"embodiments", "metrics", "labels", "calibration"}
    /\ \A n \in DOMAIN raw.embodiments : IsEmbodiment(raw.embodiments[n])
    /\ \A n \in DOMAIN raw.metrics : raw.metrics[n] \in RawMetric
    /\ \A n \in DOMAIN raw.labels : IsLabel(raw.labels[n])
    /\ IsCalibration(raw.calibration)

(***************************************************************************)
(* What is wrong with one entry of each section, and what it is loaded as. *)
(***************************************************************************)

When(error, condition) == IF condition THEN {error} ELSE {}

EmbodimentErrors(raw) ==
    When("UnknownOutcomeKind", ~ DOMAIN raw.attribution \subseteq DOMAIN KindSpelling)
    \cup When("CollisionNotColocated", \E k \in DOMAIN raw.attribution : k = "collision" /\ ~raw.attribution[k].colocated)
MetricErrors(name, raw) ==
    IF name \in Reserved THEN {"ReservedMetricName"}
    ELSE When("OptimizeMismatch", (raw.kind = "float") # (raw.optimize # Unset))
LabelErrors(raw) == When("InvalidLabel", raw.window = 0)
CalibrationErrors(raw) == When("EmptyCalibrationVersion", raw.version = "")

\* The names of embodiments and metrics stay as typed, under a key that is not.
LoadEmbodiment(name, raw) ==
    [name |-> name, space |-> raw.space,
     attribution |-> [kind \in {KindSpelling[k] : k \in DOMAIN raw.attribution} |->
                         raw.attribution[CHOOSE k \in DOMAIN raw.attribution : KindSpelling[k] = kind]]]
LoadMetric(name, raw) ==
    [name |-> name, level |-> raw.level,
     kind |-> IF raw.kind = "float" THEN [shape |-> "float", optimize |-> raw.optimize] ELSE [shape |-> raw.kind]]
LoadLabel(name, raw) == [name |-> Fold[name]] @@ raw

\* Of the names in the order the loader meets them: those whose folded form was
\* met before.
\* A mutant: names are compared as they are typed.
ClashesAsTyped(order) == {i \in DOMAIN order : \E j \in 1..(i - 1) : order[j] = order[i]}
Clashes(order) == {i \in DOMAIN order : \E j \in 1..(i - 1) : Fold[order[j]] = Fold[order[i]]}

\* A clash is refused first, then what is wrong with an entry.
\* errors: name -> what is wrong with its entry.
TableErrors(order, errors) ==
    LET bad == {i \in DOMAIN order : i \in Clashes(order) \/ errors[order[i]] # {}}
    IN  IF bad = {} THEN {Ok}
        ELSE IF Min(bad) \in Clashes(order) THEN {"DuplicateName"}
        ELSE errors[order[Min(bad)]]

\* The loaded table: the entry of a folded name is the last one inserted.
Loaded(order, entries) ==
    [key \in {Fold[order[i]] : i \in DOMAIN order} |->
        entries[order[Max({i \in DOMAIN order : Fold[order[i]] = key})]]]

\* The sections are loaded one after the other; the first that fails ends it.
ConfigErrors(raw, order) ==
    LET embodiments == TableErrors(order.embodiments, [n \in DOMAIN raw.embodiments |-> EmbodimentErrors(raw.embodiments[n])])
        metrics == TableErrors(order.metrics, [n \in DOMAIN raw.metrics |-> MetricErrors(n, raw.metrics[n])])
        labels == TableErrors(order.labels, [n \in DOMAIN raw.labels |-> LabelErrors(raw.labels[n])])
    IN  IF embodiments # {Ok} THEN embodiments
        ELSE IF metrics # {Ok} THEN metrics
        ELSE IF labels # {Ok} THEN labels
        ELSE IF CalibrationErrors(raw.calibration) # {} THEN CalibrationErrors(raw.calibration)
        ELSE {Ok}

LoadedConfig(raw, order) ==
    [embodiments |-> Loaded(order.embodiments, [n \in DOMAIN raw.embodiments |-> LoadEmbodiment(n, raw.embodiments[n])]),
     metrics |-> Loaded(order.metrics, [n \in DOMAIN raw.metrics |-> LoadMetric(n, raw.metrics[n])]),
     labels |-> Loaded(order.labels, [n \in DOMAIN raw.labels |-> LoadLabel(n, raw.labels[n])]),
     calibration |-> raw.calibration]

\* Every order in which the hash maps of a text may be walked.
Orders(table) == {f \in [1..Cardinality(DOMAIN table) -> DOMAIN table] : IsInjective(f)}
LoadOrders(raw) == [embodiments : Orders(raw.embodiments), metrics : Orders(raw.metrics), labels : Orders(raw.labels)]

\* The window of a kind on an embodiment, looked up by any spelling of the name.
WindowOf(config, name, kind, none) ==
    IF Fold[name] \in DOMAIN config.embodiments /\ kind \in DOMAIN config.embodiments[Fold[name]].attribution
    THEN config.embodiments[Fold[name]].attribution[kind] ELSE none
=============================================================================
