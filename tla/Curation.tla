------------------------------ MODULE Curation ------------------------------
(***************************************************************************)
(* The loop from a flagged rollout to a trained policy: the trigger, a     *)
(* human who labels what the queue holds, the attribution that goes on     *)
(* appending rows, a curator who withdraws them, and the data sets that    *)
(* are compiled, recorded, trained from and exported meanwhile.            *)
(***************************************************************************)
EXTENDS Trigger, Dataset

CONSTANTS
    AutoRows,    \* rows the attribution may append
    Verdicts,    \* of a human: a failure class, or success
    MaxRows, MaxWork   \* bounds

\* A row of the table; its key names the row it is or withdraws.
FeedbackRows == [rollout : Nat, class : FailureClasses \cup {"success"}, method : Methods, confidence : 0..One,
                 retracted : BOOLEAN, ts : Int, key : Nat]

ASSUME RowsAssumption ==
    /\ AutoRows \subseteq FeedbackRows
    /\ Verdicts \subseteq FailureClasses \cup {"success"}

vars == <<triggerVars, datasetVars>>

\* Rows are only ever appended.
Appended(row) ==
    /\ Len(feedback) < MaxRows
    /\ feedback' = Append(feedback, row)
    /\ UNCHANGED <<commits, lineage>>

Attribute ==
    /\ \E row \in AutoRows : Appended([row EXCEPT !.key = Len(feedback) + 1])
    /\ UNCHANGED triggerVars

\* The human's verdict is the truth; it becomes a manual row.
Label ==
    \E e \in Range(queue), verdict \in Verdicts :
        /\ AcceptLabel(e, verdict)
        /\ Appended([rollout |-> e.rollout, class |-> verdict, method |-> "manual", confidence |-> One,
                     retracted |-> FALSE, ts |-> 0, key |-> Len(feedback) + 1])

\* A row is withdrawn by appending a retracted copy of it.
Retract ==
    /\ \E k \in DOMAIN feedback : ~feedback[k].retracted /\ Appended([feedback[k] EXCEPT !.retracted = TRUE])
    /\ UNCHANGED triggerVars

Init == TriggerInit /\ DatasetInit

\* What has been done, to bound a behaviour as a whole.
Work == Cardinality(offered) + Len(feedback) + Cardinality(commits) + Cardinality(DOMAIN lineage.episodes)
        + Cardinality(UNION {{p} \X lineage.trained[p] : p \in Policies})

Bounded == Work < MaxWork

Next ==
    \/ Bounded /\ SelectUploads /\ UNCHANGED datasetVars
    \/ Bounded /\ Offer /\ UNCHANGED datasetVars
    \/ Bounded /\ Attribute
    \/ Bounded /\ Label
    \/ Bounded /\ Retract
    \/ Bounded /\ Compile /\ UNCHANGED triggerVars
    \/ Bounded /\ RecordCommit /\ UNCHANGED triggerVars
    \/ Bounded /\ RecordTrainedFrom /\ UNCHANGED triggerVars

Spec == Init /\ [][Next]_vars

\* Shapes and bounds of the queue, the tables and the store; only what fired
\* is offered, only what the queue held is labelled, and only the detector that
\* flagged an event is barred from training on it.
TypeOK ==
    /\ offered \subseteq fired /\ Len(queue) <= Capacity
    /\ \A e \in fired : e.priority \in 0..NaN
    /\ \A e \in fired, g \in 0..1 : ~TrainingEligible(e.source, g) => SeedGeneration(TriggerRecord(e)) = g
    /\ \A k \in DOMAIN labels : \E e \in offered : e.rollout = labels[k].rollout
    /\ \A k \in DOMAIN feedback : feedback[k].key <= k /\ (feedback[k].key < k => feedback[k].retracted)
    /\ \A p \in Policies : lineage.trained[p] \subseteq {c.id : c \in commits}
    /\ DOMAIN lineage.episodes \subseteq {c.id : c \in commits}

\* "A retracted binding, or one below the slice's min_confidence, is NEVER
\* admitted to training" (curation lib.rs), where a curator's delete "appends a
\* retracted = true row" (types feedback.rs).
RetractedNotTrained ==
    \A c \in commits : \A i \in Range(c.slice.items) :
        ~ \E k \in 1..c.length : k > i.row /\ feedback[k].retracted /\ feedback[k].key = feedback[i.row].key
=============================================================================
