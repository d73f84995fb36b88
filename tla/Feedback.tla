------------------------------ MODULE Feedback ------------------------------
(***************************************************************************)
(* What the attribution, the trigger and the curation share: the methods   *)
(* of a feedback row, the scale of scores, and which row of a target       *)
(* counts.                                                                 *)
(***************************************************************************)
EXTENDS Integers

CONSTANT None    \* an absent Option

ASSUME NoneAssumption == None \notin Nat

One == 1000      \* scores, confidences and shares are in thousandths

Known == {"explicit", "manual"}
Methods == Known \cup {"temporal", "spatial", "causal", "synthetic_absence"}

\* What a row can be about; a newer row replaces an older one of its slot only.
LabelKinds == {"terminal_outcome", "intervention", "annotation", "episode_return"}

\* The classes of a failure; any other value of a row is not one.
FailureClasses == {"perception", "planning", "manipulation", "hardware", "network", "environment", "operator"}

\* Silence has no outcome to point back to.
IsFeedback(f) ==
    /\ f.slot \in LabelKinds /\ f.method \in Methods
    /\ f.failure \in BOOLEAN /\ f.retracted \in BOOLEAN
    /\ f.confidence \in 0..One /\ f.weight \in 0..One
    /\ f.method = "synthetic_absence" => f.outcome = None

\* Certain enough for a safety verdict: known, never inferred.
SafetyEligible(f) == ~f.retracted /\ f.method \in Known /\ f.confidence = One

Clamp(x, lo, hi) == IF x < lo THEN lo ELSE IF x > hi THEN hi ELSE x
Abs(x) == IF x < 0 THEN -x ELSE x

\* A mutant: the oldest row wins.
OldestBinding(table, rows) ==
    LET live == {k \in rows : ~table[k].retracted}
        ahead(j, k) == \/ table[j].method = "manual" /\ table[k].method # "manual"
                       \/ (table[j].method = "manual" <=> table[k].method = "manual") /\ j <= k
    IN  IF live = {} THEN None ELSE CHOOSE j \in live : \A k \in live : ahead(j, k)

\* Which of some rows of a table, named by their ids, is the authoritative one:
\* not retracted, manual first, then the newest.
WinningBinding(table, rows) ==
    LET live == {k \in rows : ~table[k].retracted}
        ahead(j, k) == \/ table[j].method = "manual" /\ table[k].method # "manual"
                       \/ (table[j].method = "manual" <=> table[k].method = "manual") /\ j >= k
    IN  IF live = {} THEN None ELSE CHOOSE j \in live : \A k \in live : ahead(j, k)
=============================================================================
