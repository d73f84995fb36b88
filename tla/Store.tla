------------------------------- MODULE Store -------------------------------
(***************************************************************************)
(* The ClickHouse tables of fieldloop-store: the columns the migrations    *)
(* give them, the row a value is written as, and the value a row is read   *)
(* back as.  A column has the name of the field it holds.                  *)
(*                                                                         *)
(* The columns that no tier, calibrator or read of the model looks at are  *)
(* left out.                                                               *)
(***************************************************************************)
EXTENDS Attribution

CONSTANT QuoteWide    \* the server renders 64-bit integers as strings

(***************************************************************************)
(* The migrations.                                                         *)
(***************************************************************************)

M0001Rollout == {"id", "tenant", "robot", "embodiment"}
M0007RolloutClock == {"boot", "mono", "wall"}
M0008RolloutServerAnchor == {"anchor"}
M0011RolloutSpatialCausal == {"pose", "frame", "station"}

M0002OutcomeEvent == {"id", "tenant", "robot", "boot", "mono", "wall", "kind", "explicit"}
M0010OutcomeSpatialCausal == {"pose", "frame", "parents"}

M0003Feedback == {"tenant", "rollout", "slot", "metric", "failure", "method", "confidence",
                  "outcome", "retracted", "key"}
M0009FeedbackDistributedCredit == {"weight", "set"}

\* The view the feedback is read through; the later columns never reached it.
M0005FeedbackByTargetId == {"tenant", "rollout", "slot", "metric", "failure", "method", "confidence", "retracted"}

Tables == [Rollout      |-> M0001Rollout \cup M0007RolloutClock \cup M0008RolloutServerAnchor
                              \cup M0011RolloutSpatialCausal,
           OutcomeEvent |-> M0002OutcomeEvent \cup M0010OutcomeSpatialCausal,
           Feedback     |-> M0003Feedback \cup M0009FeedbackDistributedCredit]

\* A value keeps what its table has a column for; the rest is read as absent.
Stored(value, columns) == [c \in DOMAIN value |-> IF c \in columns THEN value[c] ELSE None]

(***************************************************************************)
(* Rows.                                                                   *)
(***************************************************************************)

Nil == "nil"    \* the id of no group

ASSUME NilAssumption == Nil # None

\* The server's anchor: two numbers, both 0 for a rollout that has none.
RolloutRow(r) == Stored([r EXCEPT !.anchor = IF @ = None THEN 0 ELSE @], Tables.Rollout)
OutcomeRow(o) == Stored(o, Tables.OutcomeEvent)
\* A mutant: no group is stored as an absent value.
PlainRow(f) == Stored(f, Tables.Feedback)
FeedbackRow(f) == Stored([f EXCEPT !.set = IF @ = None THEN Nil ELSE @], Tables.Feedback)

\* A name outside its closed set is an error, and so is a missing column.
EnumColumn(row, column, names) == row[column] \in names
ParseableOutcome(row) == EnumColumn(row, "kind", Kinds)

\* Most numbers are taken as a number or as a string; the anchor is not.
NumberOnly(x) == IF QuoteWide THEN None ELSE x

\* A frame goes with a pose.
Framed(value) == [value EXCEPT !.frame = IF value.pose = None THEN None ELSE @]

ParseRollout(row) == Framed([row EXCEPT !.anchor = IF @ = 0 THEN None ELSE NumberOnly(@)])
ParseOutcome(row) == Framed(row)
ParseFeedback(row) == [row EXCEPT !.set = IF @ = Nil THEN None ELSE @]

\* The columns a read names; it fails when its table or view lacks one.
SelectedFeedback == Tables.Feedback
Answers(columns, selected) == selected \subseteq columns
=============================================================================
