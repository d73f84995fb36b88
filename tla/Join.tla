-------------------------------- MODULE Join --------------------------------
(***************************************************************************)
(* The join worker of fieldloop-join over the ClickHouse tables:           *)
(*  - the subscribe loop, which answers a landed event with the reward     *)
(*    join, a read;                                                        *)
(*  - the write-side pass: three reads, the attribution of what they       *)
(*    returned, one append;                                                *)
(*  - the same attribution called as a library, on a batch in memory.      *)
(* The gateway that lands rows and the curator that appends labels are the *)
(* environment.                                                            *)
(***************************************************************************)
EXTENDS Store

CONSTANTS
    Worlds,      \* what there is to land, or to call the library with
    MinLabels,   \* MIN_CALIBRATION_LABELS
    Windows,     \* lower bounds of the wall-clock window of a pass
    Floors,      \* confidence floors of a reward join
    MaxPasses, MaxEvents, MaxCurations   \* bounds

\* A record that arrives twice arrives unchanged.
Unchanging(xs) == \A i, j \in DOMAIN xs : xs[i].id = xs[j].id => xs[i] = xs[j]

ASSUME WorldsAssumption ==
    /\ \A w \in Worlds :
          /\ IsList(w.rollouts) /\ Unchanging(w.rollouts) /\ \A r \in Range(w.rollouts) : IsRollout(r)
          /\ IsList(w.outcomes) /\ Unchanging(w.outcomes) /\ \A o \in Range(w.outcomes) : IsOutcome(o)
          /\ IsList(w.prior) /\ \A f \in Range(w.prior) : IsFeedback(f)
    /\ Windows \subseteq Nat /\ Floors \subseteq Nat
    /\ MaxPasses \in Nat /\ MaxEvents \in Nat /\ MaxCurations \in Nat

VARIABLES
    world,       \* [live, rollouts, outcomes, prior, view]
    table,       \* [rollouts, outcomes]: indices of the rows that landed
    feedback,    \* the Feedback table, oldest insert first
    subject,     \* published events not yet taken
    shown,       \* what a reward join returned in this step
    pass,        \* the write-side pass in progress
    report,      \* the last attribution, until a row lands or the next starts: its inputs, what it made
    used         \* passes and curator rows so far

vars == <<world, table, feedback, subject, shown, pass, report, used>>

Idle == [step |-> "idle"]
NoReport == [rs |-> <<>>, os |-> <<>>, hs |-> {}, known |-> <<>>, full |-> FALSE,
             curves |-> IdentityCurves, active |-> FALSE, rows |-> <<>>, skipped |-> <<>>, base |-> 0]
NotShown == [tenant |-> None, rows |-> <<>>]

(***************************************************************************)
(* The reads, in the order of the rows' ids.                               *)
(***************************************************************************)

Backwards(s) == [k \in DOMAIN s |-> s[Len(s) + 1 - k]]

InWindow(rows, landed, tenant, from) ==
    Picked(rows, {i \in landed : rows[i].tenant = tenant /\ rows[i].wall >= from})

RecentRollouts(tenant, from) ==
    LET rows == InWindow(world.rollouts, table.rollouts, tenant, from)
    IN  [k \in DOMAIN rows |-> ParseRollout(RolloutRow(rows[k]))]

RecentOutcomes(tenant, from) ==
    LET rows == InWindow(world.outcomes, table.outcomes, tenant, from)
    IN  [k \in DOMAIN rows |-> OutcomeRow(rows[k])]

\* Sorted by target only: the rows of one target may come in any order.
RecentFeedback(tenant, newestFirst) ==
    LET rows == Picked(feedback, {k \in DOMAIN feedback : feedback[k].tenant = tenant})
        ordered == IF newestFirst THEN Backwards(rows) ELSE rows
    IN  [k \in DOMAIN ordered |-> ParseFeedback(ordered[k])]

\* A mutant: the floor is applied before the newest row is chosen.
FlooredJoin(tenant, metric, slot, floor) ==
    LET rollouts == InWindow(world.rollouts, table.rollouts, tenant, 0)
        slotRows(r) == {k \in DOMAIN feedback :
                            /\ feedback[k].tenant = tenant /\ feedback[k].rollout = r.id
                            /\ feedback[k].metric = metric /\ feedback[k].slot = slot
                            /\ ~feedback[k].retracted /\ feedback[k].confidence >= floor}
        match(r) == {k \in slotRows(r) : k = Greatest(slotRows(r))}
    IN  [i \in DOMAIN rollouts |-> [rollout |-> rollouts[i].id, match |-> match(rollouts[i])]]

\* One row per landed rollout.  Of its slot the newest row counts that is not
\* retracted, if its confidence reaches the floor.
RewardJoin(tenant, metric, slot, floor) ==
    LET rollouts == InWindow(world.rollouts, table.rollouts, tenant, 0)
        slotRows(r) == {k \in DOMAIN feedback :
                            /\ feedback[k].tenant = tenant /\ feedback[k].rollout = r.id
                            /\ feedback[k].metric = metric /\ feedback[k].slot = slot
                            /\ ~feedback[k].retracted}
        match(r) == {k \in slotRows(r) : k = Greatest(slotRows(r)) /\ feedback[k].confidence >= floor}
    IN  [i \in DOMAIN rollouts |-> [rollout |-> rollouts[i].id, match |-> match(rollouts[i])]]

(***************************************************************************)
(* The environment of the live system.                                     *)
(***************************************************************************)

Publish(event) == subject' \in {subject} \cup (IF Len(subject) < MaxEvents THEN {Append(subject, event)} ELSE {})

\* The gateway appends, then publishes; nothing waits for the publication.
LandRollout ==
    /\ world.live
    /\ \E i \in DOMAIN world.rollouts \ table.rollouts :
          /\ table' = [table EXCEPT !.rollouts = @ \cup {i}]
          /\ Publish(world.rollouts[i].tenant)
    /\ UNCHANGED <<world, feedback, pass, used>>
    /\ shown' = NotShown /\ report' = NoReport

LandOutcome ==
    /\ world.live
    /\ \E i \in DOMAIN world.outcomes \ table.outcomes :
          table' = [table EXCEPT !.outcomes = @ \cup {i}]
    /\ UNCHANGED <<world, feedback, subject, pass, used>>
    /\ shown' = NotShown /\ report' = NoReport

\* A curator's row: a label of its own, or a retracted copy of a row.
Label(r, slot, failure) ==
    [tenant |-> r.tenant, rollout |-> r.id, slot |-> slot, failure |-> failure, metric |-> "reward",
     method |-> "manual", confidence |-> One, weight |-> One, set |-> None, outcome |-> None,
     retracted |-> FALSE, key |-> <<"manual", r.id, slot>>]

CuratorRows ==
    {Label(world.rollouts[i], "terminal_outcome", failure) : i \in table.rollouts, failure \in BOOLEAN}
      \cup {[feedback[k] EXCEPT !.retracted = TRUE] : k \in DOMAIN feedback}

Curate ==
    /\ world.live /\ used.curations < MaxCurations
    /\ \E row \in CuratorRows : feedback' = Append(feedback, FeedbackRow(ParseFeedback(row)))
    /\ used' = [used EXCEPT !.curations = @ + 1]
    /\ UNCHANGED <<world, table, subject, pass, report>>
    /\ shown' = NotShown

(***************************************************************************)
(* The subscribe loop.                                                     *)
(***************************************************************************)

Shows(tenant, metric, slot, floor) ==
    shown' = [tenant |-> tenant, metric |-> metric, slot |-> slot, floor |-> floor,
              landed |-> table.rollouts, length |-> Len(feedback),
              rows |-> RewardJoin(tenant, metric, slot, floor)]

\* An event whose read fails is skipped like one that was read.
ProcessOneEvent ==
    /\ subject # <<>>
    /\ subject' = Tail(subject)
    /\ \/ Shows(Head(subject), "reward", "terminal_outcome", 0)
       \/ shown' = NotShown
    /\ UNCHANGED <<world, table, feedback, pass, report, used>>

\* The same read for a dashboard, of any metric.
Dashboard ==
    /\ world.live /\ pass = Idle
    /\ \E f \in Range(feedback), floor \in Floors : Shows(f.tenant, f.metric, f.slot, floor)
    /\ UNCHANGED <<world, table, feedback, subject, pass, report, used>>

(***************************************************************************)
(* The write-side pass.  Rows land and are appended between its reads.     *)
(***************************************************************************)

\* A curve is in use if one of the inferred rows that were read is of a bucket
\* whose middle score is moved.
FittedCurveIsActive(curves, known, rs) ==
    \E f \in Range(known) :
        /\ f.method \notin Known
        /\ \E i \in DOMAIN rs : /\ rs[i].id = f.rollout
                                 /\ \A j \in DOMAIN rs : rs[j].id = f.rollout => j <= i
                                 /\ Calibrate(curves, f.method, rs[i].embodiment, One \div 2) # One \div 2

Report(curves, known, rs, os, hs, made) ==
    [rs |-> rs, os |-> os, hs |-> hs, known |-> known, curves |-> curves,
     active |-> FittedCurveIsActive(curves, known, rs), rows |-> made.feedbacks, skipped |-> made.skipped,
     full |-> FALSE, base |-> 0]

\* attribute_landed_batch: the heartbeats are outcomes like any other.
AttributeBatch(known, rs, os) ==
    LET Under(curves) == Report(curves, known, rs, os, Heartbeats(os),
                                AttributeWith(curves, rs, os, Heartbeats(os)))
    IN  Under(Fit(known, rs, MinLabels))

ReadRollouts ==
    /\ world.live /\ pass = Idle /\ used.passes < MaxPasses
    /\ \E i \in table.rollouts, from \in Windows :
          LET tenant == world.rollouts[i].tenant IN
          pass' = [step |-> "outcomes", tenant |-> tenant, from |-> from,
                   rs |-> RecentRollouts(tenant, from)]
    /\ used' = [used EXCEPT !.passes = @ + 1]
    /\ UNCHANGED <<world, table, feedback, subject>>
    /\ shown' = NotShown /\ report' = NoReport

\* One row that does not parse fails the pass.
ReadOutcomes ==
    /\ pass.step = "outcomes"
    /\ LET rows == RecentOutcomes(pass.tenant, pass.from)
           os == [k \in DOMAIN rows |-> ParseOutcome(rows[k])]
       IN  pass' = IF \A k \in DOMAIN rows : ParseableOutcome(rows[k])
                   THEN [step |-> "feedback", tenant |-> pass.tenant, from |-> pass.from,
                         rs |-> pass.rs, os |-> os]
                   ELSE Idle
    /\ UNCHANGED <<world, table, feedback, subject, report, used>>
    /\ shown' = NotShown

\* The third read names columns; a server without one of them answers with an
\* error, and the pass ends.
ReadFeedback ==
    /\ pass.step = "feedback"
    /\ \/ /\ Answers(world.view, SelectedFeedback)
          /\ \E newestFirst \in BOOLEAN :
                pass' = [step |-> "insert", tenant |-> pass.tenant, rs |-> pass.rs, from |-> pass.from,
                         made |-> AttributeBatch(RecentFeedback(pass.tenant, newestFirst), pass.rs, pass.os)]
       \/ /\ ~Answers(world.view, SelectedFeedback)
          /\ pass' = Idle
    /\ UNCHANGED <<world, table, feedback, subject, report, used>>
    /\ shown' = NotShown

\* Everything of the tenant that has landed was read.
ReadAll(tenant, rs, os) ==
    /\ rs = RecentRollouts(tenant, 0)
    /\ os = [k \in DOMAIN RecentOutcomes(tenant, 0) |-> ParseOutcome(RecentOutcomes(tenant, 0)[k])]

\* Every append is plain: nothing looks at the keys that are there.
Insert ==
    /\ pass.step = "insert"
    /\ feedback' = feedback \o [k \in DOMAIN pass.made.rows |-> FeedbackRow(pass.made.rows[k])]
    /\ report' = [pass.made EXCEPT !.full = ReadAll(pass.tenant, pass.made.rs, pass.made.os),
                                   !.base = Len(feedback)]
    /\ pass' = Idle
    /\ UNCHANGED <<world, table, subject, used>>
    /\ shown' = NotShown

\* A read or the append fails, or the process dies.
PassFails ==
    /\ pass # Idle
    /\ pass' = Idle
    /\ UNCHANGED <<world, table, feedback, subject, report, used>>
    /\ shown' = NotShown

(***************************************************************************)
(* The library.                                                            *)
(***************************************************************************)

\* The dictionaries of a Python caller have no field for a pose, a frame, a
\* station, an anchor or a parent.
DictToRollout(r) == [r EXCEPT !.pose = None, !.frame = None, !.station = None, !.anchor = None]
DictToOutcome(o) == [o EXCEPT !.pose = None, !.frame = None, !.anchor = None, !.parents = <<>>]

\* attribute: with the calibrator the caller fitted, or without.
RunEngine(known, rs, os, hs) ==
    LET Under(curves) == Report(curves, known, rs, os, hs, AttributeWith(curves, rs, os, hs))
    IN  IF known = <<>> THEN Report(IdentityCurves, known, rs, os, hs, AttributeReport(rs, os, hs))
        ELSE Under(Fit(known, rs, MinLabels))

\* A heartbeat is no outcome here; the records are those of a file, or the
\* caller's dictionaries.
Attribute ==
    /\ ~world.live /\ used.passes < MaxPasses
    /\ \E rs \in {world.rollouts, Backwards(world.rollouts)}, os \in {world.outcomes, Backwards(world.outcomes)},
          dicts \in BOOLEAN :
          LET events == Picked(os, {k \in DOMAIN os : os[k].kind # "heartbeat"})
          IN  report' = IF dicts
                        THEN RunEngine(world.prior, [i \in DOMAIN rs |-> DictToRollout(rs[i])],
                                       [i \in DOMAIN events |-> DictToOutcome(events[i])], Heartbeats(os))
                        ELSE RunEngine(world.prior, rs, events, Heartbeats(os))
    /\ used' = [used EXCEPT !.passes = @ + 1]
    /\ UNCHANGED <<world, table, feedback, subject, pass>>
    /\ shown' = NotShown

Init ==
    /\ world \in Worlds
    /\ table = [rollouts |-> {}, outcomes |-> {}]
    /\ feedback = <<>> /\ subject = <<>>
    /\ shown = NotShown /\ pass = Idle /\ report = NoReport
    /\ used = [passes |-> 0, curations |-> 0]

Next ==
    \/ LandRollout \/ LandOutcome \/ Curate
    \/ ProcessOneEvent \/ Dashboard
    \/ ReadRollouts \/ ReadOutcomes \/ ReadFeedback \/ Insert \/ PassFails
    \/ Attribute

Spec == Init /\ [][Next]_vars

(***************************************************************************)
(* Properties.                                                             *)
(***************************************************************************)

\* Tables, queue and pass have their shapes, within the bounds.
TypeOK ==
    /\ table.rollouts \subseteq DOMAIN world.rollouts /\ table.outcomes \subseteq DOMAIN world.outcomes
    /\ \A f \in Range(feedback) : IsFeedback(f) /\ f.set # None
    /\ Len(subject) <= MaxEvents
    /\ pass.step \in {"idle", "outcomes", "feedback", "insert"}
    /\ used.passes <= MaxPasses /\ used.curations <= MaxCurations

RowsOf(o) == Picked(report.rows, {k \in DOMAIN report.rows : report.rows[k].outcome = o.id})
RolloutOf(f) == report.rs[Least({i \in DOMAIN report.rs : report.rs[i].id = f.rollout})]

\* What each tier takes for evidence that rollout r led to outcome o.
Evidence(r, o, method) ==
    /\ r.tenant = o.tenant
    /\ CASE method = "explicit" -> o.explicit = r.id
         [] method = "temporal" -> r.robot = o.robot /\ r.boot = o.boot /\ r.mono <= o.mono
         [] method = "spatial"  -> r.robot = o.robot /\ r.frame = o.frame /\ None \notin {r.pose, o.pose, r.anchor, o.anchor}
         [] OTHER -> /\ r.robot = o.robot /\ None \notin {r.anchor, o.anchor} /\ Anchored(r) <= Anchored(o)
                     /\ \E e \in Range(o.parents) : e.station = r.station

\* A row never crosses a tenant or a boot the tier cannot compare, one outcome
\* is credited by one tier, never by a guess when it names a rollout of the
\* batch or when one is in its time window, only a row of an outcome that named
\* its rollout is certain enough for a safety verdict, and an outcome without a
\* row has a reason (engine.rs, attribute_one).
EvidenceSupportsBinding ==
    \A k \in DOMAIN report.os :
        LET o == report.os[k]
            methods == {f.method : f \in Range(RowsOf(o))}
            named == \E r \in Range(report.rs) : r.id = o.explicit
            timely == \E r \in Range(report.rs) : InTemporalWindow(r, o)
        IN  /\ \A f \in Range(RowsOf(o)) :
                  /\ Evidence(RolloutOf(f), o, f.method)
                  /\ f.method \in Known <=> named
                  /\ timely /\ ~named => f.method = "temporal"
                  /\ SafetyEligible(f) <=> o.explicit = f.rollout
            /\ Cardinality(methods) <= 1
            /\ IF RowsOf(o) = <<>> THEN report.skipped[k] \in SkipReasons ELSE report.skipped[k] = None

\* The shares of one outcome that was read once add up to the whole, an older
\* rollout of the same embodiment, boot and anchor never gets more than a younger
\* one (up to rounding), and the rows of a split, and only they, are grouped
\* (distribute_credit).
CreditConserved ==
    \A k \in DOMAIN report.os :
        LET o == report.os[k]  rows == RowsOf(o) IN
        rows # <<>> /\ (\A j \in DOMAIN report.os : report.os[j].id = o.id => j = k) =>
            /\ SumSeq([i \in DOMAIN rows |-> rows[i].weight]) = One
            /\ \A i, j \in DOMAIN rows :
                  LET r == RolloutOf(rows[i])  s == RolloutOf(rows[j]) IN
                  r.boot = s.boot /\ r.anchor = s.anchor /\ r.embodiment = s.embodiment /\ r.mono > s.mono
                      => rows[i].weight + Len(rows) >= rows[j].weight
            /\ \A i \in DOMAIN rows : rows[i].confidence = rows[1].confidence
                                      /\ rows[i].set = IF Len(rows) > 1 THEN o.id ELSE None

\* A success made of silence: no failure is credited to the rollout, unless it
\* was recorded twice and the failure was credited to its other copy; and no
\* stretch of its window longer than the gap is without a heartbeat of its own
\* boot (attribute_with, synthesize_absence, covered_fraction).
AbsenceIsProven ==
    \A f \in Range(report.rows) :
        f.method = "synthetic_absence" =>
            LET r == RolloutOf(f)
                beats == {h.mono : h \in {x \in report.hs : SameRobot(r, x) /\ x.boot = r.boot}}
                twice == \E i, j \in DOMAIN report.rs : i # j /\ report.rs[i].id = f.rollout /\ report.rs[j].id = f.rollout
            IN  /\ \/ twice
                   \/ ~ \E g \in Range(report.rows) : g.rollout = f.rollout /\ g.failure
                /\ beats # {}
                /\ \A a, b \in r.mono..(r.mono + DefaultWindow) :
                      b - a > MaxGap => \E t \in beats : a < t /\ t < b

\* A curve is the isotonic regression of its labelled scores: at each score it
\* has the maximum, over the samples that a run of them may begin with, of the
\* minimum, over those it may end with, of the mean truth of the run. A run
\* begins and ends anywhere in the sorted list, so samples with one score are
\* points of their own, in the order the rows were read; where none of them has
\* a wrong guess before a right one, this is the regression of the fractions of
\* each score ("of all temporal bindings that scored ~0.8 [...], what fraction
\* actually turned out correct?"), whose runs begin with the first sample of a
\* score and end with the last of one. A curve is reported in use only if one
\* was learned (FittedCalibrator, isotonic, fitted_curve_is_active).
FitIsIsotonic ==
    /\ report.active => DOMAIN report.curves # {}
    /\ \A b \in DOMAIN report.curves :
           LET samples == SamplesOf(report.known, report.rs, b[1], b[2])
               points == Sorted(samples, DOMAIN samples, ByScore)
               n == Len(points)
               first == {i \in 1..n : \A k \in 1..n : k < i => points[k].x # points[i].x}
               last == {i \in 1..n : \A k \in 1..n : k > i => points[k].x # points[i].x}
               wrongFirst == \E k, l \in 1..n : k < l /\ points[k].x = points[l].x /\ points[k].y < points[l].y
               mean(i, j) == (SumSeq([k \in 1..(j - i + 1) |-> points[i + k - 1].y]) * One) \div (j - i + 1)
               fit(i, begins, ends) ==
                   Greatest({Least({mean(a, c) : c \in {k \in ends : k >= i}}) : a \in {k \in begins : k <= i}})
           IN  \A i \in last :
                   LET fitted == EvalIsotonic(report.curves[b], points[i].x)
                   IN  fitted = fit(i, 1..n, 1..n) /\ (~wrongFirst => fitted = fit(i, first, last))

Slots == {<<f.rollout, f.slot>> : f \in Range(feedback)}
Winner(slot) ==
    WinningBinding(feedback, {k \in DOMAIN feedback :
        feedback[k].rollout = slot[1] /\ feedback[k].slot = slot[2] /\ feedback[k].tenant = report.rs[1].tenant})

\* After a pass that read everything of a tenant, the row that counts of each
\* slot is a curator's or this pass's own, whatever landed in whatever order
\* and was attributed before, with two exceptions: the guess made for an
\* outcome before the rollout it names had landed, and the success made of
\* silence before an intervention landed.
PassSettles ==
    report.full /\ report.rs # <<>> =>
        \A slot \in Slots :
            LET k == Winner(slot)  f == feedback[k] IN
            \/ k = None
            \/ f.method = "manual" \/ k > report.base
            \/ f.method = "temporal" /\ \E o \in Range(report.os) : o.id = f.outcome /\ o.explicit # None
            \/ f.method = "synthetic_absence"
               /\ \E g \in Range(report.rows) : g.rollout = f.rollout /\ g.slot = "intervention"

\* The reward join returns every rollout that has landed once, and what it
\* attaches is the newest word on the slot that was not retracted, never an
\* older one that passes the floor (reward_join: the floor is in the ON clause).
JoinKeepsEveryRollout ==
    shown # NotShown =>
        LET before == SubSeq(feedback, 1, shown.length)
            mine == {i \in shown.landed : world.rollouts[i].tenant = shown.tenant}
            about(r) == {k \in DOMAIN before : /\ before[k].rollout = r /\ before[k].metric = shown.metric
                                               /\ before[k].slot = shown.slot /\ before[k].tenant = shown.tenant}
        IN  /\ Len(shown.rows) = Cardinality(mine)
            /\ {x.rollout : x \in Range(shown.rows)} = {world.rollouts[i].id : i \in mine}
            /\ \A x \in Range(shown.rows) :
                  \/ \E k \in about(x.rollout) :
                        /\ x.match = {k} /\ before[k].confidence >= shown.floor
                        /\ \A j \in about(x.rollout) : j > k => before[j].retracted
                  \/ /\ x.match = {}
                     /\ \/ \A k \in about(x.rollout) : before[k].retracted
                        \/ \E k \in about(x.rollout) : ~before[k].retracted /\ before[k].confidence < shown.floor
=============================================================================
