---------------------------- MODULE Attribution ----------------------------
(***************************************************************************)
(* The attribution engine of fieldloop-join: which rollout an outcome is   *)
(* credited to, by which tier, with which confidence and share, and when   *)
(* the absence of an outcome counts as a success.  It holds no state: the  *)
(* operators are the functions of engine.rs, confidence.rs and             *)
(* calibrator.rs, over a batch of rollouts and outcomes.                   *)
(*                                                                         *)
(* Times, distances and lags are small integers; a score, a confidence and *)
(* a share of credit are integers in thousandths (One is the whole).  The  *)
(* exponential of the recency kernel is a table of thousandths.            *)
(***************************************************************************)
EXTENDS Feedback, Lists

CONSTANTS
    WindowOf,        \* configured windows: <<embodiment, kind>> -> [width, colocated]
    DefaultWindow,   \* calibration.temporal_window_default_ms
    HeartbeatPeriod, \* AttributeOptions.heartbeat_period, 0 when it is not set
    GapFactor,       \* calibration.heartbeat_coverage_k
    JoinVersion      \* AttributeOptions.join_version

ASSUME WindowAssumption ==
    /\ DefaultWindow \in Nat /\ HeartbeatPeriod \in Nat /\ GapFactor \in Nat
    /\ \A k \in DOMAIN WindowOf : WindowOf[k].width \in Nat /\ WindowOf[k].colocated \in BOOLEAN

\* What is not said of a rollout or an outcome is absent.
Rollout(id, boot, mono) ==
    [id |-> id, robot |-> "bot", tenant |-> "a", boot |-> boot, mono |-> mono, wall |-> mono,
     embodiment |-> "arm", pose |-> None, frame |-> None, station |-> None, anchor |-> None]
OutcomeEvent(id, kind, boot, mono) ==
    [id |-> id, robot |-> "bot", tenant |-> "a", boot |-> boot, mono |-> mono, wall |-> mono, kind |-> kind,
     explicit |-> None, pose |-> None, frame |-> None, anchor |-> None, parents |-> <<>>]

\* A field that may be absent.
May(x, S) == x = None \/ x \in S

IsRollout(r) ==
    /\ DOMAIN r = DOMAIN Rollout(r.id, r.boot, r.mono)
    /\ r.id \in Nat /\ r.mono \in Nat /\ r.wall \in Nat
    /\ May(r.anchor, Nat) /\ May(r.pose, Int)
IsOutcome(o) ==
    /\ DOMAIN o = DOMAIN OutcomeEvent(o.id, o.kind, o.boot, o.mono)
    /\ o.id # None /\ o.mono \in Nat /\ o.wall \in Nat
    /\ May(o.anchor, Nat) /\ May(o.pose, Int)
    /\ IsList(o.parents) /\ \A e \in Range(o.parents) : May(e.lag, Nat)

Edge(station, lag) == [station |-> station, lag |-> lag]

Failures == {"teleop_takeover", "e_stop", "collision", "downstream_failure"}
Kinds == Failures \cup {"heartbeat"}

SpatialEpsilon == 2        \* 0.5 m, in units of distance
SpatialTimeBound == 6      \* 5 min, in units of time
SpatialCeiling == 600
CausalDefaultLag == 3      \* 30 s, in units of time
CausalCeiling == 300

Least(S) == CHOOSE x \in S : \A y \in S : x <= y
Greatest(S) == CHOOSE x \in S : \A y \in S : x >= y
Indices(S) == Picked([i \in S |-> i], S)

\* What the first elements of s add up to.
Totals(s) ==
    LET total[k \in 0..Len(s)] == IF k = 0 THEN 0 ELSE total[k - 1] + s[k]
    IN  total
SumSeq(s) == Totals(s)[Len(s)]

\* A mutant: the boots are not compared.
AnyBootDelta(earlier, later) == later.mono - earlier.mono

\* The time from one event to another, within one boot.
MonoDelta(earlier, later) == IF earlier.boot = later.boot THEN later.mono - earlier.mono ELSE None

\* The samples of liveness among the outcomes.
Heartbeats(os) ==
    {[robot |-> o.robot, tenant |-> o.tenant, boot |-> o.boot, mono |-> o.mono] :
        o \in {x \in Range(os) : x.kind = "heartbeat"}}

(***************************************************************************)
(* Calibration.  A curve is a sequence of [left, mean] blocks; curves maps *)
(* the learned <<method, embodiment>> buckets to theirs.                   *)
(***************************************************************************)

TemporalRawScore(delay, window) ==
    CASE delay < 0 -> 0
      [] window <= 0 -> IF delay = 0 THEN One ELSE 0
      [] delay >= window -> 0
      [] OTHER -> One - (One * delay) \div window

EvalIsotonic(curve, x) ==
    LET below == {i \in DOMAIN curve : \A j \in 1..i : curve[j].left <= x}
    IN  IF curve = <<>> THEN x
        ELSE curve[IF below = {} THEN 1 ELSE Greatest(below)].mean

\* Clamped to [0, 1] before and after, whichever calibrator is in use.
Calibrate(curves, method, embodiment, raw) ==
    LET score == Clamp(raw, 0, One)
        calibrated == CASE method \in Known -> One
                        [] method \notin Known /\ <<method, embodiment>> \in DOMAIN curves ->
                              EvalIsotonic(curves[<<method, embodiment>>], score)
                        [] OTHER -> score
    IN  Clamp(calibrated, 0, One)

ByScore(p, q) == p.x < q.x

\* A mutant: the sums are compared, not the means.
GreaterSum(bs) == LET n == Len(bs) IN n >= 2 /\ bs[n-1].sum > bs[n].sum

\* The mean of the last block is smaller than that of the one before it.
Violates(bs) == LET n == Len(bs) IN n >= 2 /\ bs[n-1].sum * bs[n].count > bs[n].sum * bs[n-1].count

Merged(bs) ==
    LET n == Len(bs)
    IN  Append(SubSeq(bs, 1, n - 2), [sum   |-> bs[n-1].sum + bs[n].sum,
                                      count |-> bs[n-1].count + bs[n].count,
                                      left  |-> bs[n-1].left])

\* One turn of the two loops: a violation is merged before a point is taken.
Turn(state, points) ==
    CASE Violates(state.blocks) -> [state EXCEPT !.blocks = Merged(@)]
      [] ~Violates(state.blocks) /\ state.taken < Len(points) ->
            LET p == points[state.taken + 1]
            IN  [blocks |-> Append(state.blocks, [sum |-> p.y, count |-> 1, left |-> p.x]), taken |-> state.taken + 1]
      [] OTHER -> state

\* Pool adjacent violators: every point is taken once and merged at most once.
Isotonic(points) ==
    LET sorted == Sorted(points, DOMAIN points, ByScore)
        turns == 2 * Len(points)
        run[k \in 0..turns] == IF k = 0 THEN [blocks |-> <<>>, taken |-> 0] ELSE Turn(run[k - 1], sorted)
        blocks == run[turns].blocks
    IN  [i \in DOMAIN blocks |-> [left |-> blocks[i].left,
                                  mean |-> (blocks[i].sum * One) \div blocks[i].count]]

\* The manual, not retracted rows are the truth of their rollout; the last one
\* read counts.
Truth(feedback, rollout) ==
    LET labels == {k \in DOMAIN feedback : LET f == feedback[k] IN f.method = "manual" /\ ~f.retracted /\ f.rollout = rollout}
    IN  IF labels = {} THEN None ELSE feedback[Greatest(labels)].failure

\* An inferred row is a sample once it is retracted or a truth judges it.
SampleOf(feedback, f) ==
    [x |-> f.confidence, y |-> IF ~f.retracted /\ f.failure = Truth(feedback, f.rollout) THEN 1 ELSE 0]

SamplesOf(feedback, rollouts, method, embodiment) ==
    LET judged(f) == /\ f.method = method
                     /\ \E i \in DOMAIN rollouts : /\ rollouts[i].id = f.rollout
                                                  /\ rollouts[i].embodiment = embodiment
                     /\ f.retracted \/ Truth(feedback, f.rollout) # None
        rows == Picked(feedback, {k \in DOMAIN feedback : judged(feedback[k])})
    IN  [i \in DOMAIN rows |-> SampleOf(feedback, rows[i])]

Fit(feedback, rollouts, minLabels) ==
    LET buckets == (Methods \ Known) \X {rollouts[i].embodiment : i \in DOMAIN rollouts}
        learned == {b \in buckets : LET s == SamplesOf(feedback, rollouts, b[1], b[2])
                                    IN  s # <<>> /\ Len(s) >= minLabels}
    IN  [b \in learned |-> Isotonic(SamplesOf(feedback, rollouts, b[1], b[2]))]

IdentityCurves == [b \in {} |-> <<>>]

(***************************************************************************)
(* A binding.                                                              *)
(***************************************************************************)

\* takeover and e-stop are interventions, the rest is the terminal outcome.
LabelKindOf(kind) == IF kind \in {"teleop_takeover", "e_stop"} THEN "intervention" ELSE "terminal_outcome"

BoundDedupKey(o, r, method) ==
    <<"bound", o.id, r.id, r.boot, r.mono, o.mono, JoinVersion, method>>

AbsenceDedupKey(r, maxGap) == <<"absence", None, r.id, r.boot, r.mono, maxGap, JoinVersion, "synthetic_absence">>

\* The row without its id: every append mints a fresh one.
BuildFeedback(o, r, method, confidence, weight, setId) ==
    [tenant |-> o.tenant, rollout |-> r.id, slot |-> LabelKindOf(o.kind), failure |-> o.kind \in Failures,
     metric |-> o.kind, method |-> method, confidence |-> confidence, weight |-> weight, set |-> setId,
     outcome |-> o.id, retracted |-> FALSE, key |-> BoundDedupKey(o, r, method)]

\* exp(-3 * delta / window) in thousandths, in twelve steps.
Kernel == <<1000, 779, 607, 472, 368, 287, 223, 174, 135, 105, 82, 64, 50>>
Recency(delta, window) ==
    IF window <= 0 THEN (IF delta = 0 THEN One ELSE 0)
    ELSE Kernel[(12 * delta) \div window + 1]

\* A mutant: every share is rounded, the last one too.
RoundedCreditWeights(raws) ==
    [i \in DOMAIN raws |-> IF SumSeq(raws) > 0 THEN (raws[i] * One) \div SumSeq(raws) ELSE One \div Len(raws)]

\* Every share but the last is its fraction of the sum, rounded; the last is
\* what is left, so that the shares add up to the whole.
ConservedCreditWeights(raws) ==
    LET n == Len(raws)
        sum == SumSeq(raws)
        share == [i \in 1..n |-> IF sum > 0 THEN (raws[i] * One) \div sum ELSE One \div n]
    IN  [i \in 1..n |-> IF i < n THEN share[i] ELSE One - Totals(share)[n - 1]]

\* cands: a sequence of [r, delta, window, raw]; the nearest one sets the
\* confidence of them all.
Distribute(curves, o, cands, method, ceiling) ==
    LET nearest == Least({i \in DOMAIN cands : \A j \in DOMAIN cands : cands[i].delta <= cands[j].delta})
        total(c) == Clamp(Calibrate(curves, method, c.r.embodiment, c.raw), 0, ceiling)
        Rows(confidence, weights) ==
            [i \in DOMAIN cands |-> BuildFeedback(o, cands[i].r, method, confidence, weights[i],
                                                  IF Len(cands) > 1 THEN o.id ELSE None)]
    IN  Rows(total(cands[nearest]),
             ConservedCreditWeights([i \in DOMAIN cands |-> Recency(cands[i].delta, cands[i].window)]))

(***************************************************************************)
(* The four tiers.                                                         *)
(***************************************************************************)

SameRobot(r, o) == r.robot = o.robot /\ r.tenant = o.tenant

ResolveWindow(embodiment, kind) ==
    CASE <<embodiment, kind>> \in DOMAIN WindowOf -> WindowOf[<<embodiment, kind>>]
      [] <<embodiment, kind>> \notin DOMAIN WindowOf /\ kind = "collision" -> None
      [] OTHER -> [width |-> DefaultWindow, colocated |-> FALSE]

\* Why an outcome was not bound; the engine never gives "NoWindowConfigured".
SkipReasons == {"CrossTenant", "NoCandidateInWindow", "NoWindowConfigured", "AmbiguousMonotonicColocation",
                "HeartbeatSample", "NoSpatialOrCausalCandidate"}

\* at: which rollouts of the batch the rows credit.
Bound(rows, at) == [rows |-> rows, at |-> at, skip |-> None]
Skip(reason) == [rows |-> <<>>, at |-> <<>>, skip |-> reason]

ExplicitTargets(rs, o) == {i \in DOMAIN rs : o.explicit # None /\ rs[i].id = o.explicit}

ExplicitAttribute(curves, rs, o) ==
    LET r == rs[Least(ExplicitTargets(rs, o))]
    IN  IF r.tenant # o.tenant THEN Skip("CrossTenant")
        ELSE Bound(<<BuildFeedback(o, r, "explicit", Calibrate(curves, "explicit", r.embodiment, One), One, None)>>,
                   <<Least(ExplicitTargets(rs, o))>>)

InTemporalWindow(r, o) ==
    LET w == ResolveWindow(r.embodiment, o.kind)
    IN  /\ SameRobot(r, o)
        /\ w # None
        /\ MonoDelta(r, o) # None
        /\ MonoDelta(r, o) \in 0..(w.width - 1)

\* The skips by rank: another tenant's robot of that id, then a tight timing
\* kind whose rollout is from another boot, then nothing in the window.
TemporalSkip(rs, o) ==
    LET ambiguous(r) == /\ SameRobot(r, o) /\ MonoDelta(r, o) = None
                        /\ LET w == ResolveWindow(r.embodiment, o.kind) IN w # None /\ w.colocated
    IN  CASE \E i \in DOMAIN rs : rs[i].robot = o.robot /\ rs[i].tenant # o.tenant -> "CrossTenant"
          [] \E i \in DOMAIN rs : ambiguous(rs[i]) -> "AmbiguousMonotonicColocation"
          [] OTHER -> "NoCandidateInWindow"

TemporalAttribute(curves, rs, o) ==
    LET width(r) == ResolveWindow(r.embodiment, o.kind).width
        candidate(r) == [r |-> r, delta |-> MonoDelta(r, o), window |-> width(r),
                         raw |-> TemporalRawScore(MonoDelta(r, o), width(r))]
        Credit(near) == IF near = <<>> THEN Skip(TemporalSkip(rs, o))
                        ELSE Bound(Distribute(curves, o, [k \in DOMAIN near |-> candidate(rs[near[k]])], "temporal", One), near)
    IN  Credit(Indices({i \in DOMAIN rs : InTemporalWindow(rs[i], o)}))

\* The server's time of an event, when the gateway anchored its boot.
Anchored(x) == x.anchor + x.mono

Colocated(r, o) ==
    /\ SameRobot(r, o)
    /\ r.pose # None /\ r.frame = o.frame
    /\ Abs(r.pose - o.pose) <= SpatialEpsilon
    /\ r.anchor # None /\ Abs(Anchored(o) - Anchored(r)) <= SpatialTimeBound

SpatialAttribute(curves, rs, o) ==
    LET closer(r, s) == \/ Abs(r.pose - o.pose) < Abs(s.pose - o.pose)
                        \/ Abs(r.pose - o.pose) = Abs(s.pose - o.pose) /\ r.id <= s.id
        raw(r) == ((SpatialEpsilon - Abs(r.pose - o.pose)) * SpatialCeiling) \div SpatialEpsilon
        Credit(r) == BuildFeedback(o, r, "spatial",
                         Clamp(Calibrate(curves, "spatial", r.embodiment, raw(r)), 0, SpatialCeiling), One, None)
        Best(near) == Least({i \in near : \A j \in near : closer(rs[i], rs[j])})
        Nearest(near) == IF near = {} THEN Bound(<<>>, <<>>)
                         ELSE Bound(<<Credit(rs[Best(near)])>>, <<Best(near)>>)
    IN  IF None \in {o.pose, o.frame, o.anchor} THEN Bound(<<>>, <<>>)
        ELSE Nearest({i \in DOMAIN rs : Colocated(rs[i], o)})

LagOf(edge) == IF edge.lag = None THEN CausalDefaultLag ELSE edge.lag

Upstream(r, o, edge) ==
    /\ edge.station # None /\ r.station = edge.station
    /\ SameRobot(r, o)
    /\ r.anchor # None /\ Anchored(o) - Anchored(r) \in 0..LagOf(edge)

\* Candidates in the order of the edges; a rollout two edges reach counts once.
CausalAttribute(curves, rs, o) ==
    LET edges(i) == {e \in DOMAIN o.parents : Upstream(rs[i], o, o.parents[e])}
        order(reached) == Arranged([i \in reached |-> i], reached,
                              Stable(reached, {p \in reached \X reached : Least(edges(p[1])) < Least(edges(p[2]))}))
        candidate(r, delta, maxLag) ==
            [r |-> r, delta |-> delta, window |-> maxLag,
             raw |-> IF maxLag > 0 THEN ((maxLag - delta) * CausalCeiling) \div maxLag ELSE CausalCeiling]
        Credit(near, maxLag) ==
            IF near = <<>> THEN Bound(<<>>, <<>>)
            ELSE Bound(Distribute(curves, o,
                    [k \in DOMAIN near |-> candidate(rs[near[k]], Anchored(o) - Anchored(rs[near[k]]), maxLag)],
                    "causal", CausalCeiling), near)
    IN  IF o.parents = <<>> \/ o.anchor = None THEN Bound(<<>>, <<>>)
        ELSE Credit(order({i \in DOMAIN rs : edges(i) # {}}),
                    Greatest({LagOf(o.parents[e]) : e \in DOMAIN o.parents}))

\* Explicit, then temporal, then spatial, then causal: a weaker tier runs only
\* when the stronger ones found nothing, and never after a cross-tenant skip.
Cascade(o, temporal, spatial, causal) ==
    CASE temporal.skip \in {None, "CrossTenant"} -> temporal
      [] OTHER -> IF spatial.rows # <<>> THEN spatial
                  ELSE IF causal.rows # <<>> THEN causal
                  ELSE IF o.pose # None \/ o.parents # <<>> THEN Skip("NoSpatialOrCausalCandidate")
                  ELSE temporal

AttributeOne(curves, rs, o) ==
    CASE o.kind = "heartbeat" -> Skip("HeartbeatSample")
      [] o.kind # "heartbeat" /\ ExplicitTargets(rs, o) # {} -> ExplicitAttribute(curves, rs, o)
      [] OTHER -> Cascade(o, TemporalAttribute(curves, rs, o), SpatialAttribute(curves, rs, o),
                          CausalAttribute(curves, rs, o))

(***************************************************************************)
(* Synthesized absence: a rollout no failure was credited to, whose window *)
(* the heartbeats of its boot cover.                                       *)
(***************************************************************************)

MaxGap == HeartbeatPeriod * GapFactor

\* The part of the window whose neighbouring stamps (its two ends included)
\* are no further apart than the gap, in thousandths: a unit of time counts
\* with the stamps around it.
CoveredFraction(start, end, stamps, maxGap) ==
    LET points == {start, end} \cup {Clamp(s, start, end) : s \in stamps}
        gap(t) == Least({q \in points : q > t}) - Greatest({p \in points : p <= t})
        covered == {t \in start..(end - 1) : gap(t) <= maxGap}
    IN  IF end <= start THEN 0 ELSE (Cardinality(covered) * One) \div (end - start)

\* A mutant: the heartbeats of every boot.
StampsOfRobot(hs, r) == {h.mono : h \in {x \in hs : SameRobot(r, x)}}

StampsFor(hs, r) == {h.mono : h \in {x \in hs : SameRobot(r, x) /\ x.boot = r.boot}}

Synthesize(curves, hs, r) ==
    LET covered == CoveredFraction(r.mono, r.mono + DefaultWindow, StampsFor(hs, r), MaxGap)
    IN  IF DefaultWindow <= 0 \/ StampsFor(hs, r) = {} \/ MaxGap <= 0 \/ covered < One THEN <<>>
        ELSE <<[tenant |-> r.tenant, rollout |-> r.id, slot |-> "terminal_outcome", failure |-> FALSE,
                metric |-> "task_success", method |-> "synthetic_absence",
                confidence |-> Calibrate(curves, "synthetic_absence", r.embodiment, covered),
                weight |-> One, set |-> None, outcome |-> None, retracted |-> FALSE,
                key |-> AbsenceDedupKey(r, MaxGap)]>>

\* Which rollouts were credited with a failure is kept by position in the batch,
\* not by id.
Assembled(curves, rs, os, hs, one) ==
    LET failed == UNION {Range(one[k].at) : k \in {j \in DOMAIN os : os[j].kind \in Failures}}
        absence(i) == IF HeartbeatPeriod > 0 /\ i \notin failed THEN Synthesize(curves, hs, rs[i]) ELSE <<>>
    IN  [feedbacks |-> Flattened([k \in DOMAIN os |-> one[k].rows]) \o Flattened([i \in DOMAIN rs |-> absence(i)]),
         skipped   |-> [k \in DOMAIN os |-> one[k].skip]]

\* rs, os: the batch, in the caller's order; hs: its heartbeats.  The rows of
\* the outcomes first, in order, then the absences.
AttributeWith(curves, rs, os, hs) ==
    Assembled(curves, rs, os, hs, [i \in DOMAIN os |-> AttributeOne(curves, rs, os[i])])

AttributeReport(rs, os, hs) == AttributeWith(IdentityCurves, rs, os, hs)
=============================================================================
