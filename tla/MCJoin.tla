------------------------------- MODULE MCJoin -------------------------------
EXTENDS Join

\* Every boot is anchored, unless it is said that it is not.
Decision(id, boot, mono) == [Rollout(id, boot, mono) EXCEPT !.anchor = 10]
Outcome(id, kind, boot, mono) == [OutcomeEvent(id, kind, boot, mono) EXCEPT !.anchor = 10]

\* The view of a live system has every column the reads name, or those the
\* migrations give it.
Live(rollouts, outcomes) ==
    [live |-> TRUE, rollouts |-> rollouts, outcomes |-> outcomes, prior |-> <<>>, view |-> Tables.Feedback]
Migrated(w) == [w EXCEPT !.view = M0005FeedbackByTargetId]
Call(rollouts, outcomes, prior) ==
    [live |-> FALSE, rollouts |-> rollouts, outcomes |-> outcomes, prior |-> prior, view |-> {}]

MCWindowOf == [k \in {<<"arm", "e_stop">>, <<"arm", "collision">>} |->
                  [width |-> IF k[2] = "e_stop" THEN 3 ELSE 5, colocated |-> k[2] = "e_stop"]]

\* Two rollouts in the window of a takeover that may name the older one; one
\* of the rollouts may have landed twice.
Split == Live(<<Decision(1, "b1", 1), Decision(2, "b1", 3)>>,
              <<Outcome("o1", "teleop_takeover", "b1", 4)>>)
Named == Live(<<Decision(1, "b1", 1), Decision(2, "b1", 3)>>,
              <<[Outcome("o1", "collision", "b1", 4) EXCEPT !.explicit = 1]>>)
Twice == Live(<<Decision(1, "b1", 1), Decision(1, "b1", 1)>>,
              <<Outcome("o1", "downstream_failure", "b1", 2)>>)
\* A failure that landed twice.
Again == Live(<<Decision(1, "b1", 1)>>, <<Outcome("o1", "collision", "b1", 2), Outcome("o1", "collision", "b1", 2)>>)
\* Two failures after one rollout, the second one further away.
Repeat == Live(<<Decision(1, "b1", 1)>>, <<Outcome("o1", "collision", "b1", 2), Outcome("o2", "collision", "b1", 4)>>)
\* Silence under heartbeats, then an intervention or a failure.
Quiet(kind) == Live(<<Decision(1, "b1", 1)>>,
                    <<Outcome("h1", "heartbeat", "b1", 3), Outcome("o1", kind, "b1", 4)>>)
\* A rollout that was recorded twice, named by a failure, under heartbeats.
Doubled == Live(<<Decision(1, "b1", 1), Decision(1, "b1", 1)>>,
                <<Outcome("h1", "heartbeat", "b1", 3), [Outcome("o1", "collision", "b1", 4) EXCEPT !.explicit = 1]>>)
\* A robot of the same name of another tenant, another boot, and an outcome of
\* a kind this version does not know.
Mixed == Live(<<Decision(1, "b1", 1), [Decision(2, "b1", 2) EXCEPT !.tenant = "b"]>>,
              <<Outcome("o1", "collision", "b1", 3), [Outcome("o2", "e_stop", "b1", 3) EXCEPT !.tenant = "b"]>>)
Poison == Live(<<Decision(1, "b1", 1)>>,
               <<Outcome("o1", "e_stop", "b1", 2), Outcome("o2", "arson", "b1", 2)>>)

\* Calls: three rollouts near an outcome in time, another boot, in space, down
\* a line; equal times; heartbeats with a hole.
Times == {Call(<<Decision(1, "b1", t[1]), Decision(2, "b1", t[2]), Decision(3, b, 3)>>,
               <<[Outcome("o1", kind, "b1", 4) EXCEPT !.explicit = named, !.tenant = owner]>>, <<>>) :
              t \in (1..4) \X (1..5), b \in {"b1", "b2"}, kind \in {"e_stop", "collision"},
              named \in {None, 2}, owner \in {"a", "b"}}
Places == {Call(<<[Decision(1, "b2", 1) EXCEPT !.pose = p[1], !.frame = "map", !.anchor = a],
                  [Decision(2, "b2", 2) EXCEPT !.pose = p[2], !.frame = "map"]>>,
                <<[Outcome("o1", "collision", "b1", 3) EXCEPT !.pose = 5, !.frame = f]>>, <<>>) :
              p \in ({4, 5, 7, 9} \X {3, 6, None}), a \in {10, 1, None}, f \in {"map", None}}
Lines == {Call(<<[Decision(1, "b2", m) EXCEPT !.station = "pick"], [Decision(2, "b3", 2) EXCEPT !.station = s]>>,
               <<[Outcome("o1", "downstream_failure", "b1", 4) EXCEPT
                     !.parents = <<Edge("pick", lag), Edge("pack", None)>>]>>, <<>>) :
              m \in 0..5, s \in {"pick", "pack"}, lag \in {0, 2, None}}
Beats == {Call(<<Decision(1, "b1", 1)>>,
               <<Outcome("h1", "heartbeat", "b1", h[1]), Outcome("h2", "heartbeat", b, h[2]),
                 [Outcome("o1", "e_stop", "b1", 3) EXCEPT !.tenant = owner]>>, <<>>) :
              h \in (0..6) \X (0..6), b \in {"b1", "b2"}, owner \in {"a", "b"}}

\* Prior labels: inferred rows of a bucket, judged by a curator or retracted.
Guess(x, wrong) == [Label(Decision(1, "b1", 1), "terminal_outcome", TRUE) EXCEPT
                       !.method = "temporal", !.confidence = x, !.retracted = wrong]
Truths == <<Label(Decision(1, "b1", 1), "terminal_outcome", TRUE)>>
Labels == {Call(<<Decision(1, "b1", 1)>>, <<Outcome("o1", "collision", "b1", 3)>>,
                Truths \o [i \in DOMAIN xs |-> Guess(xs[i], ws[i])]) :
              xs \in [1..4 -> {200, 500, 800}], ws \in [1..4 -> BOOLEAN]}

MCWorlds == {Split, Named, Twice, Again, Repeat, Quiet("teleop_takeover"), Quiet("collision"), Doubled, Mixed, Poison, Migrated(Repeat)}
                \cup Times \cup Places \cup Lines \cup Beats \cup Labels
=============================================================================
