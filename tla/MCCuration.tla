----------------------------- MODULE MCCuration -----------------------------
EXTENDS Curation

Rollout(id, episode, step, policy, synthetic, confidence) ==
    [id |-> id, tenant |-> "t", observation |-> "key", action |-> None, episode |-> episode, step |-> step, policy |-> policy, task |-> "t", site |-> "s",
     synthetic |-> synthetic, confidence |-> confidence]

\* Two steps of one episode, the later one with the smaller id, and a synthetic
\* one; no tag, a low one and one that is not a number.
R1 == Rollout(1, "e1", 2, "p1", FALSE, 100)
R2 == Rollout(2, "e1", 1, "p1", FALSE, NaN)
R3 == Rollout(3, "e2", 1, "p2", TRUE, 200)
MCInputs == {<<R1, R2, R3, R1>>}

Outcome(id, kind, rollout) == [id |-> id, kind |-> kind, explicit |-> rollout]
MCBatches == {[rollouts |-> <<R1, R2, R3>>, outcomes |-> <<Outcome("o1", "e_stop", 3), Outcome("o2", "heartbeat", 1)>>],
              [rollouts |-> <<R3, R2, R1>>, outcomes |-> <<Outcome("o3", "collision", 1), Outcome("o4", "downstream_failure", 1)>>]}
MCFlags == {Learned(2, "o1", 700, 1) \o Learned(2, None, 400, 1) \o <<Event(1, None, "curator", "learned_b", Human, "operator", 900),
                                                                 Event(3, None, "sample", "learned_b", RandomSample, "operator", 100)>>}
MCBudget == [requests |-> 2, bytes |-> 30]

MCSpecs == {[grain |-> "rollout", site |-> "s"],
            [grain |-> "episode", class |-> "manipulation", site |-> "s", to |-> 5, floor |-> 300, synthetic |-> TRUE]}

AutoRow(rollout, class, confidence, ts) ==
    [rollout |-> rollout, class |-> class, method |-> "temporal", confidence |-> confidence, retracted |-> FALSE, ts |-> ts, key |-> 0]
MCAutoRows == {AutoRow(1, "manipulation", 900, 3), AutoRow(1, "success", 400, 6), AutoRow(2, "manipulation", 900, 4),
               AutoRow(3, "manipulation", 500, 5)}
=============================================================================
