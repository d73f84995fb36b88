------------------------------ MODULE MCIntake ------------------------------
EXTENDS Intake

MCFold == [arm |-> "arm", ARM |-> "arm", reach |-> "reach", fieldloop_x |-> "fieldloop_x", Fieldloop_x |-> "fieldloop_x"]

Window(ms, colocated) == [ms |-> ms, colocated |-> colocated]
Embodiment(attribution) == [space |-> "joint_position", attribution |-> attribution]
Arm == Embodiment([collision |-> Window(200, TRUE), teleop_takeover |-> Window(2000, FALSE)])
Float == [level |-> "episode", kind |-> "float", optimize |-> "max"]
Flag == [level |-> "episode", kind |-> "boolean", optimize |-> Unset]
Grasp == [kind |-> "downstream_failure", class |-> "manipulation", severity |-> "standard", window |-> 300]

Good == [embodiments |-> [arm |-> Arm], metrics |-> [reach |-> Float], labels |-> [reach |-> Grasp],
         calibration |-> [version |-> "v1", window |-> 0]]

\* One text that is right and one of each kind that is refused; a metric
\* name that is reserved once it is in lower case is not.
MCTexts == {
    Good,
    [Good EXCEPT !.metrics = [Fieldloop_x |-> Flag], !.labels.reach.window = Unset],
    [Good EXCEPT !.embodiments = [arm |-> Arm, ARM |-> Embodiment([collision |-> Window(900, TRUE)])]],
    [Good EXCEPT !.embodiments = [arm |-> Arm, ARM |-> Embodiment([bump |-> Window(1, FALSE), collision |-> Window(1, FALSE)])]],
    [Good EXCEPT !.metrics = [fieldloop_x |-> Flag, reach |-> [Float EXCEPT !.optimize = Unset]]],
    [Good EXCEPT !.labels = [reach |-> [Grasp EXCEPT !.window = 0], arm |-> Grasp], !.calibration.version = ""],
    [Good EXCEPT !.labels = [reach |-> [Grasp EXCEPT !.class = "slipping"]]]}

Mapping(decisions, outcomes, source, embodiment, boot) ==
    [decisions |-> decisions, outcomes |-> outcomes, source |-> source, embodiment |-> embodiment,
     policy |-> "p1", boot |-> boot, episode |-> "episode"]
Stop == [topic |-> "stop", role |-> "Collision"]
Beat == [topic |-> "beat", role |-> "Heartbeat"]
MCMappings == {
    Mapping(<<"act">>, <<Stop, Beat>>, "LogTime", "ARM", "boot"),
    Mapping(<<"act">>, <<Stop>>, "PublishTime", "arm", "boot"),
    Mapping(<<"act">>, <<Stop>>, "PublishTime", "reach", NotUuid),
    Mapping(<<"act", "stop">>, <<Stop>>, "LogTime", "arm", "boot")}

Message(topic, log, publish) == [topic |-> topic, log |-> log, publish |-> publish]
MCMessages == {Message("act", 5, 0), Message("act", 5, 8), Message("act", 4, 3), Message("stop", 6, 5), Message("beat", 6, 1)}

\* Each version as its SDK sends it, one that is newer than the build, one that
\* declares another version than it has; policies with every floor, a band
\* that overflows, and a current version this build does not produce.
Envelope(version, clock, offset) == [version |-> version, clock |-> clock, offset |-> offset]
V1 == Envelope(1, None, None)
V2 == Envelope(2, "clock", None)
V3 == Envelope(3, "clock", "offset")
Policy(min, current, band) == [min |-> min, current |-> current, band |-> band]
MCCalls ==
    {[declared |-> env.version, env |-> env, policy |-> policy] : env \in {V1, V2, V3}, policy \in {Policy(1, 3, 1), Policy(2, 3, 0), Policy(1, 3, 7)}}
    \cup {[declared |-> 3, env |-> V1, policy |-> Policy(1, 3, 1)], [declared |-> 4, env |-> V3, policy |-> Policy(0, 4, 1)],
          [declared |-> 0, env |-> Envelope(0, None, None), policy |-> Policy(0, 4, 1)]}
=============================================================================
