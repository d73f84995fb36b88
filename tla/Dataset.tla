------------------------------ MODULE Dataset -------------------------------
(***************************************************************************)
(* fieldloop-curation: a slice pins the rollouts of a query with the row   *)
(* that counts of each, a commit is named after what it pins, the lineage  *)
(* store links episodes and policies through commits, and a commit is      *)
(* exported from the rows it names.                                        *)
(*                                                                         *)
(* The content hash is the pinned set itself: collisions of the 64-bit     *)
(* hash are left out.                                                      *)
(***************************************************************************)
EXTENDS Feedback, Lists, Functions

CONSTANTS
    Inputs,      \* the rollouts a compilation is called with, sequences
    Specs,       \* slice specifications as a caller writes them
    Policies,    \* trained policies
    MaxCommits   \* bound

VARIABLES
    feedback,    \* the rows, a row's id is its position
    commits,     \* sealed commits
    lineage      \* [episodes, trained, reverse]: the three maps of the store

datasetVars == <<feedback, commits, lineage>>

Grains == {"rollout", "episode"}
DefaultMinConfidence == 800

\* A specification as written, and as read: what it does not name keeps its
\* default, and every default but the floor admits everything real.
SpecDefaults == [policy |-> None, class |-> None, task |-> None, site |-> None, from |-> None, to |-> None,
                 floor |-> DefaultMinConfidence, synthetic |-> FALSE]
DictToSliceSpec(d) ==
    [f \in DOMAIN d \cup DOMAIN SpecDefaults |-> IF f \in DOMAIN d THEN d[f] ELSE SpecDefaults[f]]

IsSliceSpec(spec) ==
    /\ DOMAIN spec = DOMAIN SpecDefaults \cup {"grain"} /\ spec.grain \in Grains
    /\ spec.class \in {None} \cup FailureClasses
    /\ spec.floor \in 0..One /\ spec.synthetic \in BOOLEAN

ASSUME SpecsAssumption == \A d \in Specs : IsSliceSpec(DictToSliceSpec(d))

\* Rollouts come as a list; they are sorted by id and their frames by step.
ASSUME InputsAssumption ==
    \A rollouts \in Inputs : IsList(rollouts) /\ \A r \in Range(rollouts) : r.id \in Nat /\ r.step \in Nat

RowsOf(rollout) == {k \in DOMAIN feedback : feedback[k].rollout = rollout}

Allows(filter, value) == filter \in {None, value}
InTsWindow(spec, ts) == (spec.from # None => ts >= spec.from) /\ (spec.to # None => ts < spec.to)

\* Synthetic data is opt-in.
Candidate(spec, r) ==
    /\ Allows(spec.policy, r.policy) /\ Allows(spec.task, r.task) /\ Allows(spec.site, r.site)
    /\ r.synthetic => spec.synthetic

\* The fate of one candidate: pinned, held out for review, or filtered on the
\* value or the time of the row that counts.
Pin(r, row) == [out |-> "item", episode |-> r.episode, rollout |-> r.id, row |-> row, synthetic |-> r.synthetic]
ReviewReasons == {"BelowMinConfidence", "Retracted", "NoSurvivingBinding"}
Review(r, row, reason) == [out |-> "review", rollout |-> r.id, row |-> row, reason |-> reason]
Filtered == [out |-> "filtered"]

\* A mutant: the floor comes first, then the row that counts.
JudgeAboveFloor(spec, r) ==
    LET winner == WinningBinding(feedback, {k \in RowsOf(r.id) : feedback[k].confidence >= spec.floor})
    IN  CASE winner = None -> Review(r, None, "BelowMinConfidence")
          [] winner # None /\ Allows(spec.class, feedback[winner].class) /\ InTsWindow(spec, feedback[winner].ts)
               -> Pin(r, winner)
          [] OTHER -> Filtered

\* The rows of a rollout compete across their label kinds.
Judge(spec, r) ==
    LET winner == WinningBinding(feedback, RowsOf(r.id))
        row == feedback[winner]
    IN  IF winner = None
        THEN Review(r, None, IF RowsOf(r.id) = {} THEN "NoSurvivingBinding" ELSE "Retracted")
        ELSE IF row.confidence < spec.floor THEN Review(r, winner, "BelowMinConfidence")
        ELSE IF ~Allows(spec.class, row.class) \/ ~InTsWindow(spec, row.ts) THEN Filtered
        ELSE Pin(r, winner)

ContentHash(spec, items, episodes) == <<spec.grain, spec, items, episodes>>

\* The tenant is that of the first rollout, whatever the others are.
ResolvedSlice(spec, rollouts, items, review) ==
    LET episodes == {items[i].episode : i \in DOMAIN items}
    IN  [tenant |-> IF rollouts = <<>> THEN "" ELSE rollouts[1].tenant,
         spec |-> spec, items |-> items, episodes |-> episodes, review |-> review,
         hash |-> ContentHash(spec, items, episodes)]

SmallerId(x, y) == x.rollout < y.rollout

CompileSlice(spec, rollouts) ==
    LET judged == [i \in DOMAIN rollouts |->
                      IF Candidate(spec, rollouts[i]) THEN Judge(spec, rollouts[i]) ELSE Filtered]
        sorted(out) == Sorted(judged, {i \in DOMAIN judged : judged[i].out = out}, SmallerId)
    IN  ResolvedSlice(spec, rollouts, sorted("item"), sorted("review"))

\* The rollouts and the length of the table are kept for the properties.
Seal(slice, rollouts) == [id |-> slice.hash, slice |-> slice, rollouts |-> rollouts, length |-> Len(feedback)]

Compile ==
    /\ Cardinality(commits) < MaxCommits
    /\ \E d \in Specs, rollouts \in Inputs :
          commits' = commits \cup {Seal(CompileSlice(DictToSliceSpec(d), rollouts), rollouts)}
    /\ UNCHANGED <<feedback, lineage>>

(***************************************************************************)
(* Lineage: a commit and a training run are recorded in any order.         *)
(***************************************************************************)

EpisodesOf(store, id) == IF id \in DOMAIN store.episodes THEN store.episodes[id] ELSE {}
PoliciesOf(store, episode) == IF episode \in DOMAIN store.reverse THEN store.reverse[episode] ELSE {}

\* Each of the policies is linked back from each episode of a commit.
LinkReverse(store, policies, id) ==
    LET episodes == IF policies = {} THEN {} ELSE EpisodesOf(store, id)
    IN  [store EXCEPT !.reverse = [e \in DOMAIN store.reverse \cup episodes |->
            PoliciesOf(store, e) \cup (IF e \in episodes THEN policies ELSE {})]]

\* A mutant: policies trained before the commit was recorded are not linked.
CommitUnlinked(store, c) ==
    [store EXCEPT !.episodes = [id \in DOMAIN store.episodes \cup {c.id} |->
        IF id = c.id THEN c.slice.episodes ELSE store.episodes[id]]]

RecordedCommit(store, c) ==
    LinkReverse([store EXCEPT !.episodes = [id \in DOMAIN store.episodes \cup {c.id} |->
                    IF id = c.id THEN c.slice.episodes ELSE store.episodes[id]]],
                {p \in Policies : c.id \in store.trained[p]}, c.id)

RecordCommit ==
    /\ \E c \in commits : lineage' = RecordedCommit(lineage, c)
    /\ UNCHANGED <<feedback, commits>>

RecordTrainedFrom ==
    /\ \E c \in commits, p \in Policies :
          lineage' = LinkReverse([lineage EXCEPT !.trained[p] = @ \cup {c.id}], {p}, c.id)
    /\ UNCHANGED <<feedback, commits>>

EpisodesForPolicy(policy) == UNION {EpisodesOf(lineage, id) : id \in lineage.trained[policy]}
PoliciesForEpisode(episode) == PoliciesOf(lineage, episode)

(***************************************************************************)
(* The export.                                                             *)
(***************************************************************************)

\* A label keeps the type of the value it comes from.
FrameLabel(value) ==
    IF value \in FailureClasses THEN [type |-> "failure_class", class |-> value]
    ELSE [type |-> "boolean", value |-> value = "success"]

\* A pointer is resolved by the caller's fetcher; one that names nothing gives
\* a frame without that payload.
ResolvedPayload(pointer) == pointer

Frame(item, r) ==
    [rollout |-> r.id, episode |-> item.episode, step |-> r.step, row |-> item.row,
     observation |-> ResolvedPayload(r.observation), action |-> ResolvedPayload(r.action),
     label |-> FrameLabel(feedback[item.row].class), synthetic |-> item.synthetic]

\* rollouts, ids: what the caller supplies; an item it does not cover is left
\* out.
Frames(slice, rollouts, ids) ==
    LET covered == Picked(slice.items, {i \in DOMAIN slice.items :
                              /\ slice.items[i].row \in ids
                              /\ \E r \in Range(rollouts) : r.id = slice.items[i].rollout})
        source(i) == CHOOSE r \in Range(rollouts) : r.id = i.rollout
    IN  [k \in DOMAIN covered |-> Frame(covered[k], source(covered[k]))]

Manifest(slice, episodes) == [source |-> slice.hash, episodes |-> episodes]
FramesOf(frames, episode) == {k \in DOMAIN frames : frames[k].episode = episode}
SmallerStep(f, g) == f.step < g.step

\* A mutant: the frames keep the order of the items.
ItemOrder(slice, rollouts, ids) ==
    LET frames == Frames(slice, rollouts, ids)
    IN  Manifest(slice, [e \in {f.episode : f \in Range(frames)} |-> Picked(frames, FramesOf(frames, e))])

ToManifest(slice, rollouts, ids) ==
    LET frames == Frames(slice, rollouts, ids)
    IN  Manifest(slice, [e \in {f.episode : f \in Range(frames)} |->
                            Sorted(frames, FramesOf(frames, e), SmallerStep)])

FrameCount(manifest) ==
    Cardinality(UNION {{e} \X DOMAIN manifest.episodes[e] : e \in DOMAIN manifest.episodes})

DatasetInit ==
    /\ feedback = <<>> /\ commits = {}
    /\ lineage = [episodes |-> [id \in {} |-> {}], trained |-> [p \in Policies |-> {}],
                  reverse |-> [e \in {} |-> {}]]

(***************************************************************************)
(* Properties.                                                             *)
(***************************************************************************)

\* What a commit pins was, when it was sealed, of a rollout the query and the
\* opt-in admit, not retracted, at or above the floor, inside the window, and
\* no later row nor a curator's overruled it; and every candidate was pinned,
\* sent to review with a reason, or outvoted by its own row (compile_slice).
PinnedIsAuthoritative ==
    \A c \in commits :
        LET spec == c.slice.spec
            alive(rollout) == {k \in 1..c.length : feedback[k].rollout = rollout /\ ~feedback[k].retracted}
        IN  /\ \A i \in Range(c.slice.items) :
                  /\ i.row \in alive(i.rollout)
                  /\ feedback[i.row].confidence >= spec.floor /\ InTsWindow(spec, feedback[i.row].ts)
                  /\ i.synthetic => spec.synthetic
                  /\ \A k \in alive(i.rollout) \ {i.row} :
                        \/ feedback[i.row].method = "manual" /\ feedback[k].method # "manual"
                        \/ k < i.row /\ (feedback[k].method = "manual" => feedback[i.row].method = "manual")
            /\ \A r \in Range(c.rollouts) :
                  Candidate(spec, r) /\ r.id \notin {i.rollout : i \in Range(c.slice.items)}
                      => \/ \E x \in Range(c.slice.review) : x.rollout = r.id /\ x.reason \in ReviewReasons
                                /\ (x.row = None => alive(r.id) = {})
                         \/ \E k \in alive(r.id) :
                                ~Allows(spec.class, feedback[k].class) \/ ~InTsWindow(spec, feedback[k].ts)

\* Both directions of the lineage agree, in whatever order commits and
\* training runs were recorded, and recorded again (lineage.rs).
LineageAgrees ==
    \A p \in Policies :
        EpisodesForPolicy(p) = {e \in DOMAIN lineage.reverse : p \in PoliciesForEpisode(e)}

\* An export has one frame per pinned item whose row was supplied, no more and
\* no fewer, each in the episode it was pinned with and in time order, whatever
\* happened to the rows since the commit was sealed (to_lerobot_manifest).
ExportIsComplete ==
    \A c \in commits, lost \in {0} \cup DOMAIN feedback :
        LET ids == (DOMAIN feedback) \ {lost}
            manifest == ToManifest(c.slice, c.rollouts, ids)
            items == Picked(c.slice.items, {i \in DOMAIN c.slice.items : c.slice.items[i].row \in ids})
        IN  /\ manifest.source = c.id /\ FrameCount(manifest) = Len(items)
            /\ \A i \in Range(items) : \E f \in Range(manifest.episodes[i.episode]) :
                  f.row = i.row /\ (f.label.type = "failure_class" <=> feedback[i.row].class \in FailureClasses)
            /\ \A e \in DOMAIN manifest.episodes : \A i, j \in DOMAIN manifest.episodes[e] :
                  i < j => manifest.episodes[e][i].step <= manifest.episodes[e][j].step
=============================================================================
