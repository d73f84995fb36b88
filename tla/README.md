# Verification of Fieldloop

TLA+ models, TLC runs and TLAPS proofs for Fieldloop, a Rust workspace that
records robot runs, ships them to a cloud, attributes outcomes to the decisions
that caused them, and curates training data from the result. The models are
translated from the source under `src/crates/`; `PROJECT.json` maps every
definition to its lines.

## The system

| part | crate | state it keeps | operations | modelled in |
| --- | --- | --- | --- | --- |
| recorder | `fieldloop-recorder` | per stream class (Meta, Sensor, Safety): a bounded channel, counters, a health flag, the writer thread's open file and declarations, MCAP files | `register_channel`, `record`, writer loop with rotation, `finalize`/`Drop` | `Recorder` |
| capture | `fieldloop-capture` | bounded queue of step records, drop counter, `rollouts.jsonl` behind a `BufWriter` | `log_step`, `drain_available`, `RolloutSink::append` | `Delivery` |
| upload agent | `fieldloop-agent` (`lib.rs`, `s3.rs`) | manifest in memory and in `manifest.json` | `sync_once`, `done_keys` | `Agent` |
| registration | `fieldloop-agent` (`RolloutCheckpoint`, `main.rs`, `batch.rs`) | byte offset in memory and in `rollouts.offset` | `read_new`, POST of a batch, `commit`; claims for uploaded objects | `Delivery`, `Agent` |
| attribution engine | `fieldloop-join` (`engine.rs`, `confidence.rs`, `calibrator.rs`) | none | the tiers, credit, calibration, absence | `Attribution`, `Feedback` |
| join worker | `fieldloop-join` (`worker.rs`) | none of its own; reads and appends tables | `run`, `attribute_landed_tenant` | `Join` |
| store | `fieldloop-store` | ClickHouse tables and a view, the Postgres record of batches | migrations, rows, reads, `record_batch` | `Store`, `Join` |
| trigger, review | `fieldloop-trigger` | bounded review queue | detectors, `select`, `offer`, `accept_label` | `Trigger` |
| curation | `fieldloop-curation` | lineage maps, sealed commits | `compile_slice`, `seal`, `record_commit`, `record_trained_from`, export | `Dataset`, `Curation` |
| schema versions | `fieldloop-schemaver` | none | `negotiate`, `migrate_to_current` | `SchemaVersions` |
| configuration | `fieldloop-config` | none | `from_toml_str`, `window_for` | `Config` |
| import, doctor | `fieldloop-import` | none | `import_mcap`, `diagnose` | `Import`, `Intake` |
| types, adapters, Python | the other crates | none that survives a call | plain records, conversion | see the end |

How they interact. The recorder publishes a file by renaming `x.mcap.part` to
`x.mcap`; the agent, another process, lists the directory and uploads files that
have been quiet for a while and end with the MCAP magic. Capture appends lines to
`rollouts.jsonl`; the agent reads the complete lines behind its checkpoint and
posts them as one batch whose id is a hash of the rollout ids, with claims for
the objects the manifest calls done. The gateway (not in the repository) records
a batch id once, appends rows to the tables and publishes what has landed. The
join worker answers such an event with the reward join, a read; a separate pass
reads rollouts, outcomes and feedback in three queries and appends bindings. The
trigger flags rollouts for upload and review; a human's label becomes a manual
row. Curation picks the authoritative row of each rollout and pins it in a
commit, from which policies are trained and data sets exported. Recordings of a
foreign stack enter through the import, under a mapping that the doctor checks,
and go straight into the engine.

What is hard in it: producers and a writer thread that race; a bounded channel
that drops, refuses or blocks depending on the class and the call; disk faults
after a call has returned success; power loss between fsync and rename; an agent
that dies between an effect in the cloud and the record of it; answers that come
late or not at all while the file grows; names and byte offsets that outlive what
they refer to; rows that land between two reads of one pass; tables that are only
ever appended to, so that "withdrawn" and "newest" are decided by each reader;
four tiers and a rounding that must agree on who is credited. `PROJECT.json`
lists these as hazards with their lines.

What makes each part correct, in a sentence: the recorder loses nothing it
accepted without telling, and its indices locate messages; the agent never
believes more than the cloud has and delivers everything; registration skips
nothing, repeats nothing it has committed and registers everything; attribution
credits what its evidence supports, conserves credit and calls silence a success
only when silence is proven; a pass leaves its own word as the one that counts;
the budget and the queue keep the most important events and surface every drop; a
slice pins only what its gates admit and both directions of the lineage agree;
a record of any supported version arrives in the current shape with what it lacks
disclosed; a configuration loads the same way every time.

## Modules

| module | models | extends |
| --- | --- | --- |
| `Recorder` | one stream class of the recorder | |
| `StoreForward` | the promise of a store-and-forward stage (abstract) | |
| `Agent` | `sync_once` between the recorder's directory and the bucket, and what a batch claims of it; implements `StoreForward` | |
| `Delivery` | `log_step` to gateway: queue, sink, file, checkpoint, POST; implements `StoreForward` | |
| `Lists` | filtering, stable sorting and flattening of sequences | |
| `Feedback` | methods, scales and the winning row, shared by the four below | |
| `Attribution` | the engine as operators | `Feedback`, `Lists` |
| `Store` | columns, rows written and read back | `Attribution` |
| `Join` | the worker, the pass and the library calls, as a state machine | `Store` |
| `Trigger` | detectors, broker, review queue | `Feedback`, `Lists` |
| `Dataset` | slices, commits, lineage, export | `Feedback`, `Lists` |
| `Curation` | the loop of both, with rows appended meanwhile | `Trigger`, `Dataset` |
| `SchemaVersions` | negotiation and migration | |
| `Config`, `Import` | loading; mapping, import, doctor | `Import`: `Lists` |
| `Intake` | an operator who edits, checks, imports; a gateway that negotiates | `Config`, `Import`, `SchemaVersions` |

`MCRecorder`, `MCAgent`, `MCDelivery`, `MCJoin`, `MCCuration` and `MCIntake` hold
the model values of the runs. `RecorderProofs`, `AgentProofs`, `DeliveryProofs`,
`SchemaVersionsProofs`, `CurationProofs`, `IntakeProofs` and `JoinProofs` hold the
proofs, and `ListsProofs` the lemmas about sequences that the last three share.
Definitions commented as mutants are plausible errors in the code that the
properties are known to catch.

`Lists` says what `filter`, `sort_by` and `extend` return without saying how they
compute it: an element is known by its index, its place in the result is the number
of kept indices ahead of it, and a stable sort keeps the order of the indices it
need not exchange. A loop of the code that goes through a list (the broker's budget,
pool adjacent violators, sums) is a function on `0..n` whose value at `k` is the
state after `k` turns. Nothing is declared recursive, so everything can be proved
about.

### Recorder

The three classes share nothing, so one class is modelled and `Droppable` says
which kind it is. Producers are program counters: `register_channel` is
`RegisterStart` (the id is claimed) and `RegisterSend` (the blocking send);
`record` is `RecordCheck` (the health flag is read), one of `TrySendOk`,
`TrySendFull`, `TrySendDisconnected`, and `TakeIndex` (the `fetch_add`), because
other threads run between these. `writer` is the program counter of the writer
thread: `HandleRegister`, `ReceiveMessage` (with `should_rotate`), `Rotate`,
`Sync` and `Rename` (the two halves of `OpenFile::finish`), `Write`,
`EndOfStream`. A fault in a declaration, write or finish clears `healthy`; a file
that cannot be created panics the thread (`Panic`), which drops the receiver and
its contents. `Shutdown` needs the recorder by value or `&mut`, hence no call
under way. `PowerLoss` leaves of each file all or part of it, and its final name or
not, with the restriction that synced bytes survive.

`accepted`, `located`, `written` and the field `first` of a file are history: the
order in which messages entered the channel, what `record` returned, and what is
in the files. Messages are numbers; payloads, schemas and time stamps are left
out. Rotation by time is a free choice when it is configured, since any time may
have passed.

Capacity 0, a rendezvous channel, is excluded by `RecorderAssumption`
(`ClassConfig::new` allows it, the defaults are in the thousands). The 65536th
registration panics the caller (a checked conversion, lib.rs:470); the model stays
far below.

### Agent

Files are known by class and sequence number, and their content by the number of
the recording, so that mixed bytes in an object show. One pass is `StartPass` (the
listing), then for the first remaining file in the order of the sort `Skip`, or one
of `UploadDone`, `UploadInterrupted`, `UploadFailed`, `ReadFails`, followed by
`SaveOk` or `SaveFails` (the `?` that ends the pass). `Crash` may happen between
any two of these, or inside an upload, and loads `manifest.json`. The trait's
contract allows a resumable uploader; the S3 one puts whole objects and never
reports an interruption. Both are initial states, and the uploader does not change
under an existing manifest.

`RecorderRestart` starts the numbering again, as a new `Recorder` on the same
directory does. The sort is by class and then by file name as text.

What registration says of the files is a function of this state, so it is checked
in every state: `DoneKeys`, the objects that `ConfirmedBlobs` claims because the
file is still readable, and the `ObservationObject` of a request, if it
has one: the first confirmed sensor file or else the first confirmed file of any
class.

### Delivery

A line of `rollouts.jsonl` is two pieces, the JSON and its newline, so a reader or a
crash can come between them. The sink's `BufWriter` is modelled with its capacity: a
failed flush keeps what it could not write, and a piece that finds no room after a
failure is lost (`refused`). `Register` is `read_new`, the batch id (the set of ids)
and the start of the POST; `PostFails` is any error the agent sees, whether or
not the request still arrives; `GatewayTakes` is the idempotent `RecordBatch` of the
store; `CommitOk`, `CommitFails` and `AgentCrash` are the checkpoint.

The gateway is modelled from what the agent's code and comments say of it. A power
loss of the robot is not modelled here (the sink syncs each line before it reports
it): `CaptureRestart` is the death of the process, after which what reached the
file stays there.

### Attribution, Store and Join

`Attribution` has an operator per function of the engine: `AttributeOne` runs the
explicit, temporal, spatial and causal tiers in turn, `DistributeCredit` splits
with the recency kernel, `SynthesizeAbsence` looks for gaps between heartbeats,
`Fit` pools the samples of each method and embodiment. Times, distances and lags
are small integers. A score, a confidence and a share are integers in thousandths,
and the exponential of the kernel is a table; the code rounds a float where the
model rounds an integer, so the properties about shares allow one unit per row.

`Store` says which columns the migrations give each table, what a value loses when
it is written as a row and when the row is parsed. `Join` lands rollouts and
outcomes one by one (`LandRollout`, `LandOutcome`: append, then perhaps publish),
lets a curator append or withdraw (`Curate`), and runs a pass as four steps,
`ReadRollouts`, `ReadOutcomes`, `ReadFeedback`, `Insert`, between which anything may
land, and each of which may fail (`PassFails`). `ProcessOneEvent` and `Dashboard`
are the reward join. `Attribute` is the engine as Python calls it, on records in
memory in either order, with the dictionaries that have no field for a pose, a
station, an anchor or a parent, or on the records of a file.

A row's id is its insert position; the group of a split is named after its outcome.
A pass may read feedback of one target in any order, as `ORDER BY target_id` allows.

### Trigger, Dataset and Curation

`SelectUploads` runs the reflex and low-confidence detectors over a batch, adds
events of other sources, and calls the broker (`Select`, one event after the other
by priority). `Offer` inserts into the review queue, `AcceptLabel` records a verdict,
which `Curation` turns into a manual row. Meanwhile `Attribute` appends rows and
`Retract` withdraws one by appending a copy with the flag. `Compile` runs
`CompileSlice` (candidates, the authoritative row, the gates, review with its
reason) and seals the result; `RecordCommit` and `RecordTrainedFrom` maintain the
lineage in any order, also twice; the export is an operator over any commit in any
later state, with any row missing from what the caller supplies. A confidence tag
may parse to NaN, which `total_cmp` ranks above all.

### Intake

`Config` judges a text by its shape (closed sets) and by `ConfigErrors`, in every
order the hash maps may be walked in; names are compared in lower case. `Import`
sorts the decisions of a file by the clock of the mapping. `Intake` lets an operator
edit the configuration and the mapping, a file grow, and then load, diagnose or
import. `SchemaVersions` has classification with its 32-bit sum, the plan, the two
migration steps, and the disclosed clock and degradations. The crate has no caller
in the repository: a gateway that negotiates once per record is the environment.

## Runs

| run | instance | states | what it shows |
| --- | --- | --- | --- |
| `recorder_faults` | 2 producers (symmetric), capacity 2, 2 messages per file, 4 records, 2 channels, disk and power faults | 447,922 | safety of the class under every fault |
| `recorder_live` | 1 producer, capacity 1, rotation by time and count, 3 records, 2 channels, disk faults | 295,883 | index is position; settling, shutdown and registration end |
| `recorder_race` | 2 producers, no faults | | violation: two producers swap their indices |
| `agent_sync` | a safety and a sensor file, 2 bytes, faults, 1 agent crash, 1 recorder restart | 550,290 | what the manifest and a batch say is true of the bucket |
| `agent_live` | the same files of 3 bytes, faults, 2 crashes | 34,518 | refinement of `StoreForward`, delivery |
| `agent_restart` | one file, one recorder restart | | violation: a recording under a used name is never uploaded |
| `delivery` | 3 rollouts, queue of 2, buffer of 3 pieces, all faults, 2 agent crashes, 1 process crash | 34,881 | nothing skipped, nothing committed sent again, refinement, registration |
| `delivery_retry` | 2 rollouts, lost answers | | violation: a grown delta is recorded twice |
| `join` | 10 live worlds of 1 or 2 rollouts and outcomes, 2 passes, 2 curator rows; some 1,900 library calls | 722,412 | evidence, credit, absence, calibration, what a pass and a read leave |
| `curation` | 3 rollouts (one recorded twice), 2 batches, 2 slices, 3 rows, 2 commits, 2 policies, 6 operations in all | 795,325 | budget, queue, slices, lineage, export |
| `curation_tombstone` | 1 slice, 2 rows | | violation: a withdrawn row is trained on |
| `intake` | 7 texts, 4 mappings, files of 3 messages of 5 kinds, 12 negotiations | 324,324 | truthful answers, one event of each message by the chosen clock, stable load |

The bounds are chosen so that each interesting case occurs. A channel of 2 with 2
producers is full, empty and in between; two messages per file and four messages
give two rotations, so there is a file before, during and after one; two channels
allow a registration between messages and a redeclaration on rotation. Three bytes
in a file give an offset strictly inside a resumed part. A safety and a sensor file
are the most and the least urgent class, and the two branches of the choice of an
observation's object. Three rollouts give a batch of one and one of two that
overlap or follow each other, and a buffer of three pieces is one line and a half,
so a flush happens inside a line.

In `join`, two passes are the least in which one starts from what another left, and
two curator rows the least in which one withdraws the other. The live worlds are
chosen one per case: a split, an outcome that names the older of two rollouts, a
rollout that landed twice, an outcome that landed twice, two failures after one
rollout, silence followed by an intervention or a failure, two tenants with one robot name, an outcome of an
unknown kind, and a store as the migrations build it. The calls vary times,
positions, lags, heartbeats and labels across the edges of every window and gap, for
up to three rollouts and five labels; they have no further state, so one step each
is enough. In `curation` the 6 operations are enough for a label, a withdrawal, a
commit and both lineage records in any order. In `intake` the width of a version is
3 bits, so that a sum can overflow with small numbers.

The runs with `CHECK_DEADLOCK FALSE` are those of programs that really stop: a
recorder that has been shut down, a delivery whose rollouts are all registered, a
store in which all has landed, a curation that has used its bound. The agent loops
for ever and is checked for deadlock, and so is the intake.

## Findings

The four violations are disagreements between the code and its own documentation,
listed in `PROJECT.json` with the quoted lines. Each has a counterpart that holds:
`IndexIsPosition` with one producer; `DoneIsInCloud` for a name used once;
`OnlyUncommittedResent` for what a commit has passed; `PinnedIsAuthoritative`, which
takes the flag of each row by itself as the code does.

Other facts met while modelling, which no run refutes:

* `isotonic` (`calibrator.rs:225`) takes samples with one score as points of their
  own, in the order the rows were read, and pools them only if a right guess comes
  before a wrong one. Labels (0.5, wrong), (0.5, right) give 1.0 at 0.5, the same
  labels in the other order give 0.5, against the fraction of bindings at a score
  that turned out correct (`calibrator.rs:10-12`, `75-83`). `FitIsIsotonic` says
  both what the code does (the regression of the list) and where the doc is right
  (no score has a wrong guess before a right one).
* The doctor does not complain about a publish time that was never set: it leaves
  stamp 0 out of the skew (`doctor.rs:107`), although under a mapping by publish time
  such a message is imported at stamp 0, against "caught here rather than surfacing as
  silently-missing or mis-timed bindings later" (`doctor.rs:1-3`). It is the one
  exception in `WithinThreshold`.
* `with_max_messages(0)` (`lib.rs:161`) is accepted: the first file stays empty and
  each later one holds one message, one more than the limit. `FileRoom` says so.
* The sum that ends the deprecation band (`policy.rs:70`) can overflow: it wraps in a
  release build (a debug build panics), and senders in the band are not warned.
  `Truthful` asks for the warning only where the sum fits.
* Which error a faulty configuration is refused with depends on the walk of the hash
  maps; that it is refused does not.
* The feedback read of the pass (`queries.rs:303`) names columns that the view it
  reads does not have after the migrations (M0005, which M0009 does not extend), so
  on a migrated store every pass ends at its third read. World `Migrated` takes this
  path; the other live worlds give the view every column.
* `OutcomeEvent` has no column for an anchor, and the anchor of a rollout is read
  only as a number although wide integers come quoted (`QuoteWide`): the spatial and
  causal tiers never fire in the live system, only in library calls.
* `PassSettles` has two exceptions, both by design of the append-only table: a guess
  made before the rollout that the outcome names had landed stays the winner, and so
  does a success made of silence before an intervention landed.
* `AbsenceIsProven` has one: failures are kept by position in the batch
  (engine.rs:233), so a rollout recorded twice can get a failure and a success.
* `process_one_event` reads the metric `reward`, which no row of the engine carries.
* Safety events have priority 1, hence uncertainty and review priority 0: they rank
  last in the queue, while a tag of `NaN` ranks first.
* `migrate_to_current` trusts the version in the envelope, not the declared one; the
  properties of `SchemaVersions` ask both to agree.
* Files of one class sort by name as text, so number 10 goes before number 2; a line
  torn by a crash inside an append stops the registration of the lines behind it.

`AllDelivered` says that every recording reaches the bucket. It does not say that
`manifest.json` will tell so: when the save after the last file fails, the record is
done in memory, the file is skipped from then on, and nothing saves the manifest
again until some other file is processed. This costs one more upload after a
restart.

## Fairness

* Recorder: the operating system runs the writer thread and finishes the calls of
  producers (weak fairness). Nothing makes a producer call, a file operation
  succeed, or the owner shut down.
* Agent: `run` calls `sync_once` for ever and time passes (weak fairness of the
  pass and of going quiet); an upload or a save that is tried again and again
  succeeds some time (strong fairness). Without the last no store-and-forward agent
  delivers.
* Delivery: the drain and the agent's loop run (weak); a sink, a gateway and a
  checkpoint tried again and again succeed some time (strong).
* Join, Curation, Intake: none. Nothing in the repository starts a pass or retries
  one that failed, and every other operation is a caller's choice, so the code
  promises no progress.

## What is proved

`RecorderProofs` proves for every set of producers, capacity, rotation bound and
kind of fault (assumption: `RecorderAssumption`):

| theorem | property |
| --- | --- |
| `TypeCorrect` | `TypeOK` |
| `WriterStateInvariant` | `WriterState`, the consistency of the writer's control state, message in hand and files |
| `RotationBounded` | `RotationBound` |
| `FinalsComplete` | `FinalIsComplete` |
| `PublishedInOrder` | `NoPublishedGap` |
| `RefusalIsFinal` | `GoneIsFinal` |
| `NothingLost` | `AcceptedIsWritten` |
| `IndexWithOneProducer` | `IndexIsPosition`, assuming at most one producer |

None of the properties is inductive alone. `WriterState` says where the writer can be
with which message in hand and how many files. `FinalIsComplete` needs `SyncedFirst`:
a file that is final, or about to be renamed, is synced. `NoPublishedGap` needs
`InOrder`: while the class is healthy every file before the one being finished is
final. `RotationBound` needs `Bounded`, which ties the place where a file starts in
the stream, and how much it holds, to the length of the stream. `GoneIsFinal` needs
`Told`: a producer has been refused only if the class is unhealthy or its writer
gone.

`NothingLost` is the long one. `Drained` says that a writer that is finishing its
last file, or has exited, has an empty channel and no sender. `Declared` says that
an announced channel is declared in the current file or its declaration is in the
channel in front of the message: this is why registration has to block, and where
the proof fails with `try_send`. `Stream` says that, while the class is healthy, the
files hold the messages 1 to n, the hand n+1 if it is not empty, and the channel
the following numbers in order. Together with `InTransit` they give the property.
`IndexWithOneProducer` adds `Paired`: between its send and its `fetch_add` the one
producer has exactly one message without an index.

`AgentProofs` proves for every set of classes, number and length of files, kind of
uploader, fault, number of crashes and restarts (assumption: `AgentAssumption`):

| theorem | property |
| --- | --- |
| `TypeCorrect` | `TypeOK` |
| `InvariantHolds` | `IInv`, the inductive invariant |
| `ResumesWhatIsThere` | `OffsetIsConfirmed` |
| `DoneIsThere` | `DoneIsInCloud` |
| `UrgentFirst` | `SafetyFirst` |
| `DoneStaysDone` | `DoneIsFinal` |
| `Implements` | `ImplementsStoreForward`, assuming `MaxRestarts = 0` |

The heart of `IInv` is `BeliefsBacked`: each of the three records the agent may act on
(in memory, in `manifest.json`, about to be stored) is true of the object of a name
used once. All three are needed, because a crash replaces the first by the second and a
save replaces the second by the third. It is kept because an attempt only adds to an
object (`Extended`), for which `WholeObjects` is needed: S3 replaces the object by the
bytes behind the offset, which is right only while that offset is 0. `Named` ties a
name to the last recording under it, `Untouched` says that the agent knows nothing of
a name never published, so its first publication finds no belief. `SavedBehind` says
that what `manifest.json` calls done the memory has as done too, hence `DoneIsFinal`.
For the refinement, `Fresh` says that a recorder that does not restart uses no name
twice; then a publication is a `Record`, an attempt or a crash inside one a `Receive`,
a save a `Confirm`, and every other step changes none of the three sets.

`DeliveryProofs` proves for every capacity of the queue and of the writer's buffer,
kind of fault, number of calls, crashes and restarts (assumption:
`DeliveryAssumption`):

| theorem | property |
| --- | --- |
| `TypeCorrect` | `TypeOK` |
| `NothingSilent` | `NoSilentLoss` |
| `ReportedReadable` | `ReadableUntilCrash` |
| `SkipsNothing` | `NothingSkipped` |
| `ResendsOnlyUncommitted` | `OnlyUncommittedResent` |
| `Implements` | `ImplementsStoreForward` |

The robot's side rests on `Stream`, the pieces of the file, of the buffer and of the
append under way put one behind the other: `Put` and `Flush` only move a piece from
one part to the next and leave the whole as it is, so what is invariant of the stream
is at risk only when an append begins or pieces are lost. `InOrder` says that its ids
follow the calls, `Accounted` that newlines, queue and drop counter add up to the
calls, `Whole` that while nothing disturbed the process it is a sequence of whole
lines, so a reported one is in the file with its newline and all before it parse. From
`InOrder` follows that no two newlines of the file have one id, in spite of crashes.

The agent's side needs to know of every batch that the gateway has accepted or that
is on its way (`Known`). `Segments` says that it lies behind the checkpoint or holds
exactly the lines from the checkpoint to some newline; `Pending` that the agent's own
batch is of the second kind, that no other reaches further, and that it is recorded
once acknowledged; `Recorded` that the gateway has the rollouts of the batches it
accepted and no others. A late answer, a failed commit or a crash only makes the
agent choose another batch with the same beginning, so two batches overlap only if
they begin together, and the rollouts with rows are always those of the first
newlines. For the refinement a flush of a newline is a `Record`, what the gateway
takes a `Receive` and a commit a `Confirm`.

`SchemaVersionsProofs` proves `AdmittedTruthfully`, `AdmittedIsTruthful` for every
set of calls, every policy, also one whose sum overflows, and every width of a
version (assumption: `VersionAssumption`). The invariant is inductive; the work is in
three lemmas. `BandEnds`: the wrapped sum never lies beyond the true end of the band,
and is that end if the sum fits. `NegotiatedAsPromised`: a declared version is
accepted exactly between floor and current version, with a plan of the right length
and a warning only in the band. `AnswerIsTruthful`: an envelope as its SDK sends it
keeps everything but its version through the chain, whatever version was declared.

`CurationProofs` proves for any batches, flags, budget, capacity, slices and rows:

| theorem | property |
| --- | --- |
| `TypeCorrect` | `TypeOK` |
| `BudgetSafe` | `BudgetIsFair` |
| `QueueSafe` | `QueueIsTopK` |
| `LineageSafe` | `LineageAgrees` |
| `PinnedSafe` | `PinnedIsAuthoritative` |
| `ExportSafe` | `ExportIsComplete` |

`LineageAgrees` is inductive once commits are named after what they pin (`Named`): then
a commit recorded again, or after the run that trained from it, links the same
episodes. `QueueIsTopK` is not: it needs that the queue is a list without duplicates
of events that fired, and that only a full queue has turned anything away. The
broker's decision is a loop invariant: after k events the first m are admitted, and
if that is not all of them there was no room for one more (`Took`, `TookFirst`), so no
dropped event outranks an admitted one. A commit is `Sealed`, what it pins counted
when it was compiled, and stays `Pinned`, because rows are only appended and what
counted among the first n rows is a matter of those rows alone. The export follows
from that, item by item.

`IntakeProofs` proves `StableLoad` (`LoadIsStable`) and `ImportSafe`
(`ImportKeepsTheClock`) for any texts, mappings, recordings and calls. A walk of a hash
map is any sequence that names each key once (`Walks`). What the loader finds wrong is
a set, so it is the union of what each key contributes, and a table without clashes
has one value per name: hence no order matters for whether a file is accepted and what
it loads. Which error is reported may still depend on it. For the import, the messages
of a role are enumerated in the order of the file (`Enumerated`), so that events and
messages are counted against each other by index (`IndexedCount`, `EventsMade`): each
message has exactly one event, also if two messages are equal. The decisions are
sorted by a stamp, so the number of a decision is the count of those ahead of it.
`RolesDeclared` says that each declared topic has the role its mapping gives it when
the mapping is free of identity errors, and the doctor's skew bounds how far the stamps
of the mapping's clock are from the recorder's (`VouchedStamps`, `VouchedTopics`).

`JoinProofs` proves for any worlds, windows, floors, least number of labels and
bounds:

| theorem | property |
| --- | --- |
| `TypeCorrect` | `TypeOK` |
| `BindingSafe` | `EvidenceSupportsBinding` |
| `CreditSafe` | `CreditConserved` |
| `AbsenceSafe` | `AbsenceIsProven` |
| `SettledSafe` | `PassSettles` |
| `JoinSafe` | `JoinKeepsEveryRollout` |
| `FitSafe` | `FitIsIsotonic` |
| `Invariance` | `JoinInv`, the inductive invariant |

The first three are facts about the engine, proved once for every batch of well-formed
records (`IsMade`), whoever called it. Each tier has a lemma that says which rollouts
it credits (`ExplicitCredits`, `TemporalCredits`, `SpatialCredits`, `CausalCredits`)
and `OneAttributed` says which tier answers. `Distributed` is the conservation of
credit: every share but the last is rounded down from a fraction of the sum, so the
last, which takes what is left, is between 0 and the whole, and the sum is exact.
`RecencyFalls` and `KernelFalls` say that the kernel falls with age, and one unit per
row is what rounding can cost. `CoverageIs` is the geometry of silence: when the
clamped beats leave no gap, every stretch longer than the gap holds a beat
(`Neighbours` finds the two beats that surround it).

`PassSettles` is about many passes. `JoinInv` says of every row of the table that it is
withdrawn, a curator's, or `Derived`: the rollout and the outcome, or the heartbeats,
it was made from have landed. `PassInv` says that what a pass holds between its reads
are records that have landed, whatever has landed since, and `ReportInv` that a pass
which read everything (`IsFull`) stands in the table behind all it had read.
`Superseded` then shows that a full pass makes a new row for whatever an older derived
row was about: an outcome that names its rollout is credited to it again
(`NamedAgain`), a guess is made again unless the outcome turned out to name another
rollout (`TimedAgain`), silence stays silent unless a failure has landed
(`SilentAgain`). Only explicit, temporal and silent rows occur, because no outcome
that is read back has an anchor: the proof found the reason why the spatial and
causal tiers never fire in the live system.

`FitIsIsotonic` is about the loop that pools adjacent violators, for any number of
labels. Three things hold after every turn: the blocks cut the points taken so far
into groups in order, each group is tight (no beginning of it has a smaller mean than
the whole, `MergedTight`), and only the last two blocks can be out of order. Twice the
points taken less the number of blocks grows with every turn, so two turns a point
are enough (`IsotonicFits`). At the end the means rise from block to block, so the line
of each block lies below the running totals of the truth and touches them at its two
ends (`Supports`): hence no window that starts or ends inside the block beats the
block's mean, which is the min-max formula (`GroupFits`). Rounding down to thousandths
is monotone and goes through (`QuotientsRise`). The runs of that formula begin and end
anywhere in the list. `WholeScoresFit` says when they may as well begin and end with
whole scores: if no score has a wrong guess before a right one, its samples are right
ones followed by wrong ones, so the mean of a run over part of a score can be raised, or
lowered, by moving that end to the border of the score (`EndWhole`, `BeginWhole`);
then what the curve says is the regression of the fractions of each score. `FitInv`
carries both to every report: its curves are the identity or fitted to the labels it
knew.

Assumptions on constants, each stated where the constant is declared and evaluated by
TLC in the runs: `None` is no number and not the id of no group (`NoneAssumption`,
`NilAssumption`); windows, periods and gaps are not negative (`WindowAssumption`);
the worlds, batches, inputs and flags are lists of well-formed records, stamps are
unsigned, and a record that arrives twice arrives unchanged (`WorldsAssumption`,
`EventsAssumption`, `InputsAssumption`); rows have the shape of the table
(`RowsAssumption`); tables of a text are finite, and a mapping has its fields and
outcome kinds of the closed set (`FilesAssumption`, `MappingsAssumption`); the limit of
messages per file is any natural number (`RecorderAssumption`). Ids of rollouts are numbers where the code
orders by them.

`CreditConserved` is about an outcome that was read once: of one that landed twice
each copy gets its own rows, so the shares of its id add up to two. Its order of
recency is between rollouts with the same anchor, since the spatial and causal tiers
measure age on the server's clock.

Every safety property of the passing runs is stated by a theorem. Only model-checked
are the liveness properties (`EventuallySettled`, `ShutdownCompletes`,
`RegisterReturns`, `AllDelivered`, `AllRegistered`), because the proof system has no
rule for fairness here, and the disagreements, which are counterexamples. The width of
a float and the values of the exponential are fixed by the model, not proved.

## Not modelled

* SQL text, database clients, credentials, the Postgres schema with its row security,
  and the type guard that makes a query name its tenant: the reads are modelled with
  the tenant they filter by.
* serde, TOML and MCAP encoding, error texts, the wording of labels and reports.
* `clock.rs`: stamps are given. Its origin belongs to the process and the boot id to
  the machine, so two stamps of one boot are compared even when a process restart
  lies between them; the engine does the same, and a hazard records it.
* The embodiment adapters: conversions of one value behind a trait that nothing in
  the repository calls. The Python bindings beyond the calls above.
* Power loss around files that are renamed without a sync (`manifest.json`,
  `rollouts.offset`), and a `rollouts.jsonl` that became shorter than its checkpoint.
* The 64-bit hash of a slice: a commit is its pinned set. Targets other than rollouts
  in the engine.

## The plan

1. `Join` composed with `Delivery`: batches that land rows twice.
2. The lemmas about sequences that only `JoinProofs` uses and that say nothing of
   joins (`SumsExist` and its neighbours) moved to `ListsProofs`.
