------------------------------ MODULE Delivery ------------------------------
(***************************************************************************)
(* The way of a rollout from the control loop to the gateway: log_step's   *)
(* bounded queue and the drain with its JSONL sink (fieldloop-capture), the *)
(* RolloutCheckpoint that follows the file and the registration loop of    *)
(* the agent's run (fieldloop-agent), and the ingest gateway, which is not *)
(* part of the repository and is known only from what the agent says of it. *)
(*                                                                         *)
(* A rollout is its place in the order of the log_step calls.  Its line in *)
(* rollouts.jsonl is two pieces, the JSON and the newline, written one     *)
(* after the other; offsets count pieces.                                  *)
(***************************************************************************)
EXTENDS Integers, Sequences, FiniteSets

CONSTANTS
  Capacity,        \* bound of the capture queue
  BufferRoom,      \* capacity of the sink's BufWriter, in pieces
  DiskFaults,      \* may a write of the sink or of the offset file fail
  LinkFaults,      \* may a POST fail, before or after the gateway acted on it
  MaxRollouts,     \* bound of the model: calls of log_step
  MaxCrashes,      \* bound of the model: crashes of the agent
  MaxRestarts      \* bound of the model: crashes of the robot process

ASSUME DeliveryAssumption ==
  /\ {Capacity, BufferRoom} \subseteq Nat \ {0}
  /\ {DiskFaults, LinkFaults} \subseteq BOOLEAN
  /\ {MaxRollouts, MaxCrashes, MaxRestarts} \subseteq Nat

VARIABLES
  logged,      \* ids minted by log_step
  queue,       \* the records in the bounded queue
  dropped,     \* Shared::dropped
  draining,    \* the rollout whose append is under way, 0 when there is none
  unput,       \* the pieces of that append not yet given to the writer
  buffer,      \* RolloutSink::writer: buffered and not yet in the file
  file,        \* rollouts.jsonl
  reported,    \* history: rollouts whose append returned Ok
  refused,     \* history: has the writer refused a piece for want of room
  restarts,    \* crashes of the robot process so far
  offset,      \* RolloutCheckpoint::offset
  saved,       \* rollouts.offset on disk
  phase,       \* where the agent is in a registration
  batch,       \* the delta it registers
  crashes,     \* crashes of the agent so far
  wire,        \* requests on their way to the gateway, by batch id
  seen,        \* batch ids the gateway has accepted
  rows         \* how many rows the gateway has recorded of each rollout

captureVars == <<logged, queue, dropped, draining, unput, buffer, file, reported,
                 refused, restarts>>
agentVars == <<offset, saved, phase, batch, crashes>>
gatewayVars == <<seen, rows>>
vars == <<captureVars, agentVars, wire, gatewayVars>>

Rollouts == 1 .. MaxRollouts
Piece == [id : Rollouts, last : BOOLEAN]
Line(r) == <<[id |-> r, last |-> FALSE], [id |-> r, last |-> TRUE]>>
NoBatch == [ids |-> {}, end |-> 0]

Init ==
  /\ logged = 0
  /\ queue = <<>>
  /\ dropped = 0
  /\ draining = 0
  /\ unput = <<>>
  /\ buffer = <<>>
  /\ file = <<>>
  /\ reported = {}
  /\ refused = FALSE
  /\ restarts = 0
  /\ offset = 0
  /\ saved = 0
  /\ phase = "idle"
  /\ batch = NoBatch
  /\ crashes = 0
  /\ wire = {}
  /\ seen = {}
  /\ rows = [r \in Rollouts |-> 0]

-----------------------------------------------------------------------------
(***************************************************************************)
(* The robot process.                                                      *)
(***************************************************************************)

\* Mutant: a record that finds no room is not counted.
NotCounted == dropped
Counted == dropped + 1

\* log_step returns a fresh id whether or not its record finds room.
LogStep ==
  /\ logged < MaxRollouts
  /\ logged' = logged + 1
  /\ \/ /\ Len(queue) < Capacity
        /\ queue' = Append(queue, logged + 1)
        /\ UNCHANGED dropped
     \/ /\ Len(queue) >= Capacity
        /\ dropped' = Counted
        /\ UNCHANGED queue
  /\ UNCHANGED <<draining, unput, buffer, file, reported, refused, restarts,
                 agentVars, wire, gatewayVars>>

\* drain_available takes a record and appends its line ...
DrainNext ==
  /\ draining = 0
  /\ queue # <<>>
  /\ draining' = Head(queue)
  /\ queue' = Tail(queue)
  /\ unput' = Line(Head(queue))
  /\ UNCHANGED <<logged, dropped, buffer, file, reported, refused, restarts,
                 agentVars, wire, gatewayVars>>

\* ... which goes into the writer's buffer, the JSON and then the newline ...
Put ==
  /\ unput # <<>>
  /\ Len(buffer) < BufferRoom
  /\ buffer' = Append(buffer, Head(unput))
  /\ unput' = Tail(unput)
  /\ UNCHANGED <<logged, queue, dropped, draining, file, reported, refused, restarts,
                 agentVars, wire, gatewayVars>>

\* The buffer is flushed at the end of the append, and to make room.
Flushing == draining # 0 /\ (unput = <<>> \/ Len(buffer) >= BufferRoom)

\* ... and from there into the file.
Flush ==
  /\ Flushing
  /\ buffer # <<>>
  /\ file' = Append(file, Head(buffer))
  /\ buffer' = Tail(buffer)
  /\ UNCHANGED <<logged, queue, dropped, draining, unput, reported, refused, restarts,
                 agentVars, wire, gatewayVars>>

AppendOk ==
  /\ draining # 0
  /\ unput = <<>>
  /\ buffer = <<>>
  /\ reported' = reported \cup {draining}
  /\ draining' = 0
  /\ UNCHANGED <<logged, queue, dropped, unput, buffer, file, refused, restarts,
                 agentVars, wire, gatewayVars>>

\* Mutant: what the failed flush did not write is thrown away.
KeptNothing == <<>>
\* What a BufWriter could not write stays in its buffer.
Kept == buffer

\* The flush or the sync fails; drain_available logs it and goes on.  A piece
\* that was waiting for room is lost.
AppendFails ==
  /\ DiskFaults
  /\ Flushing
  /\ draining' = 0
  /\ unput' = <<>>
  /\ buffer' = Kept
  /\ refused' = (refused \/ unput # <<>>)
  /\ UNCHANGED <<logged, queue, dropped, file, reported, restarts,
                 agentVars, wire, gatewayVars>>

\* The robot process dies and a new one opens the file in append mode.
CaptureRestart ==
  /\ restarts < MaxRestarts
  /\ restarts' = restarts + 1
  /\ queue' = <<>>
  /\ dropped' = 0
  /\ draining' = 0
  /\ unput' = <<>>
  /\ buffer' = <<>>
  /\ UNCHANGED <<logged, file, reported, refused, agentVars, wire, gatewayVars>>

Drain == DrainNext \/ Put \/ Flush \/ AppendOk \/ AppendFails

-----------------------------------------------------------------------------
(***************************************************************************)
(* The agent.                                                              *)
(***************************************************************************)

Newlines == {i \in DOMAIN file : file[i].last}
NewEnds == {i \in Newlines : i > offset}

\* The end of the last complete line.
LastEnd(end) == end \in NewEnds /\ \A i \in NewEnds : i <= end

\* The rollouts whose lines end behind one place and not behind another.
IdsBetween(from, to) == {file[i].id : i \in {j \in Newlines : from < j /\ j <= to}}

\* Is every line of the delta the line of one rollout?
Parses(from, to) ==
  \A i \in from + 1 .. to :
    IF file[i].last
      THEN i - 1 > from /\ file[i - 1] = [id |-> file[i].id, last |-> FALSE]
      ELSE file[i + 1] = [id |-> file[i].id, last |-> TRUE]

\* read_new, batch_id_for and the start of the POST.  What is not a line of a
\* rollout fails the whole read, and the pass goes on without a POST.
Register ==
  /\ phase = "idle"
  /\ \E end \in NewEnds :
       LET ids == IdsBetween(offset, end) IN
       /\ LastEnd(end)
       /\ Parses(offset, end)
       /\ batch' = [ids |-> ids, end |-> end]
       /\ wire' = wire \cup {ids}
  /\ phase' = "waiting"
  /\ UNCHANGED <<captureVars, offset, saved, crashes, gatewayVars>>

\* The POST fails for the agent: refused, lost, or answered too late.  A request
\* that was not lost may still reach the gateway.
PostFails ==
  /\ LinkFaults
  /\ phase \in {"waiting", "acked"}
  /\ phase' = "idle"
  /\ batch' = NoBatch
  /\ wire' \in {wire, wire \ {batch.ids}}
  /\ UNCHANGED <<captureVars, offset, saved, crashes, gatewayVars>>

\* Mutants: the offset goes to the end of the file instead of the delta's; it
\* goes one too far.
CommittedAtEnd == CHOOSE i \in Newlines : \A j \in Newlines : j <= i
CommittedPastEnd == batch.end + 1
Committed == batch.end

\* commit: the offset file first, then the offset in memory.
CommitOk ==
  /\ phase = "acked"
  /\ saved' = Committed
  /\ offset' = Committed
  /\ phase' = "idle"
  /\ batch' = NoBatch
  /\ UNCHANGED <<captureVars, crashes, wire, gatewayVars>>

CommitFails ==
  /\ DiskFaults
  /\ phase = "acked"
  /\ phase' = "idle"
  /\ batch' = NoBatch
  /\ UNCHANGED <<captureVars, offset, saved, crashes, wire, gatewayVars>>

\* Mutant: the offset file is taken as missing.
LoadedNothing == 0
Loaded == saved

\* The agent dies, a request it had under way does not, and a new agent loads
\* the checkpoint.
AgentCrash ==
  /\ crashes < MaxCrashes
  /\ crashes' = crashes + 1
  /\ offset' = Loaded
  /\ phase' = "idle"
  /\ batch' = NoBatch
  /\ UNCHANGED <<captureVars, saved, wire, gatewayVars>>

-----------------------------------------------------------------------------
\* The rows the gateway's insert of a batch id makes: none when it is there.
RecordBatch(ids) == IF ids \in seen THEN 0 ELSE 1

\* The gateway records the rows of a batch id it has not seen, and answers.
GatewayTakes(ids) ==
  /\ ids \in wire
  /\ wire' = wire \ {ids}
  /\ seen' = seen \cup {ids}
  /\ rows' = [r \in Rollouts |-> IF r \in ids THEN rows[r] + RecordBatch(ids) ELSE rows[r]]
  /\ phase' = IF phase = "waiting" /\ batch.ids = ids THEN "acked" ELSE phase
  /\ UNCHANGED <<captureVars, offset, saved, batch, crashes>>

Gateway == \E ids \in SUBSET Rollouts : GatewayTakes(ids)

Agent ==
  \/ Register
  \/ PostFails
  \/ CommitOk
  \/ CommitFails

Next ==
  \/ LogStep
  \/ Drain
  \/ CaptureRestart
  \/ Agent
  \/ AgentCrash
  \/ Gateway

Spec == Init /\ [][Next]_vars

\* The drain runs, the agent loops, and a link and a disk that are tried again
\* and again do not fail every time.
Fairness ==
  /\ WF_vars(DrainNext \/ Put \/ Flush)
  /\ SF_vars(AppendOk)
  /\ WF_vars(Register)
  /\ SF_vars(Gateway)
  /\ SF_vars(CommitOk)

FairSpec == Spec /\ Fairness

-----------------------------------------------------------------------------
(***************************************************************************)
(* Properties.                                                             *)
(***************************************************************************)

\* Type invariant of the capture, the file, the checkpoint and the gateway; a
\* checkpoint is always the end of a line.
TypeOK ==
  /\ {logged, dropped, restarts, crashes} \subseteq 0 .. MaxRollouts + MaxCrashes + MaxRestarts
  /\ queue \in Seq(Rollouts) /\ Len(queue) <= Capacity
  /\ draining \in {0} \cup Rollouts
  /\ {unput, buffer, file} \subseteq Seq(Piece) /\ Len(buffer) <= BufferRoom
  /\ refused \in BOOLEAN
  /\ reported \subseteq Rollouts
  /\ {offset, saved} \subseteq {0} \cup Newlines
  /\ phase \in {"idle", "waiting", "acked"}
  /\ batch = NoBatch \/ (batch.ids \subseteq Rollouts /\ batch.end \in Newlines)
  /\ wire \cup seen \subseteq SUBSET Rollouts
  /\ rows \in [Rollouts -> Nat]

Registered == {r \in Rollouts : rows[r] > 0}

\* Nothing is skipped: the rollouts the gateway has are those of the first
\* lines of the file, and the checkpoint, in memory or on disk, never runs
\* ahead of them, whatever is lost, late or dead (read_new, commit, run).
NothingSkipped ==
  /\ \A i, j \in Newlines : i < j /\ file[j].id \in Registered => file[i].id \in Registered
  /\ \A i \in Newlines : i <= saved \/ i <= offset => file[i].id \in Registered

SameStart(b, c) == \E r \in b \cap c : \A x \in b \cup c : r <= x

\* Two accepted batches have a rollout in common only if they begin with the
\* same one: what has been committed is never sent again (RolloutCheckpoint).
OnlyUncommittedResent ==
  \A b, c \in seen : b \cap c # {} => SameStart(b, c)

\* No crash of the robot process, and no write into a full buffer that a failing
\* disk did not empty.
Undisturbed == restarts = 0 /\ ~refused

\* What of the lines is in the file or on its way there, and the newlines in it.
Stream == file \o buffer \o unput
Ends == {i \in DOMAIN Stream : Stream[i].last}

\* While the robot process is undisturbed, every id log_step has handed out is
\* counted as dropped or is on its way or in the file, once and in the order of
\* the calls, also when the sink's writes fail (log_step, drain_available).
NoSilentLoss ==
  Undisturbed =>
    /\ logged = dropped + Cardinality(Ends) + Len(queue)
    /\ \A i, j \in Ends : i < j => Stream[i].id < Stream[j].id
    /\ \A i \in Ends, k \in DOMAIN queue : Stream[i].id < queue[k]
    /\ \A k, l \in DOMAIN queue : k < l => queue[k] < queue[l]

Readable(r) ==
  \E i \in Newlines : i > 1 /\ <<file[i - 1], file[i]>> = Line(r) /\ Parses(0, i)

\* A rollout whose append returned Ok is a line the agent can parse, and so is
\* every line before it, while the robot process is undisturbed
\* (RolloutSink::append).
ReadableUntilCrash == Undisturbed => \A r \in reported : Readable(r)

\* The gateway records each rollout once: a retry re-sends "the identical delta
\* under the identical batch_id, so the gateway dedups it".
RecordedOnce == \A r \in Rollouts : rows[r] <= 1

\* The checkpointed registration implements StoreForward: a line is recorded
\* once it is in the file, and confirmed once the checkpoint has passed it.
Store == INSTANCE StoreForward WITH
  Recordings <- Rollouts,
  recorded <- {file[i].id : i \in Newlines},
  received <- Registered,
  confirmed <- {file[i].id : i \in {j \in Newlines : j <= saved}}

ImplementsStoreForward == Store!Spec

\* Every line that reaches the file is eventually registered, unless the robot
\* process is disturbed and may have left half a line behind.
AllRegistered ==
  \A r \in Rollouts :
    (\E i \in Newlines : file[i].id = r) ~> (r \in Registered \/ ~Undisturbed)
=============================================================================
