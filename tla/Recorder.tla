------------------------------ MODULE Recorder ------------------------------
(***************************************************************************)
(* One stream class of the recorder (fieldloop-recorder): the producers    *)
(* that call register_channel and record, the class's bounded channel, and *)
(* the writer thread that owns the MCAP files.  The three classes share no *)
(* channel, thread, counter or file, so Meta, Sensor and Safety are three  *)
(* instances of this module that differ in Droppable and in the sizes.     *)
(*                                                                         *)
(* A message is known by its place in the order of acceptance: "nth = k"   *)
(* is the k-th message try_send put into the channel.  That number is a    *)
(* history value; the program only has the MessageIndex, which it takes in *)
(* a separate step.                                                        *)
(***************************************************************************)
EXTENDS Integers, Sequences, FiniteSets

CONSTANTS
  Producers,     \* threads that hold a reference to the Recorder
  Capacity,      \* ClassConfig::capacity, the bound of the sync_channel
  MaxPerFile,    \* ClassConfig::max_messages_per_file
  TimedRotation, \* is ClassConfig::max_file_duration set
  Droppable,     \* StreamClass::is_droppable, true of Meta and Sensor
  DiskFaults,    \* may a file operation fail
  PowerFaults,   \* may the power fail
  MaxRecords,    \* bound of the model: calls of record
  MaxChannels    \* bound of the model: calls of register_channel

ASSUME RecorderAssumption ==
  /\ Capacity \in Nat \ {0}
  /\ MaxPerFile \in Nat
  /\ MaxRecords \in Nat
  /\ MaxChannels \in Nat
  /\ {TimedRotation, Droppable, DiskFaults, PowerFaults} \subseteq BOOLEAN

VARIABLES
  pc,            \* where each producer is inside a call
  arg,           \* the channel a call uses, or the message it has just sent
  result,        \* what each producer's last record returned
  known,         \* channel ids that register_channel has returned
  calls,         \* calls of record so far
  nextChannel,   \* ClassShared::next_channel_id
  nextIndex,     \* ClassShared::next_message_index
  dropped,       \* ClassShared::dropped
  healthy,       \* ClassShared::healthy
  senderOpen,    \* is the sender in ClassShared still alive
  queue,         \* the commands in the channel
  accepted,      \* history: messages that entered the channel
  located,       \* history: the index that record returned for each message
  writer,        \* where the writer thread is
  held,          \* the message the writer has received and not yet handled
  declarations,  \* ClassWriter::declarations
  files,         \* the class's files on disk, in order of file_seq
  written        \* history: every message written to some file, in order

producerVars == <<pc, arg, result, known, calls, nextChannel, nextIndex,
                  dropped, accepted, located>>
writerVars == <<writer, held, declarations, files, written>>
vars == <<producerVars, healthy, senderOpen, queue, writerVars>>

Channels == 1 .. MaxChannels
NoMessage == [kind |-> "none", ch |-> 0, nth |-> 0]
Command == [kind : {"register", "message"}, ch : Nat, nth : Nat]
File == [status : {"part", "final"}, synced : BOOLEAN, declared : SUBSET Nat,
         first : Nat, count : Nat, torn : BOOLEAN]

NewFile(chans) == [status |-> "part", synced |-> FALSE, declared |-> chans,
                   first |-> Len(written), count |-> 0, torn |-> FALSE]

WriterGone == writer \in {"exited", "panicked", "off"}
Current == Len(files)

Init ==
  /\ pc = [p \in Producers |-> "idle"]
  /\ arg = [p \in Producers |-> 0]
  /\ result = [p \in Producers |-> "None"]
  /\ known = {}
  /\ calls = 0
  /\ nextChannel = 1
  /\ nextIndex = 0
  /\ dropped = 0
  /\ healthy = TRUE
  /\ senderOpen = TRUE
  /\ queue = <<>>
  /\ accepted = 0
  /\ located = {}
  /\ writer = "opening"
  /\ held = NoMessage
  /\ declarations = {}
  /\ files = <<>>
  /\ written = <<>>

-----------------------------------------------------------------------------
(***************************************************************************)
(* Producers.                                                              *)
(***************************************************************************)

\* register_channel claims the id first ...
RegisterStart(p) ==
  /\ senderOpen
  /\ pc[p] = "idle"
  /\ nextChannel \in Channels
  /\ nextChannel' = nextChannel + 1
  /\ arg' = [arg EXCEPT ![p] = nextChannel]
  /\ pc' = [pc EXCEPT ![p] = "registering"]
  /\ UNCHANGED <<result, known, calls, nextIndex, dropped, accepted, located,
                 healthy, senderOpen, queue, writerVars>>

\* Mutant: try_send, so a full channel loses the declaration.
TrySend(cmd) ==
  queue' = IF WriterGone \/ Len(queue) >= Capacity THEN queue ELSE Append(queue, cmd)

\* Mutant: the send goes on waiting for room when the writer is gone.
StuckSend(cmd) ==
  /\ ~WriterGone
  /\ Len(queue) < Capacity
  /\ queue' = Append(queue, cmd)

\* The blocking send: it waits while the channel is full and returns an error,
\* which register_channel ignores, when the writer is gone.
Send(cmd) ==
  \/ /\ WriterGone
     /\ UNCHANGED queue
  \/ /\ ~WriterGone
     /\ Len(queue) < Capacity
     /\ queue' = Append(queue, cmd)

\* ... and then sends the declaration.
RegisterSend(p) ==
  /\ pc[p] = "registering"
  /\ Send([kind |-> "register", ch |-> arg[p], nth |-> 0])
  /\ known' = known \cup {arg[p]}
  /\ pc' = [pc EXCEPT ![p] = "idle"]
  /\ UNCHANGED <<arg, result, calls, nextChannel, nextIndex, dropped, accepted,
                 located, healthy, senderOpen, writerVars>>

\* record reads the health flag before anything else.
RecordCheck(p, ch) ==
  /\ senderOpen
  /\ pc[p] = "idle"
  /\ calls < MaxRecords
  /\ calls' = calls + 1
  /\ IF healthy
       THEN /\ pc' = [pc EXCEPT ![p] = "checked"]
            /\ arg' = [arg EXCEPT ![p] = ch]
            /\ UNCHANGED result
       ELSE /\ result' = [result EXCEPT ![p] = "WriterGone"]
            /\ UNCHANGED <<pc, arg>>
  /\ UNCHANGED <<known, nextChannel, nextIndex, dropped, accepted, located,
                 healthy, senderOpen, queue, writerVars>>

\* try_send has room: the message is in the channel, its index not yet taken.
TrySendOk(p) ==
  /\ pc[p] = "checked"
  /\ ~WriterGone
  /\ Len(queue) < Capacity
  /\ accepted' = accepted + 1
  /\ queue' = Append(queue, [kind |-> "message", ch |-> arg[p],
                             nth |-> accepted + 1])
  /\ arg' = [arg EXCEPT ![p] = accepted + 1]
  /\ pc' = [pc EXCEPT ![p] = "sent"]
  /\ UNCHANGED <<result, known, calls, nextChannel, nextIndex, dropped,
                 located, healthy, senderOpen, writerVars>>

\* try_send finds the channel full: drop and count, or refuse on Safety.
TrySendFull(p) ==
  /\ pc[p] = "checked"
  /\ ~WriterGone
  /\ Len(queue) >= Capacity
  /\ dropped' = IF Droppable THEN dropped + 1 ELSE dropped
  /\ result' = [result EXCEPT
                  ![p] = IF Droppable THEN "Dropped" ELSE "SafetyBackpressure"]
  /\ pc' = [pc EXCEPT ![p] = "idle"]
  /\ UNCHANGED <<arg, known, calls, nextChannel, nextIndex, accepted, located,
                 healthy, senderOpen, queue, writerVars>>

TrySendDisconnected(p) ==
  /\ pc[p] = "checked"
  /\ WriterGone
  /\ result' = [result EXCEPT ![p] = "WriterGone"]
  /\ pc' = [pc EXCEPT ![p] = "idle"]
  /\ UNCHANGED <<arg, known, calls, nextChannel, nextIndex, dropped, accepted,
                 located, healthy, senderOpen, queue, writerVars>>

\* Mutants: the value one before, and the value after the increment.
FetchedTooLow == nextIndex - 1
FetchedAfter == nextIndex + 1
\* fetch_add returns the value before the increment.
FetchedIndex == nextIndex

\* next_index: fetch_add on the counter, after the send and apart from it.
TakeIndex(p) ==
  /\ pc[p] = "sent"
  /\ located' = located \cup {[nth |-> arg[p], index |-> FetchedIndex]}
  /\ nextIndex' = nextIndex + 1
  /\ result' = [result EXCEPT ![p] = "Enqueued"]
  /\ pc' = [pc EXCEPT ![p] = "idle"]
  /\ UNCHANGED <<arg, known, calls, nextChannel, dropped, accepted, healthy,
                 senderOpen, queue, writerVars>>

\* finalize or Drop.  Both need the Recorder itself, so no call is under way.
Shutdown ==
  /\ senderOpen
  /\ \A p \in Producers : pc[p] = "idle"
  /\ senderOpen' = FALSE
  /\ UNCHANGED <<producerVars, healthy, queue, writerVars>>

InCall(p) ==
  \/ RegisterSend(p)
  \/ TrySendOk(p)
  \/ TrySendFull(p)
  \/ TrySendDisconnected(p)
  \/ TakeIndex(p)

Producer(p) ==
  \/ RegisterStart(p)
  \/ \E ch \in known : RecordCheck(p, ch)
  \/ InCall(p)

-----------------------------------------------------------------------------
(***************************************************************************)
(* The writer thread.  A fault in a declaration, a write or the finishing  *)
(* of a file clears the health flag and the thread goes on; a file that    *)
(* cannot be created panics the thread, which drops the receiver and with  *)
(* it whatever was in the channel.                                         *)
(***************************************************************************)

\* Mutants: the fault is not recorded, or the flag is flipped.
MarkForgotten == UNCHANGED healthy
MarkFlipped == healthy' = ~healthy
MarkUnhealthy == healthy' = FALSE

Panic ==
  /\ DiskFaults
  /\ writer' = "panicked"
  /\ held' = NoMessage
  /\ queue' = <<>>
  /\ UNCHANGED <<producerVars, healthy, senderOpen, declarations, files,
                 written>>

\* ClassWriter::new creates the first file.
OpenFirst ==
  /\ writer = "opening"
  /\ \/ Panic
     \/ /\ files' = <<NewFile({})>>
        /\ writer' = "recv"
        /\ UNCHANGED <<producerVars, healthy, senderOpen, queue, held,
                       declarations, written>>

Declare(f, ch) == [f EXCEPT !.declared = @ \cup {ch}]

\* A declaration is remembered even when the current file could not take it.
HandleRegister ==
  /\ writer = "recv"
  /\ queue # <<>>
  /\ Head(queue).kind = "register"
  /\ queue' = Tail(queue)
  /\ declarations' = declarations \cup {Head(queue).ch}
  /\ \/ /\ files' = [files EXCEPT ![Current] = Declare(@, Head(queue).ch)]
        /\ UNCHANGED healthy
     \/ /\ DiskFaults
        /\ MarkUnhealthy
        /\ UNCHANGED files
  /\ UNCHANGED <<producerVars, senderOpen, writer, held, written>>

\* Mutant: rotation one message late.
CountReachedLate == files[Current].count > MaxPerFile
CountReached == files[Current].count >= MaxPerFile

\* handle_message decides on rotation before it writes.
ReceiveMessage ==
  /\ writer = "recv"
  /\ queue # <<>>
  /\ Head(queue).kind = "message"
  /\ held' = Head(queue)
  /\ queue' = Tail(queue)
  /\ \/ CountReached /\ writer' = "rotate"
     \/ TimedRotation /\ writer' = "rotate"
     \/ ~CountReached /\ writer' = "write"
  /\ UNCHANGED <<producerVars, healthy, senderOpen, declarations, files,
                 written>>

\* rotate opens and redeclares the next file before it finishes the old one.
Rotate ==
  /\ writer = "rotate"
  /\ \/ Panic
     \/ \E chans \in SUBSET declarations :
          /\ chans = declarations \/ DiskFaults
          /\ files' = Append(files, NewFile(chans))
          /\ IF chans = declarations THEN UNCHANGED healthy ELSE MarkUnhealthy
          /\ writer' = "sync"
          /\ UNCHANGED <<producerVars, senderOpen, queue, held, declarations,
                         written>>

\* Mutant: the writer holds a clone of the sender.
StreamEndedNever == queue = <<>> /\ ~senderOpen /\ WriterGone
\* Every sender is dropped and the channel is empty.
StreamEnded == queue = <<>> /\ ~senderOpen

EndOfStream ==
  /\ writer = "recv"
  /\ StreamEnded
  /\ writer' = "sync"
  /\ UNCHANGED <<producerVars, healthy, senderOpen, queue, held, declarations,
                 files, written>>

\* The file OpenFile::finish is working on: the last one at end of stream,
\* the one before it while a message waits for a rotation to complete.
Finishing == IF held = NoMessage THEN Current ELSE Current - 1
\* Mutant: after a rotation the writer forgets the message that caused it.
AfterFinishForgets == IF held = NoMessage THEN "exited" ELSE "recv"
AfterFinish == IF held = NoMessage THEN "exited" ELSE "write"

FinishFails ==
  /\ DiskFaults
  /\ MarkUnhealthy
  /\ writer' = AfterFinish
  /\ UNCHANGED files

\* Mutant: no fsync before the rename.
FsyncSkipped(f) == f
Fsync(f) == [f EXCEPT !.synced = TRUE]

\* finish: footer, flush and fsync ...
Sync ==
  /\ writer = "sync"
  /\ \/ FinishFails
     \/ /\ files' = [files EXCEPT ![Finishing] = Fsync(@)]
        /\ writer' = "rename"
        /\ UNCHANGED healthy
  /\ UNCHANGED <<producerVars, senderOpen, queue, held, declarations, written>>

Finalize(f) == [f EXCEPT !.status = "final"]

\* ... and only then the rename from the .part name to the final one.
Rename ==
  /\ writer = "rename"
  /\ \/ FinishFails
     \/ /\ files' = [files EXCEPT ![Finishing] = Finalize(@)]
        /\ writer' = AfterFinish
        /\ UNCHANGED healthy
  /\ UNCHANGED <<producerVars, senderOpen, queue, held, declarations, written>>

Extend(f) == [f EXCEPT !.count = @ + 1]

\* write_message skips a channel that this file does not declare.
Write ==
  /\ writer = "write"
  /\ held' = NoMessage
  /\ writer' = "recv"
  /\ \/ /\ held.ch \notin files[Current].declared
        /\ UNCHANGED <<files, written, healthy>>
     \/ /\ held.ch \in files[Current].declared
        /\ files' = [files EXCEPT ![Current] = Extend(@)]
        /\ written' = Append(written, held.nth)
        /\ UNCHANGED healthy
     \/ /\ held.ch \in files[Current].declared
        /\ DiskFaults
        /\ MarkUnhealthy
        /\ UNCHANGED <<files, written>>
  /\ UNCHANGED <<producerVars, senderOpen, queue, declarations>>

Writer ==
  \/ OpenFirst
  \/ HandleRegister
  \/ ReceiveMessage
  \/ Rotate
  \/ EndOfStream
  \/ Sync
  \/ Rename
  \/ Write

-----------------------------------------------------------------------------
\* What a power loss leaves of a file: all of it or not, under its final name
\* only if the rename had reached the disk.
Torn(f, torn) == [f EXCEPT !.torn = torn]
NotRenamed(f) == [f EXCEPT !.status = "part"]
Left(f, torn, renamed) ==
  IF renamed THEN Torn(f, torn) ELSE NotRenamed(Torn(f, torn))

\* Only what was synced is sure to survive.
PowerLoss ==
  /\ PowerFaults
  /\ writer # "off"
  /\ writer' = "off"
  /\ \E torn, renamed \in SUBSET DOMAIN files :
       /\ \A i \in torn : ~files[i].synced
       /\ files' = [i \in DOMAIN files |-> Left(files[i], i \in torn, i \in renamed)]
  /\ pc' = [p \in Producers |-> "idle"]
  /\ senderOpen' = FALSE
  /\ queue' = <<>>
  /\ held' = NoMessage
  /\ UNCHANGED <<arg, result, known, calls, nextChannel, nextIndex, dropped,
                 healthy, accepted, located, declarations, written>>

Next ==
  \/ \E p \in Producers : Producer(p)
  \/ Shutdown
  \/ Writer
  \/ PowerLoss

Spec == Init /\ [][Next]_vars

\* The operating system runs the writer thread, its disk calls return, and a
\* producer inside a call is run to the end of it.  Nothing makes a producer
\* start a call or the owner shut the recorder down.
Fairness ==
  /\ WF_vars(Writer)
  /\ \A p \in Producers : WF_vars(InCall(p))

FairSpec == Spec /\ Fairness

-----------------------------------------------------------------------------
(***************************************************************************)
(* Properties.                                                             *)
(***************************************************************************)

ProducersOK ==
  /\ pc \in [Producers -> {"idle", "registering", "checked", "sent"}]
  /\ arg \in [Producers -> Nat]
  /\ result \in [Producers -> {"None", "Enqueued", "Dropped",
                               "SafetyBackpressure", "WriterGone"}]
  /\ known \in SUBSET Nat
  /\ located \in SUBSET [nth : Nat, index : Nat]

CountersOK ==
  /\ calls \in Nat
  /\ nextChannel \in Nat
  /\ nextIndex \in Nat
  /\ dropped \in Nat
  /\ accepted \in Nat

ChannelOK ==
  /\ healthy \in BOOLEAN
  /\ senderOpen \in BOOLEAN
  /\ queue \in Seq(Command)

WriterOK ==
  /\ writer \in {"opening", "recv", "rotate", "sync", "rename", "write",
                 "exited", "panicked", "off"}
  /\ held \in Command \cup {NoMessage}
  /\ declarations \in SUBSET Nat
  /\ files \in Seq(File)
  /\ written \in Seq(Nat)

\* Type invariant of the class's state, in the threads, in the channel and on
\* the disk.
TypeOK == ProducersOK /\ CountersOK /\ ChannelOK /\ WriterOK

\* While the class is healthy, the N-th message that entered the channel is the
\* N-th message in the files, across rotations and whatever the threads race,
\* and every accepted message that is not in the files is in the writer's hand
\* or in the channel of a writer that will come to it: nothing is lost, skipped,
\* written twice or written out of order without the health flag or a dead
\* writer telling (record, handle_register, handle_message, rotate, shutdown).
AcceptedIsWritten ==
  healthy =>
    /\ \A i \in DOMAIN written : written[i] = i
    /\ writer \notin {"panicked", "off"} =>
         \A n \in Len(written) + 1 .. accepted :
           \/ held.kind = "message" /\ held.nth = n
           \/ /\ writer # "exited"
              /\ \E i \in DOMAIN queue : queue[i].kind = "message" /\ queue[i].nth = n

\* While the class is healthy, the index record returned for a message is its
\* position in the stream of written messages, counted across the files
\* (record, next_index; the promise of MessageIndex).
IndexIsPosition ==
  healthy =>
    \A r \in located : \A i \in DOMAIN written :
      written[i] = r.nth => r.index = i - 1

\* A file that carries its final name is complete, also after a power loss
\* (OpenFile::finish syncs before it renames).
FinalIsComplete ==
  \A i \in DOMAIN files : files[i].status = "final" => ~files[i].torn

\* While the class is healthy the files with a final name are a beginning of
\* the sequence of files, so a reader that counts messages through them finds
\* each message at its index (rotate finishes the old file before the writer
\* can fill and finish the next).
NoPublishedGap ==
  healthy /\ writer # "off" =>
    \A i, j \in DOMAIN files :
      i < j /\ files[j].status = "final" => files[i].status = "final"

\* What a file may hold: with_max_messages accepts a limit of 0, and then the
\* message that caused a rotation is written past it.
FileRoom == IF MaxPerFile = 0 THEN 1 ELSE MaxPerFile

\* No file holds more than max_messages_per_file messages, or more than one if
\* that is 0, and the messages of two files never overlap in the stream
\* (should_rotate, rotate).
RotationBound ==
  /\ \A i \in DOMAIN files : files[i].count <= FileRoom
  /\ \A i, j \in DOMAIN files :
       i < j => files[i].first + files[i].count <= files[j].first

\* Once record has told a producer that the writer is gone, no later record of
\* that producer is accepted: neither the health flag nor the channel recovers.
GoneIsFinal ==
  [][\A p \in Producers : result[p] = "WriterGone" => result'[p] = "WriterGone"]_vars

\* Every accepted message is eventually in a file, or the class has told that
\* it lost messages.
EventuallySettled ==
  \A n \in 1 .. MaxRecords :
    accepted >= n ~> \/ \E i \in DOMAIN written : written[i] = n
                     \/ ~healthy
                     \/ writer = "panicked"

\* Shutting down ends: the writer drains the channel, finishes its file and
\* exits, so the join in shutdown returns.
ShutdownCompletes == ~senderOpen ~> writer \in {"exited", "panicked"}

\* A producer that registers a channel is not blocked for ever by a full
\* channel, not even when the writer dies.
RegisterReturns ==
  \A p \in Producers : pc[p] = "registering" ~> pc[p] = "idle"
=============================================================================
