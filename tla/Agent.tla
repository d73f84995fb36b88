-------------------------------- MODULE Agent --------------------------------
(***************************************************************************)
(* The on-robot upload agent (fieldloop-agent): Agent::sync_once over the  *)
(* directory the recorder publishes files into, with its manifest in       *)
(* memory and on disk, the uploader and what the cloud holds.              *)
(*                                                                         *)
(* A file is known by its name: its class and its sequence number.  Each   *)
(* publication is a new recording, numbered from 1; the content of a file  *)
(* of FileLen bytes is its recording number FileLen times over, so a mix   *)
(* of two recordings in the cloud shows.                                   *)
(***************************************************************************)
EXTENDS Integers, Sequences, FiniteSets

CONSTANTS
  Classes,      \* stream classes in use: a subset of the three
  MaxSeq,       \* bound of the model: last sequence number of each class
  FileLen,      \* length of a file, in the bytes an upload can stop between
  Faults,       \* may reads, uploads and manifest saves fail
  MaxRestarts,  \* bound of the model: restarts of the recorder
  MaxCrashes    \* bound of the model: crashes of the agent

ASSUME AgentAssumption ==
  /\ Classes \subseteq {"safety", "meta", "sensor"}
  /\ MaxSeq \in [Classes -> Nat]
  /\ FileLen \in Nat \ {0}
  /\ Faults \in BOOLEAN
  /\ MaxRestarts \in Nat
  /\ MaxCrashes \in Nat

VARIABLES
  nextSeq,      \* the recorder's next file_seq of each class
  recordings,   \* history: file name of each recording, in order
  disk,         \* the recording each published file holds, 0 when absent
  quiet,        \* published files that have been stable for the quiet period
  restarts,     \* restarts of the recorder so far
  uploader,     \* which Uploader the agent was built with
  manifest,     \* Agent::manifest
  saved,        \* manifest.json
  cloud,        \* the bytes of each object in the bucket
  remaining,    \* listed files sync_once has not come to yet
  current,      \* the file whose upload has returned, NoFile otherwise
  outcome,      \* what that upload returned
  crashes       \* crashes of the agent so far

recorderVars == <<nextSeq, recordings, disk, restarts>>
agentVars == <<manifest, saved, remaining, current, outcome>>
vars == <<recorderVars, quiet, uploader, agentVars, cloud, crashes>>

Files == UNION {[class : {c}, seq : 0 .. MaxSeq[c]] : c \in Classes}
NoFile == [class |-> "none", seq |-> 0]
Published == {f \in Files : disk[f] # 0}
Content(r) == [i \in 1 .. FileLen |-> r]

\* FileRecord; "absent" stands for a key the manifest does not have, whose
\* offset sync_once takes as 0.
FileRecord == [status : {"absent", "pending", "done"}, offset : 0 .. FileLen]
Absent == [status |-> "absent", offset |-> 0]

Init ==
  /\ nextSeq = [c \in Classes |-> 0]
  /\ recordings = <<>>
  /\ disk = [f \in Files |-> 0]
  /\ quiet = {}
  /\ restarts = 0
  /\ uploader \in {"resumable", "s3"}
  /\ manifest = [f \in Files |-> Absent]
  /\ saved = [f \in Files |-> Absent]
  /\ cloud = [f \in Files |-> <<>>]
  /\ remaining = {}
  /\ current = NoFile
  /\ outcome = Absent
  /\ crashes = 0

-----------------------------------------------------------------------------
(***************************************************************************)
(* The recorder, as far as the directory shows it.                         *)
(***************************************************************************)

\* A finished file takes its final name (OpenFile::finish), replacing a file
\* of that name if there is one.
Publish(c) ==
  LET f == [class |-> c, seq |-> nextSeq[c]] IN
  /\ nextSeq[c] <= MaxSeq[c]
  /\ nextSeq' = [nextSeq EXCEPT ![c] = @ + 1]
  /\ recordings' = Append(recordings, f)
  /\ disk' = [disk EXCEPT ![f] = Len(recordings) + 1]
  /\ quiet' = quiet \ {f}
  /\ UNCHANGED <<restarts, uploader, agentVars, cloud, crashes>>

\* A new Recorder on the same directory numbers its files from 0 again.
RecorderRestart ==
  /\ restarts < MaxRestarts
  /\ restarts' = restarts + 1
  /\ nextSeq' = [c \in Classes |-> 0]
  /\ UNCHANGED <<recordings, disk, quiet, uploader, agentVars, cloud, crashes>>

\* Time: a published file has been untouched for the quiet period.
GoQuiet(f) ==
  /\ f \in Published \ quiet
  /\ quiet' = quiet \cup {f}
  /\ UNCHANGED <<recorderVars, uploader, agentVars, cloud, crashes>>

-----------------------------------------------------------------------------
(***************************************************************************)
(* The order of a pass.                                                    *)
(***************************************************************************)

Rank == [safety |-> 1, meta |-> 2, sensor |-> 3]

\* The decimal digits of a sequence number, as they stand in a file name.
Digits[n \in Nat] ==
  IF n < 10 THEN <<n>> ELSE Append(Digits[n \div 10], n % 10)

\* String order.  The '.' after the number sorts before every digit, so a
\* number that is a beginning of another comes first.
TextBefore(s, t) ==
  \/ /\ Len(s) < Len(t)
     /\ \A i \in DOMAIN s : s[i] = t[i]
  \/ \E i \in DOMAIN s \cap DOMAIN t :
       /\ s[i] < t[i]
       /\ \A j \in 1 .. i - 1 : s[j] = t[j]

NameRank == [meta |-> 1, safety |-> 2, sensor |-> 3]
NameBefore(f, g) ==
  \/ NameRank[f.class] < NameRank[g.class]
  \/ f.class = g.class /\ TextBefore(Digits[f.seq], Digits[g.seq])

\* Mutant: the classes go the other way round.
BulkFirst(f, g) ==
  \/ Rank[f.class] > Rank[g.class]
  \/ f.class = g.class /\ TextBefore(Digits[f.seq], Digits[g.seq])
\* The sort of sync_once: class first, then the file name.
Before(f, g) ==
  \/ Rank[f.class] < Rank[g.class]
  \/ f.class = g.class /\ TextBefore(Digits[f.seq], Digits[g.seq])

First(f) == f \in remaining /\ \A g \in remaining \ {f} : ~Before(g, f)

-----------------------------------------------------------------------------
(***************************************************************************)
(* sync_once, one step for each point where a crash makes a difference:    *)
(* the listing, each upload, and the save that follows it.                 *)
(***************************************************************************)

Idle == remaining = {} /\ current = NoFile

StartPass ==
  /\ Idle
  /\ quiet # {}
  /\ remaining' = quiet
  /\ UNCHANGED <<recorderVars, quiet, uploader, manifest, saved, current,
                 outcome, cloud, crashes>>

\* Mutants: what was interrupted counts as done; nothing is skipped.
SkippedNever(f) == FALSE
SkippedWhenStarted(f) == manifest[f].status = "done" \/ manifest[f].offset > 0
Skipped(f) == manifest[f].status = "done"

Skip(f) ==
  /\ current = NoFile
  /\ First(f)
  /\ Skipped(f)
  /\ remaining' = remaining \ {f}
  /\ UNCHANGED <<recorderVars, quiet, uploader, manifest, saved, current,
                 outcome, cloud, crashes>>

\* The object after an upload of the current content of f from byte "from" up
\* to byte "to": a resumable uploader writes those bytes in place, S3 puts the
\* rest of the data as the whole object.
Object(f, from, to) ==
  IF uploader = "s3" THEN [i \in 1 .. to - from |-> disk[f]]
  ELSE [i \in 1 .. IF to > Len(cloud[f]) THEN to ELSE Len(cloud[f]) |->
          IF i \in from + 1 .. to THEN disk[f]
          ELSE IF i \in DOMAIN cloud[f] THEN cloud[f][i] ELSE 0]

\* How far an attempt may get: S3 puts all of it or nothing.
Reach(f) == IF uploader = "s3" THEN {FileLen} ELSE manifest[f].offset .. FileLen

\* Mutants: one byte more than the cloud has; an offset past the end.
PendingOneMore(n) == [status |-> "pending", offset |-> IF n = FileLen THEN n ELSE n + 1]
DonePastEnd(n) == [status |-> "done", offset |-> n + 1]
Done(n) == [status |-> "done", offset |-> n]
Pending(n) == [status |-> "pending", offset |-> n]

\* The upload returned: "result" is the FileRecord that sync_once makes of
\* its outcome.
UploadReturns(f, result) ==
  /\ current = NoFile
  /\ First(f)
  /\ ~Skipped(f)
  /\ current' = f
  /\ outcome' = result
  /\ remaining' = remaining \ {f}
  /\ UNCHANGED <<recorderVars, quiet, uploader, manifest, saved, crashes>>

UploadDone(f) ==
  /\ cloud' = [cloud EXCEPT ![f] = Object(f, manifest[f].offset, FileLen)]
  /\ UploadReturns(f, Done(FileLen))

UploadInterrupted(f) ==
  /\ Faults
  /\ uploader = "resumable"
  /\ \E to \in Reach(f) \ {FileLen} :
       /\ cloud' = [cloud EXCEPT ![f] = Object(f, manifest[f].offset, to)]
       /\ UploadReturns(f, Pending(to))

\* Mutant: a failed upload counts as done.
UploadFailedDone(f) == Faults /\ UNCHANGED cloud /\ UploadReturns(f, Done(FileLen))
\* Failed: nothing is known of the attempt; it may have got anywhere.
UploadFailed(f) ==
  /\ Faults
  /\ \/ UNCHANGED cloud
     \/ \E to \in Reach(f) :
          cloud' = [cloud EXCEPT ![f] = Object(f, manifest[f].offset, to)]
  /\ UploadReturns(f, Pending(manifest[f].offset))

\* Mutant: a file that cannot be read is given up.
ReadFailsDone(f) == Faults /\ UNCHANGED cloud /\ UploadReturns(f, Done(0))
\* The file cannot be read: it keeps its record, or gets a pending one.
ReadFails(f) ==
  /\ Faults
  /\ UNCHANGED cloud
  /\ UploadReturns(f, IF manifest[f] = Absent THEN Pending(0) ELSE manifest[f])

\* The record goes into the manifest, and the manifest to the disk.
SaveOk ==
  /\ current # NoFile
  /\ manifest' = [manifest EXCEPT ![current] = outcome]
  /\ saved' = manifest'
  /\ current' = NoFile
  /\ outcome' = Absent
  /\ UNCHANGED <<recorderVars, quiet, uploader, remaining, cloud, crashes>>

\* When the save fails the pass ends there; the manifest in memory keeps the
\* record.
SaveFails ==
  /\ Faults
  /\ current # NoFile
  /\ manifest' = [manifest EXCEPT ![current] = outcome]
  /\ current' = NoFile
  /\ outcome' = Absent
  /\ remaining' = {}
  /\ UNCHANGED <<recorderVars, quiet, uploader, saved, cloud, crashes>>

\* The agent dies and a new one loads manifest.json.  An upload that was under
\* way may have got anywhere.
Crash ==
  /\ crashes < MaxCrashes
  /\ crashes' = crashes + 1
  /\ \/ UNCHANGED cloud
     \/ /\ current = NoFile
        /\ \E f \in remaining :
             /\ First(f) /\ ~Skipped(f)
             /\ \E to \in Reach(f) :
                  cloud' = [cloud EXCEPT ![f] = Object(f, manifest[f].offset, to)]
  /\ manifest' = saved
  /\ remaining' = {}
  /\ current' = NoFile
  /\ outcome' = Absent
  /\ UNCHANGED <<recorderVars, quiet, uploader, saved>>

Attempt(f) ==
  \/ UploadDone(f)
  \/ UploadInterrupted(f)
  \/ UploadFailed(f)
  \/ ReadFails(f)

SyncOnce ==
  \/ StartPass
  \/ \E f \in Files : Skip(f) \/ Attempt(f)
  \/ SaveOk
  \/ SaveFails

Next ==
  \/ \E c \in Classes : Publish(c)
  \/ RecorderRestart
  \/ \E f \in Files : GoQuiet(f)
  \/ SyncOnce
  \/ Crash

Spec == Init /\ [][Next]_vars

\* run calls sync_once for ever; time passes; a link and a disk that are tried
\* again and again do not fail every time.
Fairness ==
  /\ WF_vars(SyncOnce)
  /\ \A f \in Files : WF_vars(GoQuiet(f))
  /\ \A f \in Files : SF_vars(UploadDone(f))
  /\ SF_vars(SaveOk)

FairSpec == Spec /\ Fairness

-----------------------------------------------------------------------------
(***************************************************************************)
(* What run tells the gateway of the blobs when it registers rollouts.     *)
(***************************************************************************)

DoneKeys == {f \in Files : manifest[f].status = "done"}

\* The claims are made of the bytes that are on the robot's disk now.
ConfirmedBlobs == {[key |-> f, content |-> Content(disk[f])] : f \in DoneKeys}

\* The object the rollouts of the request point at, if there is one: the first
\* of the sensor files in the order of the names, of all files if there is no
\* sensor file.
ObservationObject(blobs) ==
  LET sensor == {b.key : b \in {x \in blobs : x.key.class = "sensor"}}
      eligible == IF sensor = {} THEN {b.key : b \in blobs} ELSE sensor
  IN {f \in eligible : \A g \in eligible \ {f} : NameBefore(f, g)}

-----------------------------------------------------------------------------
(***************************************************************************)
(* Properties.                                                             *)
(***************************************************************************)

\* Type invariant of the directory, the agent, its manifest and the bucket.
TypeOK ==
  /\ nextSeq \in [Classes -> Nat]
  /\ recordings \in Seq(Files)
  /\ disk \in [Files -> 0 .. Len(recordings)]
  /\ quiet \subseteq Published
  /\ uploader \in {"resumable", "s3"}
  /\ {restarts, crashes} \subseteq Nat
  /\ {manifest, saved} \subseteq [Files -> FileRecord]
  /\ cloud \in [Files -> Seq(0 .. Len(recordings))]
  /\ remaining \subseteq Files
  /\ current \in Files \cup {NoFile}
  /\ outcome \in FileRecord

InCloud(r) == cloud[recordings[r]] = Content(r)

\* No second recording has taken the name.
UsedOnce(f) == \A r, s \in DOMAIN recordings : {recordings[r], recordings[s]} = {f} => r = s

\* What the manifest calls done, on disk or in the record about to be stored,
\* is complete in the bucket, and the bytes there are those of the recording
\* that has that name, if the recorder has used the name only once; and so is
\* every blob a request to the gateway claims or points at, whenever it is
\* built (sync_once, done_keys, confirmed_blobs, build_ingest_request_json:
\* "a claim always describes an object the gateway can HEAD in the bucket").
DoneIsInCloud ==
  /\ \A f \in {g \in Files : UsedOnce(g)} :
       \/ saved[f].status = "done"
       \/ current = f /\ outcome.status = "done"
       => cloud[f] = Content(disk[f])
  /\ \A b \in ConfirmedBlobs : UsedOnce(b.key) => cloud[b.key] = b.content
  /\ \A f \in ObservationObject(ConfirmedBlobs) : UsedOnce(f) => cloud[f] = Content(disk[f])

\* For such a name, a resume offset, in memory or on disk, never runs ahead of
\* the bytes of this recording that the bucket has: what an attempt skips is
\* there, whatever failed or crashed before (sync_once, Manifest::save,
\* Manifest::load).
OffsetIsConfirmed ==
  \A f \in {g \in Published : UsedOnce(g)} : \A m \in {manifest, saved} :
    \A i \in 1 .. m[f].offset : i \in DOMAIN cloud[f] /\ cloud[f][i] = disk[f]

\* When an upload returns, no file of a more urgent class still waits in the
\* pass, whatever was published, skipped or retried meanwhile (sync_once).
SafetyFirst ==
  current # NoFile =>
    \A g \in remaining : Rank[current.class] <= Rank[g.class]

\* Once manifest.json has a file as done, neither the record nor the object
\* changes again, across crashes, failed saves and later passes (sync_once,
\* Agent::new).
DoneIsFinal ==
  [][\A f \in Files : saved[f].status = "done" =>
       /\ saved'[f] = saved[f]
       /\ cloud'[f] = cloud[f]]_vars

\* A recording that is on the robot's disk and not complete in the bucket is
\* not marked as done: "a finished file stays pending and is retried every sync
\* until the cloud confirms the whole thing arrived".
StaysPending ==
  \A r \in DOMAIN recordings :
    disk[recordings[r]] = r /\ ~InCloud(r) =>
      "done" \notin {manifest[recordings[r]].status, saved[recordings[r]].status}

RecordingIds == 1 .. (MaxRestarts + 1) * Cardinality(Files)

\* The agent implements StoreForward: what it has durably marked as done the
\* cloud has received, and neither is ever taken back.
Store == INSTANCE StoreForward WITH
  Recordings <- RecordingIds,
  recorded <- DOMAIN recordings,
  received <- {r \in DOMAIN recordings : InCloud(r)},
  confirmed <- {r \in DOMAIN recordings : saved[recordings[r]].status = "done"}

ImplementsStoreForward == Store!Spec

\* Every published recording is eventually complete in the bucket, if the link
\* and the disk do not fail every time (run, sync_once).  That manifest.json
\* eventually says so is not true: a save that fails after the last upload is
\* not tried again.
AllDelivered == Store!EventuallyReceived
=============================================================================
