---------------------------- MODULE AgentProofs ----------------------------
(***************************************************************************)
(* Proofs about Agent: what its runs check on two files of two or three    *)
(* bytes, for any set of classes, any number and length of files, any      *)
(* number of crashes and restarts, and both kinds of uploader.             *)
(***************************************************************************)
EXTENDS Agent, SequenceTheorems, FiniteSetTheorems, TLAPS

-----------------------------------------------------------------------------
(***************************************************************************)
(* The parts of the inductive invariant.                                   *)
(***************************************************************************)

\* A published file holds the last recording of its name.
Named ==
  /\ \A f \in Files : disk[f] # 0 => recordings[disk[f]] = f
  /\ \A r \in DOMAIN recordings : r <= disk[recordings[r]]

\* The agent knows nothing of a name that was never published.
Untouched ==
  /\ remaining \cup ({current} \ {NoFile}) \subseteq Published
  /\ \A f \in Files \ Published : manifest[f] = Absent /\ saved[f] = Absent

\* An object is never longer than a file.
Lengths == \A f \in Files : Len(cloud[f]) <= FileLen

\* What the agent believes of f: in memory, on disk, about to be stored.
Believed(f) == {manifest[f], saved[f]} \cup {m \in {outcome} : current = f}

\* S3 puts whole objects, so it never has a place to resume from.
WholeObjects ==
  uploader = "s3" => \A f \in Files : \A m \in Believed(f) : m.status = "done" \/ m.offset = 0

\* The manifest on disk is never ahead of the one in memory, and what was just
\* uploaded was not done before.
SavedBehind ==
  /\ \A f \in Files : saved[f].status = "done" => manifest[f] = saved[f]
  /\ current # NoFile => manifest[current].status # "done"

\* An object with content o is what record m says of recording r.
Backed(o, r, m) ==
  /\ \A i \in 1 .. m.offset : i \in DOMAIN o /\ o[i] = r
  /\ m.status = "done" => o = Content(r)

BeliefsBacked ==
  \A f \in Published : UsedOnce(f) => \A m \in Believed(f) : Backed(cloud[f], disk[f], m)

IInv == Named /\ Untouched /\ Lengths /\ WholeObjects /\ SavedBehind /\ BeliefsBacked

-----------------------------------------------------------------------------
(***************************************************************************)
(* Names, records and objects.                                             *)
(***************************************************************************)

LEMMA NameOfFile ==
  ASSUME NEW f \in Files
  PROVE  f.class \in Classes /\ f.seq \in Nat /\ f # NoFile
BY AgentAssumption DEF Files, NoFile

LEMMA RecordTypes ==
  /\ Absent \in FileRecord
  /\ \A n \in 0 .. FileLen : Done(n) \in FileRecord /\ Pending(n) \in FileRecord
  /\ FileLen \in 0 .. FileLen /\ 0 \in 0 .. FileLen
BY AgentAssumption DEF FileRecord, Absent, Done, Pending

\* A function on an initial interval is a sequence.
LEMMA FunctionIsSeq ==
  ASSUME NEW S, NEW n \in Nat, NEW f \in [1 .. n -> S]
  PROVE  f \in Seq(S) /\ Len(f) = n
<1>1. f \in Seq(S)
  BY SeqDef
<1> QED
  BY <1>1

LEMMA SeqOfSubset ==
  ASSUME NEW S, NEW T, S \subseteq T
  PROVE  Seq(S) \subseteq Seq(T)
<1> SUFFICES ASSUME NEW s \in Seq(S) PROVE s \in Seq(T)
  OBVIOUS
<1>1. Len(s) \in Nat /\ s \in [1 .. Len(s) -> T]
  OBVIOUS
<1> QED
  BY <1>1, FunctionIsSeq

\* The object an attempt leaves: typed, no longer than a file unless it was,
\* with the new bytes in their place and every old byte or the new one.
LEMMA ObjectFacts ==
  ASSUME TypeOK, NEW f \in Files, NEW from \in 0 .. FileLen, NEW to \in from .. FileLen,
         uploader = "s3" => from = 0
  PROVE  LET o == Object(f, from, to) IN
         /\ o \in Seq(0 .. Len(recordings))
         /\ Len(o) <= FileLen \/ Len(o) = Len(cloud[f])
         /\ \A i \in from + 1 .. to : i \in DOMAIN o /\ o[i] = disk[f]
         /\ \A i \in DOMAIN cloud[f] : i \in DOMAIN o => o[i] \in {cloud[f][i], disk[f]}
         /\ uploader # "s3" \/ Len(cloud[f]) <= to => DOMAIN cloud[f] \subseteq DOMAIN o
<1> DEFINE o == Object(f, from, to)
           S == 0 .. Len(recordings)
           old == cloud[f]
<1>1. disk[f] \in S /\ 0 \in S /\ old \in Seq(S) /\ Len(old) \in Nat /\ DOMAIN old = 1 .. Len(old)
  BY DEF TypeOK
<1>2. FileLen \in Nat /\ from \in Nat /\ to \in Nat /\ from <= to /\ to <= FileLen
  BY AgentAssumption
<1>3. CASE uploader = "s3"
  <2>1. o = [i \in 1 .. to |-> disk[f]]
    <3>1. from = 0 /\ to - from = to
      BY <1>2, <1>3
    <3> QED
      BY <1>3, <3>1 DEF Object
  <2> HIDE DEF o
  <2>2. o \in [1 .. to -> S]
    BY <1>1, <2>1
  <2>3. o \in Seq(S) /\ Len(o) = to /\ DOMAIN o = 1 .. to
    BY <1>2, <2>2, FunctionIsSeq
  <2> QED
    BY <1>1, <1>2, <1>3, <2>1, <2>3 DEF o
<1>4. CASE uploader # "s3"
  <2> DEFINE len == IF to > Len(old) THEN to ELSE Len(old)
  <2>1. len \in Nat /\ to <= len /\ Len(old) <= len /\ len \in {to, Len(old)}
    BY <1>1, <1>2
  <2>2. o = [i \in 1 .. len |-> IF i \in from + 1 .. to THEN disk[f]
                                ELSE IF i \in DOMAIN old THEN old[i] ELSE 0]
    BY <1>4 DEF Object
  <2> HIDE DEF o, len
  <2>3. \A i \in DOMAIN old : old[i] \in S
    BY <1>1
  <2>4. o \in [1 .. len -> S]
    BY <1>1, <2>2, <2>3
  <2>5. o \in Seq(S) /\ Len(o) = len /\ DOMAIN o = 1 .. len
    BY <2>1, <2>4, FunctionIsSeq
  <2>6. \A i \in from + 1 .. to : i \in DOMAIN o /\ o[i] = disk[f]
    BY <1>2, <2>1, <2>2, <2>5
  <2>7. \A i \in DOMAIN old : i \in DOMAIN o /\ o[i] \in {old[i], disk[f]}
    BY <1>1, <2>1, <2>2, <2>5
  <2>8. Len(o) <= FileLen \/ Len(o) = Len(old)
    BY <1>2, <2>1, <2>5
  <2> QED
    BY <1>4, <2>5, <2>6, <2>7, <2>8 DEF o
<1> QED
  BY <1>3, <1>4

\* Where an attempt on f starts and how far it may get.
LEMMA ReachOfFile ==
  ASSUME TypeOK, NEW f \in Files, NEW to \in Reach(f)
  PROVE  manifest[f].offset \in 0 .. FileLen /\ to \in 0 .. FileLen
BY AgentAssumption DEF TypeOK, Reach, FileRecord

LEMMA TransferTyped ==
  ASSUME TypeOK, NEW f \in Files, NEW to \in Reach(f),
         cloud' = [cloud EXCEPT ![f] = Object(f, manifest[f].offset, to)]
  PROVE  cloud' \in [Files -> Seq(0 .. Len(recordings))]
<1> DEFINE S == 0 .. Len(recordings)
           from == manifest[f].offset
           o == Object(f, from, to)
<1>1. from \in 0 .. FileLen /\ to \in 0 .. FileLen
  BY ReachOfFile
<1>2. disk[f] \in S /\ 0 \in S /\ cloud \in [Files -> Seq(S)]
  BY DEF TypeOK
<1>3. CASE uploader = "s3"
  <2>1. to - from \in Nat
    BY <1>1, <1>3, AgentAssumption DEF Reach
  <2>2. o \in [1 .. to - from -> S]
    BY <1>2, <1>3 DEF Object
  <2> QED
    BY <1>2, <2>1, <2>2, FunctionIsSeq
<1>4. CASE uploader # "s3"
  <2>1. to \in from .. FileLen
    BY <1>1, <1>4 DEF Reach
  <2>2. o \in Seq(S)
    BY <1>1, <1>4, <2>1, ObjectFacts
  <2> QED
    BY <1>2, <2>2
<1> QED
  BY <1>3, <1>4

-----------------------------------------------------------------------------
(***************************************************************************)
(* Types.                                                                  *)
(***************************************************************************)

LEMMA InitTyped == Init => TypeOK
<1> SUFFICES ASSUME Init PROVE TypeOK
  OBVIOUS
<1>1. recordings \in Seq(Files) /\ Len(recordings) = 0
  BY DEF Init
<1>2. cloud \in [Files -> Seq(0 .. Len(recordings))]
  BY <1>1 DEF Init
<1> QED
  BY <1>1, <1>2, RecordTypes DEF Init, TypeOK, Published

\* What the recorder and time do.
LEMMA RecorderTyped ==
  ASSUME TypeOK, (\E c \in Classes : Publish(c)) \/ RecorderRestart \/ (\E f \in Files : GoQuiet(f))
  PROVE  TypeOK'
<1> USE DEF TypeOK
<1>1. CASE \E c \in Classes : Publish(c)
  <2>1. PICK c \in Classes : Publish(c)
    BY <1>1
  <2> DEFINE f == [class |-> c, seq |-> nextSeq[c]]
             n == Len(recordings)
  <2>2. f \in Files
    BY <2>1, AgentAssumption DEF Publish, Files
  <2>3. n \in Nat /\ recordings' = Append(recordings, f) /\ recordings' \in Seq(Files) /\ Len(recordings') = n + 1
    BY <2>1, <2>2 DEF Publish
  <2>4. disk' = [disk EXCEPT ![f] = n + 1] /\ quiet' = quiet \ {f} /\ nextSeq' = [nextSeq EXCEPT ![c] = @ + 1]
    BY <2>1 DEF Publish
  <2>5. UNCHANGED <<restarts, uploader, agentVars, cloud, crashes>>
    BY <2>1 DEF Publish
  <2> HIDE DEF f, n
  <2>6. 0 .. n \subseteq 0 .. n + 1 /\ n + 1 \in 0 .. n + 1
    BY <2>3
  <2>7. disk' \in [Files -> 0 .. Len(recordings')]
    BY <2>3, <2>4, <2>6 DEF n
  <2>8. cloud' \in [Files -> Seq(0 .. Len(recordings'))]
    <3> DEFINE Old == Seq(0 .. n)
               New == Seq(0 .. n + 1)
    <3>1. Old \subseteq New
      BY <2>6, SeqOfSubset
    <3>2. cloud \in [Files -> Old] /\ cloud' = cloud
      BY <2>5 DEF n
    <3> HIDE DEF Old, New
    <3>3. cloud' \in [Files -> New]
      BY <3>1, <3>2
    <3> QED
      BY <2>3, <3>3 DEF New
  <2>9. quiet' \subseteq Published'
    <3>1. \A g \in Published \ {f} : disk'[g] = disk[g]
      BY <2>4 DEF Published
    <3> QED
      BY <2>4, <3>1 DEF Published
  <2>10. nextSeq' \in [Classes -> Nat]
    BY <2>4
  <2> QED
    BY <2>3, <2>5, <2>7, <2>8, <2>9, <2>10 DEF agentVars
<1>2. CASE RecorderRestart
  BY <1>2 DEF RecorderRestart, agentVars, Published
<1>3. CASE \E f \in Files : GoQuiet(f)
  BY <1>3 DEF GoQuiet, recorderVars, agentVars, Published
<1> QED
  BY <1>1, <1>2, <1>3

\* The object and the record an attempt leaves.
LEMMA AttemptTyped ==
  ASSUME TypeOK, NEW f \in Files, Attempt(f)
  PROVE  /\ cloud' \in [Files -> Seq(0 .. Len(recordings))]
         /\ outcome' \in FileRecord
         /\ current' = f
         /\ remaining' = remaining \ {f}
         /\ UNCHANGED <<recorderVars, quiet, uploader, manifest, saved, crashes>>
<1>1. manifest[f] \in FileRecord /\ manifest[f].offset \in 0 .. FileLen
  BY DEF TypeOK, FileRecord
<1>2. cloud \in [Files -> Seq(0 .. Len(recordings))]
  BY DEF TypeOK
<1>3. CASE UploadDone(f)
  <2>1. FileLen \in Reach(f)
    BY <1>1, AgentAssumption DEF Reach
  <2>2. cloud' \in [Files -> Seq(0 .. Len(recordings))]
    BY <1>3, <2>1, TransferTyped DEF UploadDone
  <2> QED
    BY <1>3, <2>2, RecordTypes DEF UploadDone, UploadReturns
<1>4. CASE UploadInterrupted(f)
  <2>1. PICK to \in Reach(f) : /\ cloud' = [cloud EXCEPT ![f] = Object(f, manifest[f].offset, to)]
                               /\ UploadReturns(f, Pending(to))
    BY <1>4 DEF UploadInterrupted
  <2>2. cloud' \in [Files -> Seq(0 .. Len(recordings))] /\ to \in 0 .. FileLen
    BY <2>1, TransferTyped, ReachOfFile
  <2> QED
    BY <2>1, <2>2, RecordTypes DEF UploadReturns
<1>5. CASE UploadFailed(f)
  <2>1. cloud' \in [Files -> Seq(0 .. Len(recordings))]
    BY <1>2, <1>5, TransferTyped DEF UploadFailed
  <2> QED
    BY <1>1, <1>5, <2>1, RecordTypes DEF UploadFailed, UploadReturns
<1>6. CASE ReadFails(f)
  BY <1>1, <1>2, <1>6, RecordTypes DEF ReadFails, UploadReturns
<1> QED
  BY <1>3, <1>4, <1>5, <1>6 DEF Attempt

LEMMA AgentTyped ==
  ASSUME TypeOK, SyncOnce \/ Crash
  PROVE  TypeOK'
<1> USE DEF recorderVars
<1>1. CASE StartPass
  BY <1>1 DEF TypeOK, StartPass, Published
<1>2. ASSUME NEW f \in Files, Skip(f) PROVE TypeOK'
  BY <1>2 DEF TypeOK, Skip, Published
<1>3. ASSUME NEW f \in Files, Attempt(f) PROVE TypeOK'
  BY <1>3, AttemptTyped DEF TypeOK, Published
<1>4. CASE SaveOk
  BY <1>4, RecordTypes DEF TypeOK, SaveOk, Published
<1>5. CASE SaveFails
  BY <1>5, RecordTypes DEF TypeOK, SaveFails, Published
<1>6. CASE Crash
  <2>1. cloud' \in [Files -> Seq(0 .. Len(recordings))]
    BY <1>6, TransferTyped DEF TypeOK, Crash
  <2> QED
    BY <1>6, <2>1, RecordTypes DEF TypeOK, Crash, Published
<1> QED
  BY <1>1, <1>2, <1>3, <1>4, <1>5, <1>6 DEF SyncOnce

\* Directory, manifest and bucket have their types: no record or object names a
\* recording there never was.
THEOREM TypeCorrect == Spec => []TypeOK
<1>1. TypeOK /\ [Next]_vars => TypeOK'
  <2>1. ASSUME TypeOK, UNCHANGED vars PROVE TypeOK'
    BY <2>1 DEF TypeOK, vars, recorderVars, agentVars, Published
  <2> QED
    BY <2>1, RecorderTyped, AgentTyped DEF Next
<1> QED
  BY InitTyped, <1>1, PTL DEF Spec

-----------------------------------------------------------------------------
(***************************************************************************)
(* The inductive invariant.                                                *)
(***************************************************************************)

LEMMA AbsentIsBacked ==
  ASSUME NEW o, NEW r
  PROVE  Backed(o, r, Absent)
BY DEF Backed, Absent

LEMMA InitIInv == Init => IInv
<1> SUFFICES ASSUME Init PROVE IInv
  OBVIOUS
<1>1. Published = {} /\ DOMAIN recordings = {}
  BY DEF Init, Published
<1>2. Named /\ Untouched /\ BeliefsBacked
  BY <1>1 DEF Init, Named, Untouched, BeliefsBacked
<1>3. Lengths
  BY AgentAssumption DEF Init, Lengths
<1>4. WholeObjects /\ SavedBehind
  BY DEF Init, WholeObjects, SavedBehind, Believed, Absent
<1> QED
  BY <1>2, <1>3, <1>4 DEF IInv

\* What a publication does to the directory and to the names in it.
LEMMA PublishFacts ==
  ASSUME TypeOK, Named, NEW c \in Classes, Publish(c),
         NEW f, f = [class |-> c, seq |-> nextSeq[c]], NEW n, n = Len(recordings) + 1
  PROVE  /\ f \in Files
         /\ DOMAIN recordings' = 1 .. n
         /\ recordings'[n] = f
         /\ \A r \in DOMAIN recordings : r \in 1 .. n - 1 /\ recordings'[r] = recordings[r]
         /\ disk'[f] = n
         /\ \A g \in Files \ {f} : disk'[g] = disk[g]
         /\ UsedOnce(f)' => disk[f] = 0
         /\ \A g \in Files : UsedOnce(g)' => UsedOnce(g)
<1>1. f \in Files
  BY AgentAssumption DEF Publish, Files, TypeOK
<1>2. n \in Nat \ {0} /\ DOMAIN recordings = 1 .. n - 1 /\ recordings \in Seq(Files)
  BY DEF TypeOK
<1>3. recordings' = Append(recordings, f) /\ disk' = [disk EXCEPT ![f] = n]
  BY DEF Publish
<1>4. DOMAIN recordings' = 1 .. n /\ recordings'[n] = f
  BY <1>1, <1>2, <1>3
<1>5. \A r \in DOMAIN recordings : r \in 1 .. n - 1 /\ r \in 1 .. n /\ recordings'[r] = recordings[r] /\ r # n
  BY <1>1, <1>2, <1>3
<1>6. disk'[f] = n /\ \A g \in Files \ {f} : disk'[g] = disk[g]
  BY <1>1, <1>3 DEF TypeOK
<1>7. ASSUME UsedOnce(f)', disk[f] # 0 PROVE FALSE
  <2>1. disk[f] \in DOMAIN recordings /\ recordings[disk[f]] = f
    BY <1>1, <1>2, <1>7 DEF TypeOK, Named
  <2>2. disk[f] \in DOMAIN recordings' /\ n \in DOMAIN recordings' /\ disk[f] # n
    BY <1>2, <1>4, <1>5, <2>1
  <2>3. {recordings'[disk[f]], recordings'[n]} = {f}
    BY <1>4, <1>5, <2>1
  <2> QED
    BY <1>7, <2>2, <2>3 DEF UsedOnce
<1>8. ASSUME NEW g \in Files, UsedOnce(g)' PROVE UsedOnce(g)
  BY <1>4, <1>5, <1>8 DEF UsedOnce
<1> QED
  BY <1>1, <1>4, <1>5, <1>6, <1>7, <1>8

LEMMA PublishStep ==
  ASSUME TypeOK, IInv, NEW c \in Classes, Publish(c)
  PROVE  IInv'
<1> USE DEF IInv
<1>0. PICK f, n : f = [class |-> c, seq |-> nextSeq[c]] /\ n = Len(recordings) + 1
  OBVIOUS
<1>1. /\ f \in Files
      /\ DOMAIN recordings' = 1 .. n
      /\ recordings'[n] = f
      /\ \A r \in DOMAIN recordings : r \in 1 .. n - 1 /\ recordings'[r] = recordings[r]
      /\ disk'[f] = n
      /\ \A g \in Files \ {f} : disk'[g] = disk[g]
      /\ UsedOnce(f)' => disk[f] = 0
      /\ \A g \in Files : UsedOnce(g)' => UsedOnce(g)
  BY <1>0, PublishFacts
<1>2. UNCHANGED <<uploader, manifest, saved, remaining, current, outcome, cloud>>
  BY DEF Publish, agentVars
<1>3. n \in Nat \ {0} /\ DOMAIN recordings = 1 .. n - 1
      /\ \A g \in Files : disk[g] \in 0 .. n - 1
      /\ \A r \in DOMAIN recordings : recordings[r] \in Files
  BY <1>0 DEF TypeOK
<1>4. Published' = Published \cup {f}
  BY <1>1, <1>3 DEF Published
<1>5. \A g \in Files : Believed(g)' = Believed(g)
  BY <1>2 DEF Believed
<1>6. Named'
  <2>1. ASSUME NEW g \in Files, disk'[g] # 0 PROVE recordings'[disk'[g]] = g
    <3>1. CASE g = f
      BY <1>1, <3>1
    <3>2. CASE g # f
      <4>1. disk'[g] = disk[g] /\ disk[g] \in DOMAIN recordings
        BY <1>1, <1>3, <2>1, <3>2
      <4> QED
        BY <1>1, <2>1, <4>1 DEF Named
    <3> QED
      BY <3>1, <3>2
  <2>2. ASSUME NEW r \in 1 .. n PROVE r <= disk'[recordings'[r]]
    <3>1. CASE r = n
      BY <1>1, <1>3, <3>1
    <3>2. CASE r # n
      <4>1. r \in DOMAIN recordings /\ recordings'[r] = recordings[r]
        BY <1>1, <1>3, <3>2
      <4>2. r <= disk[recordings[r]]
        BY <4>1 DEF Named
      <4> QED
        BY <1>1, <1>3, <4>1, <4>2
    <3> QED
      BY <3>1, <3>2
  <2> QED
    BY <1>1, <2>1, <2>2 DEF Named
<1>7. Untouched'
  BY <1>2, <1>4 DEF Untouched
<1>8. Lengths' /\ WholeObjects' /\ SavedBehind'
  BY <1>2, <1>5 DEF Lengths, WholeObjects, SavedBehind
<1>9. BeliefsBacked'
  <2> SUFFICES ASSUME NEW g \in Published', UsedOnce(g)', NEW m \in Believed(g)
               PROVE  Backed(cloud[g], disk'[g], m)
    BY <1>2, <1>5 DEF BeliefsBacked, Published
  <2>1. CASE g = f
    <3>1. g \in Files \ Published
      BY <1>1, <2>1 DEF Published
    <3>2. manifest[g] = Absent /\ saved[g] = Absent /\ current # g
      BY <3>1, NameOfFile DEF Untouched
    <3> QED
      BY <3>2, AbsentIsBacked DEF Believed
  <2>2. CASE g # f
    <3>1. g \in Published /\ UsedOnce(g) /\ disk'[g] = disk[g]
      BY <1>1, <1>4, <2>2 DEF Published
    <3> QED
      BY <3>1 DEF BeliefsBacked
  <2> QED
    BY <2>1, <2>2
<1> QED
  BY <1>6, <1>7, <1>8, <1>9

-----------------------------------------------------------------------------
(***************************************************************************)
(* What an attempt does to an object.                                      *)
(***************************************************************************)

\* Of the objects only that of f may change; it keeps every byte of the present
\* recording and stays within the length of a file.
Extended(f) ==
  /\ \A g \in Files \ {f} : cloud'[g] = cloud[g]
  /\ cloud' \in [Files -> Seq(0 .. Len(recordings))]
  /\ Len(cloud'[f]) <= FileLen
  /\ \A i \in DOMAIN cloud[f] :
       i \in DOMAIN cloud'[f] /\ (cloud[f][i] = disk[f] => cloud'[f][i] = disk[f])

LEMMA WholeIsContent ==
  ASSUME NEW S, NEW o \in Seq(S), Len(o) <= FileLen, NEW r,
         \A i \in 1 .. FileLen : i \in DOMAIN o /\ o[i] = r
  PROVE  o = Content(r)
<1>1. FileLen \in Nat \ {0} /\ Len(o) \in Nat /\ DOMAIN o = 1 .. Len(o)
  BY AgentAssumption
<1>2. FileLen \in 1 .. FileLen
  BY <1>1
<1>3. Len(o) = FileLen
  <2>1. FileLen \in 1 .. Len(o)
    BY <1>1, <1>2
  <2>2. \A k, l \in Nat : l \in 1 .. k /\ k <= l => k = l
    OBVIOUS
  <2> QED
    BY <1>1, <2>1, <2>2, Zenon
<1>4. o = [i \in 1 .. FileLen |-> r]
  BY <1>1, <1>3
<1> QED
  BY <1>4 DEF Content

LEMMA BackedStays ==
  ASSUME TypeOK, NEW f \in Files, Extended(f), NEW m \in FileRecord, Backed(cloud[f], disk[f], m)
  PROVE  Backed(cloud'[f], disk[f], m)
<1>1. \A i \in 1 .. m.offset : i \in DOMAIN cloud'[f] /\ cloud'[f][i] = disk[f]
  BY DEF Backed, Extended
<1>2. ASSUME m.status = "done" PROVE cloud'[f] = Content(disk[f])
  <2>1. \A i \in 1 .. FileLen : i \in DOMAIN cloud[f] /\ cloud[f][i] = disk[f]
    BY <1>2 DEF Backed, Content
  <2>2. \A i \in 1 .. FileLen : i \in DOMAIN cloud'[f] /\ cloud'[f][i] = disk[f]
    BY <2>1 DEF Extended
  <2> QED
    BY <2>2, WholeIsContent DEF Extended
<1> QED
  BY <1>1, <1>2 DEF Backed

LEMMA NoTransferExtends ==
  ASSUME TypeOK, IInv, NEW f \in Files, UNCHANGED cloud
  PROVE  Extended(f)
BY DEF TypeOK, IInv, Lengths, Extended

LEMMA TransferExtends ==
  ASSUME TypeOK, IInv, NEW f \in Files, manifest[f].status # "done", NEW to \in Reach(f),
         cloud' = [cloud EXCEPT ![f] = Object(f, manifest[f].offset, to)]
  PROVE  /\ Extended(f)
         /\ to \in manifest[f].offset .. FileLen
         /\ \A i \in manifest[f].offset + 1 .. to : i \in DOMAIN cloud'[f] /\ cloud'[f][i] = disk[f]
<1> DEFINE from == manifest[f].offset
           o == Object(f, from, to)
<1>1. from \in 0 .. FileLen /\ to \in 0 .. FileLen
  BY ReachOfFile
<1>2. uploader = "s3" => from = 0 /\ to = FileLen
  BY DEF IInv, WholeObjects, Believed, Reach
<1>3. to \in from .. FileLen
  BY <1>1, <1>2 DEF Reach
<1>4. cloud \in [Files -> Seq(0 .. Len(recordings))] /\ Len(cloud[f]) \in Nat /\ Len(cloud[f]) <= FileLen
  BY DEF TypeOK, IInv, Lengths
<1>5. /\ o \in Seq(0 .. Len(recordings))
      /\ Len(o) <= FileLen \/ Len(o) = Len(cloud[f])
      /\ \A i \in from + 1 .. to : i \in DOMAIN o /\ o[i] = disk[f]
      /\ \A i \in DOMAIN cloud[f] : i \in DOMAIN o => o[i] \in {cloud[f][i], disk[f]}
      /\ uploader # "s3" \/ Len(cloud[f]) <= to => DOMAIN cloud[f] \subseteq DOMAIN o
  BY <1>1, <1>2, <1>3, ObjectFacts
<1>6. cloud'[f] = o /\ (\A g \in Files \ {f} : cloud'[g] = cloud[g])
      /\ cloud' \in [Files -> Seq(0 .. Len(recordings))]
  BY <1>4, <1>5
<1> HIDE DEF o
<1>7. Len(cloud'[f]) <= FileLen /\ DOMAIN cloud[f] \subseteq DOMAIN cloud'[f]
  BY <1>2, <1>4, <1>5, <1>6
<1> QED
  BY <1>3, <1>5, <1>6, <1>7 DEF Extended

\* What was believed before stays true when an object is extended.
LEMMA OldBeliefs ==
  ASSUME TypeOK, IInv, NEW f \in Files, Extended(f), UNCHANGED disk
  PROVE  /\ Lengths'
         /\ \A g \in Published : UsedOnce(g) => \A m \in Believed(g) : Backed(cloud'[g], disk'[g], m)
<1>1. \A g \in Files : Believed(g) \subseteq FileRecord
  BY DEF TypeOK, Believed
<1>2. Lengths'
  BY DEF IInv, Lengths, Extended
<1>3. ASSUME NEW g \in Published, UsedOnce(g), NEW m \in Believed(g)
      PROVE  Backed(cloud'[g], disk'[g], m)
  <2>1. Backed(cloud[g], disk[g], m) /\ g \in Files
    BY <1>3 DEF IInv, BeliefsBacked, Published
  <2>2. CASE g = f
    BY <1>1, <1>3, <2>1, <2>2, BackedStays
  <2>3. CASE g # f
    BY <2>1, <2>3 DEF Extended
  <2> QED
    BY <2>2, <2>3
<1> QED
  BY <1>2, <1>3

\* The record of an attempt is as true of the object as the record before it.
LEMMA AttemptFacts ==
  ASSUME TypeOK, IInv, NEW f \in Files, Attempt(f)
  PROVE  /\ current = NoFile /\ First(f) /\ manifest[f].status # "done"
         /\ Extended(f)
         /\ Backed(cloud[f], disk[f], manifest[f]) => Backed(cloud'[f], disk[f], outcome')
         /\ uploader = "s3" => outcome'.status = "done" \/ outcome'.offset = 0
<1> DEFINE from == manifest[f].offset
<1>1. current = NoFile /\ First(f) /\ manifest[f].status # "done"
  BY DEF Attempt, UploadDone, UploadInterrupted, UploadFailed, ReadFails, UploadReturns, Skipped
<1>2. manifest[f] \in FileRecord /\ from \in 0 .. FileLen /\ FileLen \in Nat
  BY AgentAssumption DEF TypeOK, FileRecord
<1>3. uploader = "s3" => from = 0
  BY <1>1 DEF IInv, WholeObjects, Believed
<1>4. CASE UploadDone(f)
  <2>1. FileLen \in Reach(f)
    BY <1>2 DEF Reach
  <2>2. Extended(f) /\ \A i \in from + 1 .. FileLen : i \in DOMAIN cloud'[f] /\ cloud'[f][i] = disk[f]
    BY <1>1, <1>4, <2>1, TransferExtends DEF UploadDone
  <2>3. outcome' = Done(FileLen)
    BY <1>4 DEF UploadDone, UploadReturns
  <2>4. ASSUME Backed(cloud[f], disk[f], manifest[f])
        PROVE  Backed(cloud'[f], disk[f], outcome')
    <3>1. \A i \in 1 .. from : i \in DOMAIN cloud'[f] /\ cloud'[f][i] = disk[f]
      BY <1>2, <2>2, <2>4, BackedStays DEF Backed
    <3>2. \A i \in 1 .. FileLen : i \in DOMAIN cloud'[f] /\ cloud'[f][i] = disk[f]
      BY <1>2, <2>2, <3>1
    <3>3. cloud'[f] = Content(disk[f])
      BY <2>2, <3>2, WholeIsContent DEF Extended
    <3> QED
      BY <2>3, <3>2, <3>3 DEF Backed, Done
  <2> QED
    BY <1>1, <2>2, <2>3, <2>4 DEF Done
<1>5. CASE UploadInterrupted(f)
  <2>1. PICK to \in Reach(f) : /\ cloud' = [cloud EXCEPT ![f] = Object(f, from, to)]
                               /\ UploadReturns(f, Pending(to))
    BY <1>5 DEF UploadInterrupted
  <2>2. Extended(f) /\ to \in from .. FileLen
        /\ \A i \in from + 1 .. to : i \in DOMAIN cloud'[f] /\ cloud'[f][i] = disk[f]
    BY <1>1, <2>1, TransferExtends
  <2>3. outcome' = Pending(to) /\ uploader # "s3"
    BY <1>5, <2>1 DEF UploadInterrupted, UploadReturns
  <2>4. ASSUME Backed(cloud[f], disk[f], manifest[f])
        PROVE  Backed(cloud'[f], disk[f], outcome')
    <3>1. \A i \in 1 .. from : i \in DOMAIN cloud'[f] /\ cloud'[f][i] = disk[f]
      BY <1>2, <2>2, <2>4, BackedStays DEF Backed
    <3>2. \A i \in 1 .. to : i \in DOMAIN cloud'[f] /\ cloud'[f][i] = disk[f]
      BY <1>2, <2>2, <3>1
    <3> QED
      BY <2>3, <3>2 DEF Backed, Pending
  <2> QED
    BY <1>1, <2>2, <2>3, <2>4
<1>6. CASE UploadFailed(f)
  <2>1. Extended(f)
    BY <1>1, <1>6, TransferExtends, NoTransferExtends DEF UploadFailed
  <2>2. outcome' = Pending(from)
    BY <1>6 DEF UploadFailed, UploadReturns
  <2>3. ASSUME Backed(cloud[f], disk[f], manifest[f])
        PROVE  Backed(cloud'[f], disk[f], outcome')
    BY <1>2, <2>1, <2>2, <2>3, BackedStays DEF Backed, Pending
  <2> QED
    BY <1>1, <1>3, <2>1, <2>2, <2>3 DEF Pending
<1>7. CASE ReadFails(f)
  <2>1. Extended(f) /\ cloud' = cloud
    BY <1>7, NoTransferExtends DEF ReadFails
  <2>2. outcome' = Pending(0) \/ outcome' = manifest[f]
    BY <1>7 DEF ReadFails, UploadReturns
  <2> QED
    BY <1>1, <1>3, <2>1, <2>2 DEF Backed, Pending
<1> QED
  BY <1>4, <1>5, <1>6, <1>7 DEF Attempt

LEMMA AttemptStep ==
  ASSUME TypeOK, IInv, NEW f \in Files, Attempt(f)
  PROVE  IInv'
<1>1. /\ current' = f
      /\ remaining' = remaining \ {f}
      /\ UNCHANGED <<recordings, disk, uploader, manifest, saved>>
  BY AttemptTyped DEF recorderVars
<1>2. /\ current = NoFile /\ First(f) /\ manifest[f].status # "done"
      /\ Extended(f)
      /\ Backed(cloud[f], disk[f], manifest[f]) => Backed(cloud'[f], disk[f], outcome')
      /\ uploader = "s3" => outcome'.status = "done" \/ outcome'.offset = 0
  BY AttemptFacts
<1>3. f \in Published /\ Published' = Published /\ f # NoFile
  BY <1>1, <1>2, NameOfFile DEF First, IInv, Untouched, Published
<1>4. \A g \in Files : \A m \in Believed(g)' : m \in Believed(g) \/ (g = f /\ m = outcome')
  BY <1>1 DEF Believed
<1>5. Named'
  BY <1>1 DEF IInv, Named
<1>6. Untouched'
  BY <1>1, <1>3 DEF IInv, Untouched
<1>7. Lengths'
  BY <1>1, <1>2, OldBeliefs
<1>8. WholeObjects'
  BY <1>1, <1>2, <1>4 DEF IInv, WholeObjects
<1>9. SavedBehind'
  BY <1>1, <1>2 DEF IInv, SavedBehind
<1>10. BeliefsBacked'
  <2> SUFFICES ASSUME NEW g \in Published, UsedOnce(g), NEW m \in Believed(g)'
               PROVE  Backed(cloud'[g], disk'[g], m)
    BY <1>1, <1>3 DEF BeliefsBacked, UsedOnce
  <2>1. g \in Files
    BY DEF Published
  <2>2. CASE m \in Believed(g)
    BY <1>1, <1>2, <2>2, OldBeliefs
  <2>3. CASE g = f /\ m = outcome'
    <3>1. Backed(cloud[f], disk[f], manifest[f])
      BY <1>3, <2>3 DEF IInv, BeliefsBacked, Believed
    <3> QED
      BY <1>1, <1>2, <2>3, <3>1
  <2> QED
    BY <1>4, <2>1, <2>2, <2>3
<1> QED
  BY <1>5, <1>6, <1>7, <1>8, <1>9, <1>10 DEF IInv

\* A step that believes nothing new, and extends at most an object that is not
\* done, keeps the invariant.
LEMMA NothingNew ==
  ASSUME TypeOK, IInv,
         UNCHANGED <<recordings, disk, uploader>>,
         \/ UNCHANGED cloud
         \/ \E f \in Files : Extended(f),
         \A g \in Files : Believed(g)' \subseteq Believed(g),
         remaining' \subseteq Published,
         current' \in {current, NoFile},
         SavedBehind'
  PROVE  IInv'
<1>1. Published' = Published
  BY DEF Published
<1>2. \A g \in Files : {manifest'[g], saved'[g]} \subseteq Believed(g)
  BY DEF Believed
<1>3. Named'
  BY DEF IInv, Named
<1>4. Untouched'
  <2>1. \A g \in Files \ Published : Believed(g) = {Absent}
    BY NameOfFile DEF IInv, Untouched, Believed
  <2> QED
    BY <1>1, <1>2, <2>1 DEF IInv, Untouched
<1>5. WholeObjects'
  BY DEF IInv, WholeObjects
<1>6. Lengths' /\ \A g \in Published : UsedOnce(g) => \A m \in Believed(g) : Backed(cloud'[g], disk'[g], m)
  <2>1. CASE UNCHANGED cloud
    BY <2>1 DEF IInv, Lengths, BeliefsBacked
  <2>2. CASE \E f \in Files : Extended(f)
    BY <2>2, OldBeliefs
  <2> QED
    BY <2>1, <2>2
<1>7. BeliefsBacked'
  <2> SUFFICES ASSUME NEW g \in Published, UsedOnce(g), NEW m \in Believed(g)'
               PROVE  Backed(cloud'[g], disk'[g], m)
    BY <1>1 DEF BeliefsBacked, UsedOnce
  <2>1. m \in Believed(g)
    BY DEF Published
  <2> QED
    BY <1>6, <2>1
<1> QED
  BY <1>3, <1>4, <1>5, <1>6, <1>7 DEF IInv

LEMMA NextStep ==
  ASSUME TypeOK, IInv, [Next]_vars
  PROVE  IInv'
<1> USE DEF recorderVars
<1>1. ASSUME NEW c \in Classes, Publish(c) PROVE IInv'
  BY <1>1, PublishStep
<1>2. CASE RecorderRestart \/ (\E f \in Files : GoQuiet(f)) \/ UNCHANGED vars
  <2>1. UNCHANGED <<recordings, disk, uploader, cloud, agentVars>>
    BY <1>2 DEF RecorderRestart, GoQuiet, vars
  <2> QED
    BY <2>1, NothingNew DEF agentVars, Believed, IInv, SavedBehind, Untouched
<1>3. CASE StartPass
  <2>1. UNCHANGED <<recordings, disk, uploader, cloud, manifest, saved, current, outcome>>
        /\ remaining' \subseteq Published
    BY <1>3 DEF StartPass, TypeOK
  <2> QED
    BY <2>1, NothingNew DEF Believed, IInv, SavedBehind
<1>4. ASSUME NEW f \in Files, Skip(f) PROVE IInv'
  <2>1. UNCHANGED <<recordings, disk, uploader, cloud, manifest, saved, current, outcome>>
        /\ remaining' \subseteq Published
    BY <1>4 DEF Skip, IInv, Untouched
  <2> QED
    BY <2>1, NothingNew DEF Believed, IInv, SavedBehind
<1>5. ASSUME NEW f \in Files, Attempt(f) PROVE IInv'
  BY <1>5, AttemptStep
<1>6. CASE SaveOk
  <2>1. /\ current \in Files /\ current # NoFile /\ current' = NoFile
        /\ manifest' = [manifest EXCEPT ![current] = outcome]
        /\ saved' = manifest'
        /\ UNCHANGED <<recordings, disk, uploader, remaining, cloud>>
    BY <1>6 DEF SaveOk, TypeOK
  <2>2. \A g \in Files : Believed(g)' = {manifest'[g]} /\ manifest'[g] \in Believed(g)
    BY <2>1, NameOfFile DEF Believed, TypeOK
  <2>3. SavedBehind'
    BY <2>1 DEF SavedBehind
  <2> QED
    BY <2>1, <2>2, <2>3, NothingNew DEF IInv, Untouched
<1>7. CASE SaveFails
  <2>1. /\ current \in Files /\ current # NoFile /\ current' = NoFile
        /\ manifest' = [manifest EXCEPT ![current] = outcome]
        /\ remaining' = {}
        /\ UNCHANGED <<recordings, disk, uploader, saved, cloud>>
    BY <1>7 DEF SaveFails, TypeOK
  <2>2. \A g \in Files : Believed(g)' \subseteq Believed(g)
    BY <2>1, NameOfFile DEF Believed, TypeOK
  <2>3. SavedBehind'
    <3>1. \A g \in Files \ {current} : manifest'[g] = manifest[g]
      BY <2>1 DEF TypeOK
    <3>2. saved[current].status # "done"
      BY <2>1 DEF IInv, SavedBehind
    <3> QED
      BY <2>1, <3>1, <3>2 DEF IInv, SavedBehind
  <2> QED
    BY <2>1, <2>2, <2>3, NothingNew
<1>8. CASE Crash
  <2>1. /\ current' = NoFile /\ manifest' = saved /\ remaining' = {}
        /\ UNCHANGED <<recordings, disk, uploader, saved>>
    BY <1>8 DEF Crash
  <2>2. \A g \in Files : Believed(g)' \subseteq Believed(g)
    BY <2>1, NameOfFile DEF Believed
  <2>3. SavedBehind'
    BY <2>1 DEF SavedBehind
  <2>4. UNCHANGED cloud \/ \E f \in Files : Extended(f)
    BY <1>8, TransferExtends DEF Crash, Skipped, TypeOK
  <2> QED
    BY <2>1, <2>2, <2>3, <2>4, NothingNew
<1> QED
  BY <1>1, <1>2, <1>3, <1>4, <1>5, <1>6, <1>7, <1>8 DEF Next, SyncOnce

\* The manifest, in memory and on disk, is backed by the bucket for every name
\* the recorder has used once.
THEOREM InvariantHolds == Spec => []IInv
<1>1. TypeOK /\ IInv /\ [Next]_vars => IInv'
  BY NextStep
<1> QED
  BY InitIInv, TypeCorrect, <1>1, PTL DEF Spec

-----------------------------------------------------------------------------
(***************************************************************************)
(* What follows from it.                                                   *)
(***************************************************************************)

\* Whatever failed, crashed or was retried, what an attempt skips is in the
\* bucket, of this recording.
THEOREM ResumesWhatIsThere == Spec => []OffsetIsConfirmed
<1>1. IInv => OffsetIsConfirmed
  BY DEF IInv, BeliefsBacked, Believed, Backed, OffsetIsConfirmed, Published
<1> QED
  BY InvariantHolds, <1>1, PTL

\* What the agent calls done, durably or to the gateway, is complete in the
\* bucket.
THEOREM DoneIsThere == Spec => []DoneIsInCloud
<1>1. ASSUME IInv PROVE DoneIsInCloud
  <2>1. ASSUME NEW f \in Files, UsedOnce(f), NEW m \in Believed(f), m.status = "done"
        PROVE  cloud[f] = Content(disk[f])
    <3>1. f \in Published
      BY <1>1, <2>1, NameOfFile DEF IInv, Untouched, Believed, Absent
    <3> QED
      BY <1>1, <2>1, <3>1 DEF IInv, BeliefsBacked, Backed
  <2>2. \A f \in DoneKeys : UsedOnce(f) => cloud[f] = Content(disk[f])
    BY <2>1 DEF DoneKeys, Believed
  <2>3. \A b \in ConfirmedBlobs : b.key \in DoneKeys /\ b.content = Content(disk[b.key])
    BY DEF ConfirmedBlobs
  <2>4. ObservationObject(ConfirmedBlobs) \subseteq DoneKeys
    BY <2>3 DEF ObservationObject
  <2>5. \A f \in Files : UsedOnce(f) =>
          (saved[f].status = "done" \/ (current = f /\ outcome.status = "done")
             => cloud[f] = Content(disk[f]))
    BY <2>1 DEF Believed
  <2> QED
    BY <2>2, <2>3, <2>4, <2>5 DEF DoneIsInCloud
<1> QED
  BY InvariantHolds, <1>1, PTL

LEMMA MostUrgent ==
  ASSUME NEW f \in Files, First(f), NEW g \in remaining \ {f}, remaining \subseteq Files
  PROVE  Rank[f.class] <= Rank[g.class]
<1>1. f.class \in {"safety", "meta", "sensor"} /\ g.class \in {"safety", "meta", "sensor"}
  BY NameOfFile, AgentAssumption
<1>2. Rank[f.class] \in Nat /\ Rank[g.class] \in Nat
  BY <1>1 DEF Rank
<1>3. ~(Rank[g.class] < Rank[f.class])
  BY DEF First, Before
<1> QED
  BY <1>2, <1>3

\* No file waits behind a less urgent one in a pass.
THEOREM UrgentFirst == Spec => []SafetyFirst
<1>1. Init => SafetyFirst
  BY DEF Init, SafetyFirst
<1>2. ASSUME TypeOK, SafetyFirst, [Next]_vars PROVE SafetyFirst'
  <2> USE DEF SafetyFirst
  <2>1. ASSUME NEW f \in Files, Attempt(f) PROVE SafetyFirst'
    <3>1. First(f) /\ current' = f /\ remaining' = remaining \ {f} /\ remaining \subseteq Files
      BY <1>2, <2>1 DEF TypeOK, Attempt, UploadDone, UploadInterrupted, UploadFailed, ReadFails, UploadReturns
    <3> QED
      BY <3>1, MostUrgent
  <2>2. CASE StartPass \/ (\E f \in Files : Skip(f)) \/ SaveOk \/ SaveFails \/ Crash
    BY <1>2, <2>2 DEF StartPass, Idle, Skip, SaveOk, SaveFails, Crash
  <2>3. CASE (\E c \in Classes : Publish(c)) \/ RecorderRestart
             \/ (\E f \in Files : GoQuiet(f)) \/ UNCHANGED vars
    BY <1>2, <2>3 DEF Publish, RecorderRestart, GoQuiet, agentVars, vars
  <2> QED
    BY <1>2, <2>1, <2>2, <2>3 DEF Next, SyncOnce
<1> QED
  BY <1>1, <1>2, TypeCorrect, PTL DEF Spec

\* What manifest.json calls done is never uploaded or marked again.
THEOREM DoneStaysDone == Spec => DoneIsFinal
<1>1. ASSUME TypeOK, IInv, [Next]_vars
      PROVE  \A f \in Files : saved[f].status = "done" =>
               /\ saved'[f] = saved[f]
               /\ cloud'[f] = cloud[f]
  <2> SUFFICES ASSUME NEW f \in Files, saved[f].status = "done"
               PROVE  saved'[f] = saved[f] /\ cloud'[f] = cloud[f]
    OBVIOUS
  <2>1. manifest[f] = saved[f] /\ current # f
    BY <1>1, NameOfFile DEF IInv, SavedBehind
  <2>2. ASSUME NEW g \in Files, Attempt(g) PROVE saved'[f] = saved[f] /\ cloud'[f] = cloud[f]
    <3>1. manifest[g].status # "done" /\ Extended(g) /\ saved' = saved
      BY <1>1, <2>2, AttemptFacts, AttemptTyped
    <3> QED
      BY <2>1, <3>1 DEF Extended
  <2>3. CASE SaveOk
    <3>1. saved' = [manifest EXCEPT ![current] = outcome] /\ cloud' = cloud
      BY <2>3 DEF SaveOk
    <3> QED
      BY <1>1, <2>1, <3>1 DEF TypeOK
  <2>4. CASE Crash
    <3>1. saved' = saved /\ (cloud' = cloud \/ \E g \in Files : manifest[g].status # "done" /\ Extended(g))
      BY <1>1, <2>4, TransferExtends DEF Crash, Skipped, TypeOK
    <3> QED
      BY <2>1, <3>1 DEF Extended
  <2>5. CASE StartPass \/ (\E g \in Files : Skip(g)) \/ SaveFails
    BY <2>5 DEF StartPass, Skip, SaveFails
  <2>6. CASE (\E c \in Classes : Publish(c)) \/ RecorderRestart
             \/ (\E g \in Files : GoQuiet(g)) \/ UNCHANGED vars
    BY <2>6 DEF Publish, RecorderRestart, GoQuiet, agentVars, vars
  <2> QED
    BY <1>1, <2>2, <2>3, <2>4, <2>5, <2>6 DEF Next, SyncOnce
<1> QED
  BY <1>1, TypeCorrect, InvariantHolds, PTL DEF Spec, DoneIsFinal

-----------------------------------------------------------------------------
(***************************************************************************)
(* The abstract specification.                                             *)
(***************************************************************************)

\* While the recorder does not restart it uses no name twice.
Fresh ==
  /\ restarts = 0
  /\ \A r \in DOMAIN recordings : recordings[r].seq < nextSeq[recordings[r].class]
  /\ \A r, s \in DOMAIN recordings : recordings[r] = recordings[s] => r = s

LEMMA FreshHolds ==
  ASSUME MaxRestarts = 0
  PROVE  Spec => []Fresh
<1>1. Init => Fresh
  BY DEF Init, Fresh
<1>2. ASSUME TypeOK, Fresh, [Next]_vars PROVE Fresh'
  <2>1. ASSUME NEW c \in Classes, Publish(c) PROVE Fresh'
    <3>0. PICK f, n : f = [class |-> c, seq |-> nextSeq[c]] /\ n = Len(recordings) + 1
      OBVIOUS
    <3>1. f \in Files /\ f.class = c /\ f.seq = nextSeq[c] /\ nextSeq[c] \in Nat
      BY <1>2, <2>1, <3>0, AgentAssumption DEF Publish, Files, TypeOK
    <3>2. n \in Nat \ {0} /\ DOMAIN recordings = 1 .. n - 1 /\ recordings \in Seq(Files)
          /\ \A r \in 1 .. n - 1 : recordings[r] \in Files
      BY <1>2, <3>0 DEF TypeOK
    <3>3. recordings' = Append(recordings, f) /\ restarts' = restarts
          /\ nextSeq' = [nextSeq EXCEPT ![c] = @ + 1]
      BY <2>1, <3>0 DEF Publish
    <3>4. DOMAIN recordings' = 1 .. n /\ recordings'[n] = f
          /\ \A r \in 1 .. n - 1 : recordings'[r] = recordings[r]
      BY <3>1, <3>2, <3>3
    <3>5. \A r \in 1 .. n - 1 : recordings[r].seq < nextSeq[recordings[r].class]
                                /\ recordings[r].class \in Classes
                                /\ recordings[r].seq \in Nat
      BY <1>2, <3>2, NameOfFile DEF Fresh
    <3>6. \A d \in Classes : nextSeq'[d] \in Nat /\ nextSeq'[d] >= nextSeq[d]
                             /\ nextSeq[d] \in Nat /\ (d = c => nextSeq'[d] = nextSeq[d] + 1)
      BY <1>2, <3>3 DEF TypeOK
    <3>7. \A r \in 1 .. n - 1 : recordings[r] # f
      BY <3>1, <3>5
    <3>8. \A r \in 1 .. n : recordings'[r].seq < nextSeq'[recordings'[r].class]
      <4>1. \A r \in 1 .. n - 1 : recordings'[r].seq < nextSeq'[recordings'[r].class]
        BY <3>4, <3>5, <3>6
      <4>2. recordings'[n].seq < nextSeq'[recordings'[n].class]
        BY <3>1, <3>4, <3>6
      <4> QED
        BY <3>2, <4>1, <4>2
    <3>9. ASSUME NEW r \in 1 .. n, NEW s \in 1 .. n, recordings'[r] = recordings'[s]
          PROVE  r = s
      <4>1. CASE r \in 1 .. n - 1 /\ s \in 1 .. n - 1
        BY <1>2, <3>2, <3>4, <3>9, <4>1 DEF Fresh
      <4>2. CASE r = n \/ s = n
        BY <3>2, <3>4, <3>7, <3>9, <4>2
      <4> QED
        BY <3>2, <4>1, <4>2
    <3> QED
      BY <1>2, <3>3, <3>4, <3>8, <3>9 DEF Fresh
  <2>2. CASE RecorderRestart
    BY <1>2, <2>2 DEF RecorderRestart, Fresh
  <2>3. CASE (\E f \in Files : GoQuiet(f)) \/ SyncOnce \/ Crash \/ UNCHANGED vars
    <3>1. UNCHANGED <<restarts, recordings, nextSeq>>
      BY <2>3 DEF GoQuiet, SyncOnce, StartPass, Skip, Attempt, UploadDone, UploadInterrupted,
                  UploadFailed, ReadFails, UploadReturns, SaveOk, SaveFails, Crash, vars, recorderVars
    <3> QED
      BY <1>2, <3>1 DEF Fresh
  <2> QED
    BY <1>2, <2>1, <2>2, <2>3 DEF Next
<1> QED
  BY <1>1, <1>2, TypeCorrect, PTL DEF Spec

LEMMA FilesFinite == IsFiniteSet(Files)
<1> DEFINE Of(c) == IF c \in Classes THEN [class : {c}, seq : 0 .. MaxSeq[c]] ELSE {}
<1>1. ASSUME NEW c PROVE IsFiniteSet(Of(c))
  <2>1. CASE c \in Classes
    <3> DEFINE S == 0 .. MaxSeq[c]
               name == [i \in S |-> [class |-> c, seq |-> i]]
    <3>1. IsFiniteSet(S)
      BY <2>1, AgentAssumption, FS_Interval
    <3>2. name \in Surjection(S, Of(c))
      BY <2>1 DEF Surjection
    <3> QED
      BY <3>1, <3>2, FS_Surjection
  <2>2. CASE c \notin Classes
    BY <2>2, FS_EmptySet
  <2> QED
    BY <2>1, <2>2
<1>2. Files = (Of("safety") \cup Of("meta")) \cup Of("sensor")
  BY AgentAssumption DEF Files
<1> HIDE DEF Of
<1> QED
  BY <1>1, <1>2, FS_Union

\* As many recordings as names fit the identifiers of the abstract
\* specification.
LEMMA RecordingsFit ==
  ASSUME TypeOK, Fresh, MaxRestarts = 0
  PROVE  DOMAIN recordings \subseteq RecordingIds
<1>1. Len(recordings) \in Nat /\ DOMAIN recordings = 1 .. Len(recordings)
      /\ recordings \in [1 .. Len(recordings) -> Files]
  BY DEF TypeOK
<1>2. recordings \in Injection(1 .. Len(recordings), Files)
  BY <1>1 DEF Fresh, Injection, IsInjective
<1>3. Cardinality(1 .. Len(recordings)) <= Cardinality(Files)
  BY <1>2, FilesFinite, FS_Injection
<1>4. Cardinality(1 .. Len(recordings)) = Len(recordings)
  BY <1>1, FS_Interval
<1>5. Cardinality(Files) \in Nat
  BY FilesFinite, FS_CardinalityType
<1>6. RecordingIds = 1 .. Cardinality(Files)
  BY <1>5 DEF RecordingIds
<1> QED
  BY <1>1, <1>3, <1>4, <1>5, <1>6

\* Each recording is the one its name now stands for.
LEMMA RecordingOfName ==
  ASSUME TypeOK, IInv, Fresh
  PROVE  /\ \A r \in DOMAIN recordings :
              /\ recordings[r] \in Published
              /\ disk[recordings[r]] = r
              /\ r \in Nat
         /\ \A f \in Files : UsedOnce(f)
<1>1. \A r \in DOMAIN recordings : r \in Nat \ {0} /\ recordings[r] \in Files
  BY DEF TypeOK
<1>2. ASSUME NEW r \in DOMAIN recordings
      PROVE  recordings[r] \in Published /\ disk[recordings[r]] = r
  <2>1. PICK n : n = disk[recordings[r]]
    OBVIOUS
  <2>2. r <= n /\ n \in 0 .. Len(recordings) /\ DOMAIN recordings = 1 .. Len(recordings)
    BY <1>1, <2>1 DEF TypeOK, IInv, Named
  <2>3. n # 0 /\ n \in DOMAIN recordings
    BY <1>1, <2>2 DEF TypeOK
  <2>4. recordings[n] = recordings[r]
    BY <1>1, <2>1, <2>3 DEF IInv, Named
  <2> QED
    BY <1>1, <2>1, <2>3, <2>4 DEF Fresh, Published
<1>3. \A f \in Files : UsedOnce(f)
  BY DEF Fresh, UsedOnce
<1> QED
  BY <1>1, <1>2, <1>3

LEMMA PublishRecords ==
  ASSUME TypeOK, IInv, Fresh, NEW c \in Classes, Publish(c), DOMAIN recordings' \subseteq RecordingIds
  PROVE  \E r \in RecordingIds : Store!Record(r)
<1>0. PICK f, n : f = [class |-> c, seq |-> nextSeq[c]] /\ n = Len(recordings) + 1
  OBVIOUS
<1>1. /\ f \in Files
      /\ DOMAIN recordings' = 1 .. n
      /\ recordings'[n] = f
      /\ \A r \in DOMAIN recordings : r \in 1 .. n - 1 /\ recordings'[r] = recordings[r]
  BY <1>0, PublishFacts DEF IInv
<1>2. UNCHANGED <<saved, cloud>> /\ n \in Nat \ {0} /\ DOMAIN recordings = 1 .. n - 1
  BY <1>0 DEF Publish, agentVars, TypeOK
<1>3. n \in RecordingIds /\ n \notin DOMAIN recordings /\ DOMAIN recordings' = DOMAIN recordings \cup {n}
  BY <1>1, <1>2
<1>4. cloud[f] # Content(n)
  <2>1. cloud[f] \in Seq(0 .. n - 1)
    BY <1>0, <1>1 DEF TypeOK
  <2>2. \A i \in DOMAIN cloud[f] : cloud[f][i] # n
    BY <1>2, <2>1
  <2>3. 1 \in DOMAIN Content(n) /\ Content(n)[1] = n
    BY AgentAssumption DEF Content
  <2> QED
    BY <2>2, <2>3
<1>5. saved[f].status # "done"
  <2>1. f \notin Published
    <3> SUFFICES ASSUME f \in Published PROVE FALSE
      OBVIOUS
    <3>1. PICK r \in DOMAIN recordings : recordings[r] = f
      <4>1. disk[f] \in 0 .. Len(recordings) /\ disk[f] # 0 /\ Len(recordings) \in Nat
            /\ DOMAIN recordings = 1 .. Len(recordings)
        BY <1>1 DEF Published, TypeOK
      <4>2. recordings[disk[f]] = f /\ disk[f] \in DOMAIN recordings
        BY <1>1, <4>1 DEF IInv, Named
      <4> QED
        BY <4>2
    <3>2. f.seq < nextSeq[f.class] /\ f.class = c /\ f.seq = nextSeq[c] /\ nextSeq[c] \in Nat
      BY <1>0, <3>1 DEF Fresh, TypeOK
    <3> QED
      BY <3>2
  <2> QED
    BY <1>1, <2>1 DEF IInv, Untouched, Absent
<1>6. {r \in DOMAIN recordings' : InCloud(r)'} = {r \in DOMAIN recordings : InCloud(r)}
  BY <1>1, <1>2, <1>3, <1>4 DEF InCloud
<1>7. {r \in DOMAIN recordings' : saved'[recordings'[r]].status = "done"}
        = {r \in DOMAIN recordings : saved[recordings[r]].status = "done"}
  BY <1>1, <1>2, <1>3, <1>5
<1> QED
  BY <1>3, <1>6, <1>7 DEF Store!Record

\* A transfer only adds to what is complete in the bucket.
LEMMA TransferReceives ==
  ASSUME TypeOK, IInv, Fresh, NEW f \in Files, Extended(f), UNCHANGED <<recordings, saved>>,
         DOMAIN recordings \subseteq RecordingIds
  PROVE  \E S \in SUBSET RecordingIds : Store!Receive(S)
<1> DEFINE received == {r \in DOMAIN recordings : InCloud(r)}
           S == {r \in DOMAIN recordings : cloud'[recordings[r]] = Content(r)}
<1>1. ASSUME NEW r \in received PROVE r \in S
  <2>1. r \in DOMAIN recordings /\ recordings[r] \in Files /\ disk[recordings[r]] = r
        /\ cloud[recordings[r]] = Content(r)
    BY RecordingOfName DEF InCloud, Published
  <2>2. CASE recordings[r] # f
    BY <2>1, <2>2 DEF Extended
  <2>3. CASE recordings[r] = f
    <3>1. \A i \in 1 .. FileLen : i \in DOMAIN cloud[f] /\ cloud[f][i] = r
      BY <2>1, <2>3 DEF Content
    <3>2. \A i \in 1 .. FileLen : i \in DOMAIN cloud'[f] /\ cloud'[f][i] = r
      BY <2>1, <2>3, <3>1 DEF Extended
    <3>3. cloud'[f] = Content(r)
      BY <3>2, WholeIsContent DEF Extended
    <3> QED
      BY <2>1, <2>3, <3>3
  <2> QED
    BY <2>2, <2>3
<1>2. {r \in DOMAIN recordings' : InCloud(r)'} = received \cup S
  BY <1>1 DEF InCloud
<1>3. S \subseteq DOMAIN recordings
  OBVIOUS
<1> QED
  BY <1>2, <1>3 DEF Store!Receive

LEMMA SaveConfirms ==
  ASSUME TypeOK, IInv, Fresh, SaveOk, DOMAIN recordings \subseteq RecordingIds
  PROVE  \E S \in SUBSET RecordingIds : Store!Confirm(S)
<1> DEFINE confirmed == {r \in DOMAIN recordings : saved[recordings[r]].status = "done"}
           S == {r \in DOMAIN recordings : saved'[recordings[r]].status = "done"}
<1>1. /\ current \in Files
      /\ saved' = [manifest EXCEPT ![current] = outcome]
      /\ UNCHANGED <<recordings, cloud>>
  BY DEF SaveOk, recorderVars, TypeOK
<1>2. \A g \in Files : saved'[g] \in Believed(g)
  BY <1>1 DEF Believed, TypeOK
<1>3. ASSUME NEW r \in S PROVE InCloud(r)
  <2>1. recordings[r] \in Published /\ recordings[r] \in Files /\ disk[recordings[r]] = r
        /\ UsedOnce(recordings[r])
    BY RecordingOfName DEF Published
  <2>2. Backed(cloud[recordings[r]], disk[recordings[r]], saved'[recordings[r]])
    BY <1>2, <2>1 DEF IInv, BeliefsBacked
  <2> QED
    BY <2>1, <2>2 DEF Backed, InCloud
<1>4. confirmed \subseteq S
  <2> SUFFICES ASSUME NEW r \in confirmed PROVE r \in S
    OBVIOUS
  <2>1. recordings[r] \in Files
    BY RecordingOfName DEF Published
  <2>2. manifest[recordings[r]] = saved[recordings[r]] /\ current # recordings[r]
    BY <2>1, NameOfFile DEF IInv, SavedBehind
  <2> QED
    BY <1>1, <2>1, <2>2 DEF TypeOK
<1>5. {r \in DOMAIN recordings' : saved'[recordings'[r]].status = "done"} = confirmed \cup S
  BY <1>1, <1>4
<1>6. {r \in DOMAIN recordings' : InCloud(r)'} = {r \in DOMAIN recordings : InCloud(r)}
  BY <1>1 DEF InCloud
<1>7. S \subseteq {r \in DOMAIN recordings : InCloud(r)} /\ S \in SUBSET RecordingIds
  BY <1>3
<1> HIDE DEF S
<1> QED
  BY <1>1, <1>5, <1>6, <1>7 DEF Store!Confirm

LEMMA StepRefines ==
  ASSUME TypeOK, IInv, Fresh, [Next]_vars, DOMAIN recordings' \subseteq RecordingIds,
         DOMAIN recordings \subseteq RecordingIds
  PROVE  [Store!Next]_(Store!vars)
<1> USE DEF recorderVars
<1>1. ASSUME NEW c \in Classes, Publish(c) PROVE Store!Next
  BY <1>1, PublishRecords DEF Store!Next
<1>2. ASSUME NEW f \in Files, Attempt(f) PROVE Store!Next
  <2>1. Extended(f) /\ UNCHANGED <<recordings, saved>>
    BY <1>2, AttemptFacts, AttemptTyped
  <2> QED
    BY <2>1, TransferReceives DEF Store!Next
<1>3. CASE SaveOk
  BY <1>3, SaveConfirms DEF Store!Next
<1>4. ASSUME UNCHANGED <<recordings, saved, cloud>> PROVE UNCHANGED Store!vars
  BY <1>4 DEF Store!vars, InCloud
<1>5. CASE Crash
  <2>1. UNCHANGED <<recordings, saved>> /\ (UNCHANGED cloud \/ \E f \in Files : Extended(f))
    BY <1>5, TransferExtends DEF Crash, Skipped, TypeOK
  <2> QED
    BY <1>4, <2>1, TransferReceives DEF Store!Next
<1>6. CASE \/ RecorderRestart \/ (\E f \in Files : GoQuiet(f)) \/ StartPass
           \/ (\E f \in Files : Skip(f)) \/ SaveFails \/ UNCHANGED vars
  <2>1. UNCHANGED <<recordings, saved, cloud>>
    BY <1>6 DEF RecorderRestart, GoQuiet, StartPass, Skip, SaveFails, agentVars, vars
  <2> QED
    BY <1>4, <2>1
<1> QED
  BY <1>1, <1>2, <1>3, <1>5, <1>6 DEF Next, SyncOnce

\* As long as the recorder does not restart, the agent implements StoreForward:
\* what manifest.json calls done was received, and nothing is taken back.
THEOREM Implements ==
  ASSUME MaxRestarts = 0
  PROVE  Spec => ImplementsStoreForward
<1>1. Init => Store!Init
  BY DEF Init, Store!Init
<1>2. TypeOK /\ Fresh => DOMAIN recordings \subseteq RecordingIds
  BY RecordingsFit
<1>3. /\ TypeOK /\ IInv /\ Fresh /\ [Next]_vars
      /\ DOMAIN recordings \subseteq RecordingIds
      /\ (DOMAIN recordings \subseteq RecordingIds)'
      => [Store!Next]_(Store!vars)
  BY StepRefines
<1> QED
  BY <1>1, <1>2, <1>3, TypeCorrect, InvariantHolds, FreshHolds, PTL
  DEF Spec, ImplementsStoreForward, Store!Spec
=============================================================================
