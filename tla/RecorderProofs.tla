--------------------------- MODULE RecorderProofs ---------------------------
(***************************************************************************)
(* Proofs about Recorder: what its runs check on a small instance, for any *)
(* set of producers, any capacity and rotation limits, and any faults.     *)
(***************************************************************************)
EXTENDS Recorder, SequenceTheorems, TLAPS

\* A function on an initial interval is a sequence.
LEMMA FunctionIsSeq ==
  ASSUME NEW S, NEW n \in Nat, NEW f \in [1 .. n -> S]
  PROVE  f \in Seq(S) /\ Len(f) = n
<1>1. f \in Seq(S)
  BY SeqDef
<1> QED
  BY <1>1

\* Replacing one element of a sequence.
LEMMA ReplaceInSeq ==
  ASSUME NEW S, NEW s \in Seq(S), NEW i, NEW e, i \in DOMAIN s => e \in S
  PROVE  /\ [s EXCEPT ![i] = e] \in Seq(S)
         /\ Len([s EXCEPT ![i] = e]) = Len(s)
         /\ \A j \in DOMAIN s : [s EXCEPT ![i] = e][j] = IF j = i THEN e ELSE s[j]
<1> DEFINE t == [s EXCEPT ![i] = e]
<1>1. Len(s) \in Nat /\ DOMAIN s = 1 .. Len(s) /\ s \in [1 .. Len(s) -> S]
  BY LenProperties
<1>2. t = [j \in 1 .. Len(s) |-> IF j = i THEN e ELSE s[j]]
  BY <1>1
<1>3. \A j \in 1 .. Len(s) : (IF j = i THEN e ELSE s[j]) \in S
  BY <1>1
<1>4. t \in [1 .. Len(s) -> S]
  BY <1>2, <1>3
<1>5. t \in Seq(S) /\ Len(t) = Len(s)
  BY <1>1, <1>4, FunctionIsSeq
<1> QED
  BY <1>1, <1>2, <1>5

LEMMA NoCommands == <<>> \in Seq(Command)
OBVIOUS

LEMMA HeadIsCommand ==
  ASSUME NEW q \in Seq(Command), q # <<>>
  PROVE  Head(q) \in Command /\ Tail(q) \in Seq(Command)
OBVIOUS

LEMMA NewFileIsFile ==
  ASSUME written \in Seq(Nat), NEW chans \in SUBSET Nat
  PROVE  NewFile(chans) \in File
BY DEF File, NewFile

\* What each update of a file leaves alone.
LEMMA DeclareFile ==
  ASSUME NEW f \in File, NEW ch \in Nat
  PROVE  /\ Declare(f, ch) \in File
         /\ Declare(f, ch).declared = f.declared \cup {ch}
         /\ \A a \in {"status", "synced", "first", "count", "torn"} : Declare(f, ch)[a] = f[a]
BY DEF File, Declare

LEMMA FsyncFile ==
  ASSUME NEW f \in File
  PROVE  /\ Fsync(f) \in File
         /\ Fsync(f).synced = TRUE
         /\ \A a \in {"status", "declared", "first", "count", "torn"} : Fsync(f)[a] = f[a]
BY DEF File, Fsync

LEMMA FinalizeFile ==
  ASSUME NEW f \in File
  PROVE  /\ Finalize(f) \in File
         /\ Finalize(f).status = "final"
         /\ \A a \in {"synced", "declared", "first", "count", "torn"} : Finalize(f)[a] = f[a]
BY DEF File, Finalize

LEMMA ExtendFile ==
  ASSUME NEW f \in File
  PROVE  /\ Extend(f) \in File
         /\ Extend(f).count = f.count + 1
         /\ \A a \in {"status", "synced", "declared", "first", "torn"} : Extend(f)[a] = f[a]
BY DEF File, Extend

LEMMA LeftFile ==
  ASSUME NEW f \in File, NEW torn \in BOOLEAN, NEW renamed \in BOOLEAN
  PROVE  /\ Left(f, torn, renamed) \in File
         /\ Left(f, torn, renamed).torn = torn
         /\ Left(f, torn, renamed).status = "final" => f.status = "final"
         /\ Left(f, torn, renamed).synced = f.synced
         /\ Left(f, torn, renamed).declared = f.declared
         /\ Left(f, torn, renamed).first = f.first
         /\ Left(f, torn, renamed).count = f.count
<1>1. \A g \in File :
        /\ Torn(g, torn) \in File
        /\ Torn(g, torn).torn = torn
        /\ \A a \in {"status", "synced", "declared", "first", "count"} :
             Torn(g, torn)[a] = g[a]
  BY DEF File, Torn
<1>2. \A g \in File :
        /\ NotRenamed(g) \in File
        /\ NotRenamed(g).status = "part"
        /\ \A a \in {"torn", "synced", "declared", "first", "count"} :
             NotRenamed(g)[a] = g[a]
  BY DEF File, NotRenamed
<1> QED
  BY <1>1, <1>2 DEF Left

\* Every state of the specification has the types of TypeOK.
THEOREM TypeCorrect == Spec => []TypeOK
<1>1. Init => TypeOK
  BY DEF Init, TypeOK, ProducersOK, CountersOK, ChannelOK, WriterOK, NoMessage
<1>2. ASSUME TypeOK, [Next]_vars PROVE TypeOK'
  <2> USE DEF TypeOK
  <2>0. /\ Len(files) \in Nat /\ DOMAIN files = 1 .. Len(files)
        /\ \A i \in DOMAIN files : files[i] \in File
        /\ files \in Seq(File) /\ queue \in Seq(Command) /\ written \in Seq(Nat)
        /\ declarations \in SUBSET Nat
    BY <1>2 DEF ChannelOK, WriterOK
  <2>1. ASSUME NEW p \in Producers, Producer(p) PROVE TypeOK'
    <3>1. CASE RegisterStart(p)
      <4>1. ProducersOK' /\ CountersOK'
        BY <1>2, <3>1 DEF RegisterStart, Channels, ProducersOK, CountersOK
      <4>2. ChannelOK' /\ WriterOK'
        BY <1>2, <3>1 DEF RegisterStart, writerVars, ChannelOK, WriterOK
      <4> QED  BY <4>1, <4>2
    <3>2. CASE \E ch \in known : RecordCheck(p, ch)
      <4> PICK ch \in known : RecordCheck(p, ch)
        BY <3>2
      <4>1. ProducersOK' /\ CountersOK'
        BY <1>2 DEF RecordCheck, ProducersOK, CountersOK
      <4>2. ChannelOK' /\ WriterOK'
        BY <1>2 DEF RecordCheck, writerVars, ChannelOK, WriterOK
      <4> QED  BY <4>1, <4>2
    <3>3. CASE RegisterSend(p)
      <4>1. ProducersOK' /\ CountersOK'
        BY <1>2, <3>3 DEF RegisterSend, ProducersOK, CountersOK
      <4>2. ChannelOK'
        <5>1. [kind |-> "register", ch |-> arg[p], nth |-> 0] \in Command
          BY <1>2 DEF Command, ProducersOK
        <5> QED
          BY <1>2, <3>3, <5>1 DEF RegisterSend, Send, ChannelOK
      <4>3. WriterOK'
        BY <1>2, <3>3 DEF RegisterSend, writerVars, WriterOK
      <4> QED  BY <4>1, <4>2, <4>3
    <3>4. CASE TrySendOk(p)
      <4>1. ProducersOK' /\ CountersOK'
        BY <1>2, <3>4 DEF TrySendOk, ProducersOK, CountersOK
      <4>2. ChannelOK'
        <5>1. [kind |-> "message", ch |-> arg[p], nth |-> accepted + 1] \in Command
          BY <1>2 DEF Command, ProducersOK, CountersOK
        <5> QED
          BY <1>2, <3>4, <5>1 DEF TrySendOk, ChannelOK
      <4>3. WriterOK'
        BY <1>2, <3>4 DEF TrySendOk, writerVars, WriterOK
      <4> QED  BY <4>1, <4>2, <4>3
    <3>5. CASE TrySendFull(p)
      <4>1. ProducersOK' /\ CountersOK'
        BY <1>2, <3>5 DEF TrySendFull, ProducersOK, CountersOK
      <4>2. ChannelOK' /\ WriterOK'
        BY <1>2, <3>5 DEF TrySendFull, writerVars, ChannelOK, WriterOK
      <4> QED  BY <4>1, <4>2
    <3>6. CASE TrySendDisconnected(p)
      <4>1. ProducersOK' /\ CountersOK'
        BY <1>2, <3>6 DEF TrySendDisconnected, ProducersOK, CountersOK
      <4>2. ChannelOK' /\ WriterOK'
        BY <1>2, <3>6 DEF TrySendDisconnected, writerVars, ChannelOK, WriterOK
      <4> QED  BY <4>1, <4>2
    <3>7. CASE TakeIndex(p)
      <4>1. ProducersOK' /\ CountersOK'
        BY <1>2, <3>7 DEF TakeIndex, FetchedIndex, ProducersOK, CountersOK
      <4>2. ChannelOK' /\ WriterOK'
        BY <1>2, <3>7 DEF TakeIndex, writerVars, ChannelOK, WriterOK
      <4> QED  BY <4>1, <4>2
    <3> QED
      BY <2>1, <3>1, <3>2, <3>3, <3>4, <3>5, <3>6, <3>7 DEF Producer, InCall
  <2>2. CASE Shutdown
    <3>1. ProducersOK' /\ CountersOK'
      BY <1>2, <2>2 DEF Shutdown, producerVars, ProducersOK, CountersOK
    <3>2. ChannelOK' /\ WriterOK'
      BY <1>2, <2>2 DEF Shutdown, writerVars, ChannelOK, WriterOK
    <3> QED  BY <3>1, <3>2
  <2>3. CASE Writer
    <3>1. ProducersOK' /\ CountersOK'
      BY <1>2, <2>3 DEF Writer, OpenFirst, HandleRegister, ReceiveMessage, Rotate,
         EndOfStream, Sync, Rename, Write, Panic, producerVars, ProducersOK, CountersOK
    <3>2. ChannelOK' /\ WriterOK'
      <4>1. CASE OpenFirst
        <5>1. NewFile({}) \in File
          BY <2>0, NewFileIsFile
        <5>2. CASE Panic
          BY <1>2, <5>2, NoCommands DEF Panic, ChannelOK, WriterOK
        <5>3. CASE files' = <<NewFile({})>>
          <6>1. files' \in Seq(File)
            BY <5>1, <5>3
          <6> QED
            BY <1>2, <4>1, <5>2, <6>1 DEF OpenFirst, ChannelOK, WriterOK
        <5> QED  BY <4>1, <5>2, <5>3 DEF OpenFirst
      <4>2. CASE HandleRegister
        <5>1. Head(queue).ch \in Nat /\ Tail(queue) \in Seq(Command)
          BY <2>0, <4>2, HeadIsCommand DEF HandleRegister, Command
        <5>2. Current \in DOMAIN files => Declare(files[Current], Head(queue).ch) \in File
          BY <2>0, <5>1, DeclareFile
        <5>3. [files EXCEPT ![Current] = Declare(@, Head(queue).ch)] \in Seq(File)
          BY <2>0, <5>2, ReplaceInSeq
        <5> QED
          BY <1>2, <4>2, <5>1, <5>3 DEF HandleRegister, MarkUnhealthy, ChannelOK, WriterOK
      <4>3. CASE ReceiveMessage
        <5>1. Head(queue) \in Command /\ Tail(queue) \in Seq(Command)
          BY <2>0, <4>3, HeadIsCommand DEF ReceiveMessage
        <5> QED
          BY <1>2, <4>3, <5>1 DEF ReceiveMessage, ChannelOK, WriterOK
      <4>4. CASE Rotate
        <5>1. CASE Panic
          BY <1>2, <5>1, NoCommands DEF Panic, ChannelOK, WriterOK
        <5>2. ASSUME NEW chans \in SUBSET declarations, files' = Append(files, NewFile(chans))
              PROVE  files' \in Seq(File)
          <6>1. NewFile(chans) \in File
            BY <2>0, NewFileIsFile
          <6> QED  BY <2>0, <5>2, <6>1
        <5> QED
          BY <1>2, <4>4, <5>1, <5>2 DEF Rotate, MarkUnhealthy, ChannelOK, WriterOK
      <4>5. CASE EndOfStream
        BY <1>2, <4>5 DEF EndOfStream, ChannelOK, WriterOK
      <4>6. CASE Sync
        <5>1. Finishing \in DOMAIN files => Fsync(files[Finishing]) \in File
          BY <2>0, FsyncFile
        <5>2. [files EXCEPT ![Finishing] = Fsync(@)] \in Seq(File)
          BY <2>0, <5>1, ReplaceInSeq
        <5> QED
          BY <1>2, <4>6, <5>2 DEF Sync, FinishFails, AfterFinish, MarkUnhealthy, ChannelOK, WriterOK
      <4>7. CASE Rename
        <5>1. Finishing \in DOMAIN files => Finalize(files[Finishing]) \in File
          BY <2>0, FinalizeFile
        <5>2. [files EXCEPT ![Finishing] = Finalize(@)] \in Seq(File)
          BY <2>0, <5>1, ReplaceInSeq
        <5> QED
          BY <1>2, <4>7, <5>2 DEF Rename, FinishFails, AfterFinish, MarkUnhealthy, ChannelOK, WriterOK
      <4>8. CASE Write
        <5>1. Current \in DOMAIN files => Extend(files[Current]) \in File
          BY <2>0, ExtendFile
        <5>2. [files EXCEPT ![Current] = Extend(@)] \in Seq(File)
          BY <2>0, <5>1, ReplaceInSeq
        <5>3. Append(written, held.nth) \in Seq(Nat)
          BY <1>2 DEF Command, NoMessage, WriterOK
        <5> QED
          BY <1>2, <4>8, <5>2, <5>3 DEF Write, MarkUnhealthy, ChannelOK, WriterOK
      <4> QED
        BY <2>3, <4>1, <4>2, <4>3, <4>4, <4>5, <4>6, <4>7, <4>8 DEF Writer
    <3> QED  BY <3>1, <3>2
  <2>4. CASE PowerLoss
    <3>1. PICK torn, renamed \in SUBSET DOMAIN files :
            files' = [i \in DOMAIN files |-> Left(files[i], i \in torn, i \in renamed)]
      BY <2>4 DEF PowerLoss
    <3>2. \A i \in DOMAIN files : Left(files[i], i \in torn, i \in renamed) \in File
      <4> TAKE i \in DOMAIN files
      <4>1. (i \in torn) \in BOOLEAN /\ (i \in renamed) \in BOOLEAN
        OBVIOUS
      <4> QED  BY <2>0, <4>1, LeftFile, Zenon
    <3>3. files' \in [1 .. Len(files) -> File]
      BY <2>0, <3>1, <3>2
    <3>4. files' \in Seq(File)
      BY <2>0, <3>3, FunctionIsSeq
    <3>5. ProducersOK' /\ CountersOK'
      BY <1>2, <2>4 DEF PowerLoss, ProducersOK, CountersOK
    <3>6. ChannelOK' /\ WriterOK'
      BY <1>2, <2>4, <3>4, NoCommands DEF PowerLoss, ChannelOK, WriterOK
    <3> QED  BY <3>5, <3>6
  <2>5. CASE UNCHANGED vars
    BY <1>2, <2>5 DEF vars, producerVars, writerVars, ProducersOK, CountersOK, ChannelOK, WriterOK
  <2> QED
    BY <1>2, <2>1, <2>2, <2>3, <2>4, <2>5 DEF Next
<1> QED
  BY <1>1, <1>2, PTL DEF Spec

-----------------------------------------------------------------------------
(***************************************************************************)
(* What each step of the writer does to the files, field by field.         *)
(***************************************************************************)

LEMMA FilesType ==
  ASSUME TypeOK
  PROVE  /\ Len(files) \in Nat /\ DOMAIN files = 1 .. Len(files)
         /\ files \in Seq(File) /\ queue \in Seq(Command) /\ written \in Seq(Nat)
         /\ \A i \in DOMAIN files : files[i] \in File
         /\ declarations \in SUBSET Nat
BY DEF TypeOK, ChannelOK, WriterOK

LEMMA Positions ==
  ASSUME TypeOK
  PROVE  /\ Len(files) \in Nat /\ DOMAIN files = 1 .. Len(files)
         /\ Len(written) \in Nat
         /\ \A i \in DOMAIN files : files[i].count \in Nat /\ files[i].first \in Nat
         /\ files # <<>> => Current \in DOMAIN files
<1>1. \A f \in File : f.count \in Nat /\ f.first \in Nat
  BY DEF File
<1> QED
  BY <1>1, FilesType DEF Current

LEMMA DeclareEffect ==
  ASSUME TypeOK, HandleRegister
  PROVE  /\ Len(files') = Len(files)
         /\ \A j \in DOMAIN files :
              \A a \in {"status", "synced", "first", "count", "torn"} : files'[j][a] = files[j][a]
         /\ healthy' /\ Current \in DOMAIN files =>
              files'[Current].declared = files[Current].declared \cup {Head(queue).ch}
<1>1. Head(queue).ch \in Nat
  BY FilesType, HeadIsCommand DEF HandleRegister, Command
<1> DEFINE e == Declare(files[Current], Head(queue).ch)
           t == [files EXCEPT ![Current] = e]
<1>2. Current \in DOMAIN files =>
        /\ e \in File
        /\ e.declared = files[Current].declared \cup {Head(queue).ch}
        /\ \A a \in {"status", "synced", "first", "count", "torn"} : e[a] = files[Current][a]
  BY <1>1, FilesType, DeclareFile
<1>3. Len(t) = Len(files) /\ \A j \in DOMAIN files : t[j] = IF j = Current THEN e ELSE files[j]
  BY <1>2, FilesType, ReplaceInSeq
<1>4. files' = t \/ (files' = files /\ ~healthy')
  BY DEF HandleRegister, MarkUnhealthy
<1> QED
  BY <1>2, <1>3, <1>4

LEMMA SyncEffect ==
  ASSUME TypeOK, Sync
  PROVE  /\ Len(files') = Len(files)
         /\ \A j \in DOMAIN files :
              /\ \A a \in {"status", "declared", "first", "count", "torn"} : files'[j][a] = files[j][a]
              /\ files[j].synced => files'[j].synced
         /\ writer' = "rename" /\ Finishing \in DOMAIN files => files'[Finishing].synced
<1> DEFINE e == Fsync(files[Finishing])
           t == [files EXCEPT ![Finishing] = e]
<1>1. Finishing \in DOMAIN files =>
        e \in File /\ e.synced /\ \A a \in {"status", "declared", "first", "count", "torn"} : e[a] = files[Finishing][a]
  BY FilesType, FsyncFile
<1>2. Len(t) = Len(files) /\ \A j \in DOMAIN files : t[j] = IF j = Finishing THEN e ELSE files[j]
  BY <1>1, FilesType, ReplaceInSeq
<1>3. files' = t \/ (files' = files /\ writer' # "rename")
  BY DEF Sync, FinishFails, AfterFinish
<1> QED
  BY <1>1, <1>2, <1>3

LEMMA RenameEffect ==
  ASSUME TypeOK, Rename
  PROVE  /\ Len(files') = Len(files)
         /\ \A j \in DOMAIN files :
              /\ \A a \in {"synced", "declared", "first", "count", "torn"} : files'[j][a] = files[j][a]
              /\ j # Finishing => files'[j].status = files[j].status
              /\ files[j].status = "final" => files'[j].status = "final"
         /\ healthy' /\ Finishing \in DOMAIN files => files'[Finishing].status = "final"
<1> DEFINE e == Finalize(files[Finishing])
           t == [files EXCEPT ![Finishing] = e]
<1>1. Finishing \in DOMAIN files =>
        e \in File /\ e.status = "final" /\ \A a \in {"synced", "declared", "first", "count", "torn"} : e[a] = files[Finishing][a]
  BY FilesType, FinalizeFile
<1>2. Len(t) = Len(files) /\ \A j \in DOMAIN files : t[j] = IF j = Finishing THEN e ELSE files[j]
  BY <1>1, FilesType, ReplaceInSeq
<1>3. files' = t \/ (files' = files /\ ~healthy')
  BY DEF Rename, FinishFails, MarkUnhealthy
<1> QED
  BY <1>1, <1>2, <1>3

LEMMA WriteEffect ==
  ASSUME TypeOK, Write
  PROVE  /\ Len(files') = Len(files)
         /\ \A j \in DOMAIN files :
              /\ \A a \in {"status", "synced", "declared", "first", "torn"} : files'[j][a] = files[j][a]
              /\ j # Current => files'[j].count = files[j].count
         /\ \/ /\ Current \in DOMAIN files => files'[Current].count = files[Current].count + 1
               /\ Len(written') = Len(written) + 1
            \/ /\ Current \in DOMAIN files => files'[Current].count = files[Current].count
               /\ Len(written') = Len(written)
<1> DEFINE e == Extend(files[Current])
           t == [files EXCEPT ![Current] = e]
<1>1. Current \in DOMAIN files =>
        /\ e \in File /\ e.count = files[Current].count + 1
        /\ \A a \in {"status", "synced", "declared", "first", "torn"} : e[a] = files[Current][a]
  BY FilesType, ExtendFile
<1>2. Len(t) = Len(files) /\ \A j \in DOMAIN files : t[j] = IF j = Current THEN e ELSE files[j]
  BY <1>1, FilesType, ReplaceInSeq
<1>3. \/ files' = t /\ written' = Append(written, held.nth)
      \/ files' = files /\ written' = written
  BY DEF Write
<1>4. Len(Append(written, held.nth)) = Len(written) + 1
  BY FilesType
<1> QED
  BY <1>1, <1>2, <1>3, <1>4

LEMMA RotateEffect ==
  ASSUME TypeOK, Rotate
  PROVE  \/ Panic
         \/ /\ writer' = "sync"
            /\ UNCHANGED <<held, written, declarations>>
            /\ Len(files') = Len(files) + 1
            /\ \A j \in DOMAIN files : files'[j] = files[j]
            /\ files'[Len(files) + 1].status = "part"
            /\ files'[Len(files) + 1].count = 0
            /\ files'[Len(files) + 1].first = Len(written)
            /\ ~files'[Len(files) + 1].torn
            /\ ~files'[Len(files) + 1].synced
            /\ healthy' => healthy /\ files'[Len(files) + 1].declared = declarations
<1>1. CASE Panic
  BY <1>1
<1>2. ASSUME NEW chans \in SUBSET declarations,
             chans = declarations \/ DiskFaults,
             files' = Append(files, NewFile(chans)),
             IF chans = declarations THEN UNCHANGED healthy ELSE MarkUnhealthy
      PROVE  /\ Len(files') = Len(files) + 1
             /\ \A j \in DOMAIN files : files'[j] = files[j]
             /\ files'[Len(files) + 1].status = "part"
             /\ files'[Len(files) + 1].count = 0
             /\ files'[Len(files) + 1].first = Len(written)
             /\ ~files'[Len(files) + 1].torn
             /\ ~files'[Len(files) + 1].synced
             /\ healthy' => healthy /\ files'[Len(files) + 1].declared = declarations
  <2>1. /\ Len(files') = Len(files) + 1
        /\ \A j \in DOMAIN files : files'[j] = files[j]
        /\ files'[Len(files) + 1] = NewFile(chans)
    BY <1>2, FilesType
  <2>2. healthy' => healthy /\ chans = declarations
    BY <1>2 DEF MarkUnhealthy
  <2> QED
    BY <2>1, <2>2 DEF NewFile
<1> QED
  BY <1>1, <1>2 DEF Rotate

LEMMA PowerLossEffect ==
  ASSUME TypeOK, PowerLoss
  PROVE  /\ Len(files') = Len(files)
         /\ \A j \in DOMAIN files :
              /\ \A a \in {"synced", "declared", "first", "count"} : files'[j][a] = files[j][a]
              /\ files'[j].status = "final" => files[j].status = "final"
              /\ files'[j].torn => ~files[j].synced
<1>1. PICK torn, renamed \in SUBSET DOMAIN files :
        /\ \A i \in torn : ~files[i].synced
        /\ files' = [i \in DOMAIN files |-> Left(files[i], i \in torn, i \in renamed)]
  BY DEF PowerLoss
<1>2. ASSUME NEW j \in DOMAIN files
      PROVE  /\ Left(files[j], j \in torn, j \in renamed).torn => j \in torn
             /\ Left(files[j], j \in torn, j \in renamed).status = "final" => files[j].status = "final"
             /\ \A a \in {"synced", "declared", "first", "count"} :
                  Left(files[j], j \in torn, j \in renamed)[a] = files[j][a]
             /\ Left(files[j], j \in torn, j \in renamed) \in File
  <2>1. (j \in torn) \in BOOLEAN /\ (j \in renamed) \in BOOLEAN /\ files[j] \in File
    BY <1>2, FilesType
  <2>2. Left(files[j], j \in torn, j \in renamed).torn = (j \in torn)
    BY <2>1, LeftFile, Zenon
  <2>3. Left(files[j], j \in torn, j \in renamed).status = "final" => files[j].status = "final"
    BY <2>1, LeftFile, Zenon
  <2>4. Left(files[j], j \in torn, j \in renamed) \in File
    BY <2>1, LeftFile, Zenon
  <2>5. /\ Left(files[j], j \in torn, j \in renamed).synced = files[j].synced
        /\ Left(files[j], j \in torn, j \in renamed).declared = files[j].declared
        /\ Left(files[j], j \in torn, j \in renamed).first = files[j].first
        /\ Left(files[j], j \in torn, j \in renamed).count = files[j].count
    BY <2>1, LeftFile, Zenon
  <2> QED  BY <2>2, <2>3, <2>4, <2>5
<1>3. files' \in [1 .. Len(files) -> File]
  BY <1>1, <1>2, FilesType
<1>4. Len(files') = Len(files)
  BY <1>3, FilesType, FunctionIsSeq
<1> QED
  BY <1>1, <1>2, <1>4

LEMMA CallsEffect ==
  ASSUME \/ \E p \in Producers : Producer(p)
         \/ Shutdown
         \/ UNCHANGED vars
  PROVE  UNCHANGED <<writer, held, declarations, files, written, healthy>>
BY DEF Producer, InCall, RegisterStart, RegisterSend, RecordCheck, TrySendOk, TrySendFull,
       TrySendDisconnected, TakeIndex, Shutdown, vars, writerVars

-----------------------------------------------------------------------------
(***************************************************************************)
(* Where the writer is, what it holds and which files there are.           *)
(***************************************************************************)

Rotating == writer \in {"sync", "rename"} /\ held # NoMessage

WriterState ==
  /\ writer = "opening" => files = <<>> /\ written = <<>> /\ declarations = {}
  /\ writer \in {"recv", "rotate", "sync", "rename", "write", "exited"} => files # <<>>
  /\ writer \in {"rotate", "write"} => held # NoMessage
  /\ writer \in {"opening", "recv", "exited", "panicked", "off"} => held = NoMessage
  /\ Rotating => Len(files) > 1
  /\ held # NoMessage => held.kind = "message"

\* The writer holds a message exactly while a rotation or a write is under
\* way, and a rotation has a file to finish.
THEOREM WriterStateInvariant == Spec => []WriterState
<1>1. Init => WriterState
  BY DEF Init, WriterState, Rotating
<1>2. ASSUME TypeOK, TypeOK', WriterState, [Next]_vars PROVE WriterState'
  <2>0. /\ Len(files) \in Nat /\ files \in Seq(File) /\ queue \in Seq(Command)
        /\ files' \in Seq(File)
    BY <1>2 DEF TypeOK, ChannelOK, WriterOK
  <2>1. CASE (\E p \in Producers : Producer(p)) \/ Shutdown \/ UNCHANGED vars
    BY <1>2, <2>1, CallsEffect DEF WriterState, Rotating
  <2>3. CASE OpenFirst
    BY <1>2, <2>3 DEF OpenFirst, Panic, WriterState, Rotating
  <2>4. CASE HandleRegister
    <3>1. Len(files') = Len(files) /\ files' # <<>>
      BY <1>2, <2>0, <2>4, DeclareEffect DEF HandleRegister, WriterState
    <3> QED
      BY <1>2, <2>0, <2>4, <3>1 DEF HandleRegister, WriterState, Rotating
  <2>5. CASE ReceiveMessage
    <3>1. Head(queue).kind = "message" /\ Head(queue) # NoMessage
      BY <2>5 DEF ReceiveMessage, NoMessage
    <3> QED
      BY <1>2, <2>5, <3>1 DEF ReceiveMessage, WriterState, Rotating
  <2>6. CASE Rotate
    <3>1. CASE Panic
      BY <1>2, <3>1 DEF Panic, WriterState, Rotating
    <3>2. ASSUME NEW chans \in SUBSET declarations, files' = Append(files, NewFile(chans)),
                 writer' = "sync", held' = held
          PROVE  WriterState'
      <4>1. Len(files') = Len(files) + 1
        BY <2>0, <3>2
      <4>2. Len(files) > 0
        BY <1>2, <2>0, <2>6 DEF Rotate, WriterState
      <4> QED
        BY <1>2, <2>0, <2>6, <3>2, <4>1, <4>2 DEF Rotate, WriterState, Rotating
    <3> QED
      BY <2>6, <3>1, <3>2 DEF Rotate
  <2>7. CASE EndOfStream
    BY <1>2, <2>7 DEF EndOfStream, WriterState, Rotating
  <2>8. CASE Sync
    <3>1. Len(files') = Len(files) /\ files' # <<>>
      BY <1>2, <2>0, <2>8, SyncEffect DEF Sync, WriterState
    <3> QED
      BY <1>2, <2>0, <2>8, <3>1 DEF Sync, FinishFails, AfterFinish, WriterState, Rotating
  <2>9. CASE Rename
    <3>1. Len(files') = Len(files) /\ files' # <<>>
      BY <1>2, <2>0, <2>9, RenameEffect DEF Rename, WriterState
    <3> QED
      BY <1>2, <2>0, <2>9, <3>1 DEF Rename, FinishFails, AfterFinish, WriterState, Rotating
  <2>10. CASE Write
    <3>1. Len(files') = Len(files) /\ files' # <<>>
      BY <1>2, <2>0, <2>10, WriteEffect DEF Write, WriterState
    <3> QED
      BY <1>2, <2>0, <2>10, <3>1 DEF Write, WriterState, Rotating
  <2>11. CASE PowerLoss
    BY <1>2, <2>11 DEF PowerLoss, WriterState, Rotating
  <2> QED
    BY <1>2, <2>1, <2>3, <2>4, <2>5, <2>6, <2>7, <2>8, <2>9, <2>10, <2>11
       DEF Next, Writer
<1> QED
  BY <1>1, <1>2, TypeCorrect, PTL DEF Spec

-----------------------------------------------------------------------------
(***************************************************************************)
(* Rotation.  The bound on a file's count is inductive together with where *)
(* the messages of a file lie in the stream, and with room in the file the *)
(* writer is about to write to.                                            *)
(***************************************************************************)

Bounded ==
  /\ RotationBound
  /\ \A i \in DOMAIN files : files[i].first + files[i].count <= Len(written)
  /\ writer = "write" => files[Current].count < FileRoom
  /\ Rotating => files[Current].count = 0

\* Whatever faults and races happen, no file grows past the limit and files do
\* not overlap in the stream.
THEOREM RotationBounded == Spec => []RotationBound
<1>1. Init => Bounded
  BY DEF Init, Bounded, RotationBound, Rotating
<1>2. ASSUME TypeOK, TypeOK', WriterState, WriterState', Bounded, [Next]_vars PROVE Bounded'
  <2>0. /\ Len(files) \in Nat /\ DOMAIN files = 1 .. Len(files)
        /\ Len(files') \in Nat /\ DOMAIN files' = 1 .. Len(files')
        /\ Len(written) \in Nat /\ MaxPerFile \in Nat /\ FileRoom \in Nat \ {0}
        /\ MaxPerFile <= FileRoom /\ FileRoom' = FileRoom
        /\ \A i \in DOMAIN files : files[i].count \in Nat /\ files[i].first \in Nat
    <3>1. /\ MaxPerFile \in Nat /\ FileRoom \in Nat \ {0}
          /\ MaxPerFile <= FileRoom /\ FileRoom' = FileRoom
      BY RecorderAssumption DEF RecorderAssumption, FileRoom
    <3>2. Len(files') \in Nat /\ DOMAIN files' = 1 .. Len(files')
      BY <1>2 DEF TypeOK, WriterOK
    <3> QED  BY <1>2, <3>1, <3>2, Positions
  <2>1. CASE (\E p \in Producers : Producer(p)) \/ Shutdown \/ UNCHANGED vars
    BY <1>2, <2>1, CallsEffect DEF Bounded, RotationBound, Rotating, Current
  <2>2. CASE OpenFirst
    <3>1. CASE Panic
      BY <1>2, <3>1 DEF Panic, Bounded, RotationBound, Rotating
    <3>2. CASE files' = <<NewFile({})>> /\ written' = written /\ writer' = "recv"
      <4>1. DOMAIN files' = {1} /\ files'[1].count = 0 /\ files'[1].first = Len(written)
        BY <3>2 DEF NewFile
      <4> QED
        BY <2>0, <3>2, <4>1 DEF Bounded, RotationBound, Rotating
    <3> QED
      BY <2>2, <3>1, <3>2 DEF OpenFirst
  <2>3. CASE HandleRegister
    BY <1>2, <2>0, <2>3, DeclareEffect DEF HandleRegister, Bounded, RotationBound, Rotating, Current
  <2>4. CASE ReceiveMessage
    BY <1>2, <2>0, <2>4 DEF ReceiveMessage, CountReached, Bounded, RotationBound, Rotating, Current, WriterState, FileRoom
  <2>5. CASE Rotate
    <3>1. CASE Panic
      BY <1>2, <3>1 DEF Panic, Bounded, RotationBound, Rotating
    <3>2. CASE ~Panic
      <4>1. /\ Len(files') = Len(files) + 1 /\ written' = written /\ writer' = "sync"
            /\ \A j \in DOMAIN files : files'[j] = files[j]
            /\ files'[Len(files) + 1].count = 0
            /\ files'[Len(files) + 1].first = Len(written)
        BY <1>2, <2>5, <3>2, RotateEffect
      <4>2. \A i \in DOMAIN files' : i \in DOMAIN files \/ i = Len(files) + 1
        BY <2>0, <4>1
      <4>3. RotationBound'
        BY <1>2, <2>0, <4>1, <4>2 DEF Bounded, RotationBound
      <4>4. \A i \in DOMAIN files' : files'[i].first + files'[i].count <= Len(written')
        BY <1>2, <2>0, <4>1, <4>2 DEF Bounded
      <4> QED
        BY <2>0, <4>1, <4>3, <4>4 DEF Bounded, Rotating, Current
    <3> QED  BY <3>1, <3>2
  <2>6. CASE EndOfStream
    BY <1>2, <2>6 DEF EndOfStream, Bounded, RotationBound, Rotating, Current, WriterState
  <2>7. CASE Sync
    <3>1. /\ \A i \in DOMAIN files' : /\ files'[i].count = files[i].count
                                      /\ files'[i].first = files[i].first
          /\ DOMAIN files' = DOMAIN files /\ Current' = Current /\ written' = written
      BY <1>2, <2>0, <2>7, SyncEffect DEF Sync, Current
    <3>2. RotationBound'
      BY <1>2, <2>0, <3>1 DEF Bounded, RotationBound
    <3> QED
      BY <1>2, <2>0, <2>7, SyncEffect, <3>1, <3>2 DEF Sync, FinishFails, AfterFinish, Bounded, Rotating, Current, WriterState
  <2>8. CASE Rename
    <3>1. /\ \A i \in DOMAIN files' : /\ files'[i].count = files[i].count
                                      /\ files'[i].first = files[i].first
          /\ DOMAIN files' = DOMAIN files /\ Current' = Current /\ written' = written
      BY <1>2, <2>0, <2>8, RenameEffect DEF Rename, Current
    <3>2. RotationBound'
      BY <1>2, <2>0, <3>1 DEF Bounded, RotationBound
    <3> QED
      BY <1>2, <2>0, <2>8, RenameEffect, <3>1, <3>2 DEF Rename, FinishFails, AfterFinish, Bounded, Rotating, Current, WriterState
  <2>9. CASE Write
    <3>1. /\ Current \in DOMAIN files /\ Current' = Current /\ DOMAIN files' = DOMAIN files
          /\ files[Current].count < FileRoom
      <4>1. files # <<>> /\ files[Current].count < FileRoom
        BY <1>2, <2>9 DEF Write, Bounded, WriterState
      <4>2. Len(files') = Len(files)
        BY <1>2, <2>9, WriteEffect
      <4> QED  BY <1>2, <2>0, <4>1, <4>2, Positions DEF Current
    <3>2. \A i \in DOMAIN files : files'[i].first = files[i].first
      BY <2>9, <1>2, WriteEffect
    <3>3. \/ /\ \A i \in DOMAIN files : files'[i].count = files[i].count
             /\ Len(written') = Len(written)
          \/ /\ \A i \in DOMAIN files : i # Current => files'[i].count = files[i].count
             /\ files'[Current].count = files[Current].count + 1
             /\ Len(written') = Len(written) + 1
      BY <1>2, <2>9, <3>1, WriteEffect
    <3>4. RotationBound'
      BY <1>2, <2>0, <3>1, <3>2, <3>3 DEF Bounded, RotationBound, Current
    <3>5. \A i \in DOMAIN files' : files'[i].first + files'[i].count <= Len(written')
      BY SMTT(30), <1>2, <2>0, <3>1, <3>2, <3>3 DEF Bounded
    <3> QED
      BY <2>9, <3>4, <3>5 DEF Write, Bounded, Rotating
  <2>10. CASE PowerLoss
    <3>1. /\ \A i \in DOMAIN files' : /\ files'[i].count = files[i].count
                                      /\ files'[i].first = files[i].first
          /\ DOMAIN files' = DOMAIN files /\ Current' = Current /\ written' = written
      BY <1>2, <2>0, <2>10, PowerLossEffect DEF PowerLoss, Current
    <3>2. RotationBound'
      BY <1>2, <2>0, <3>1 DEF Bounded, RotationBound
    <3> QED
      BY <1>2, <2>0, <2>10, PowerLossEffect, <3>1, <3>2 DEF PowerLoss, Bounded, Rotating, Current, WriterState
  <2> QED
    BY <1>2, <2>1, <2>2, <2>3, <2>4, <2>5, <2>6, <2>7, <2>8, <2>9, <2>10 DEF Next, Writer
<1>3. Bounded => RotationBound
  BY DEF Bounded
<1> QED
  BY <1>1, <1>2, <1>3, TypeCorrect, WriterStateInvariant, PTL DEF Spec

-----------------------------------------------------------------------------
(***************************************************************************)
(* Final names.  A file is synced before it is renamed, and only a power   *)
(* loss tears a file, never one that was synced.                           *)
(***************************************************************************)

SyncedFirst ==
  /\ \A i \in DOMAIN files : files[i].status = "final" => files[i].synced /\ ~files[i].torn
  /\ writer # "off" => \A i \in DOMAIN files : ~files[i].torn
  /\ writer = "rename" => files[Finishing].synced

\* A file with a final name is complete, whatever fails and whenever the power
\* does.
THEOREM FinalsComplete == Spec => []FinalIsComplete
<1>1. Init => SyncedFirst
  BY DEF Init, SyncedFirst
<1>2. ASSUME TypeOK, TypeOK', WriterState, WriterState', SyncedFirst, [Next]_vars
      PROVE  SyncedFirst'
  <2>0. /\ Len(files) \in Nat /\ DOMAIN files = 1 .. Len(files)
        /\ Len(files') \in Nat /\ DOMAIN files' = 1 .. Len(files')
    BY <1>2 DEF TypeOK, WriterOK
  <2>1. CASE (\E p \in Producers : Producer(p)) \/ Shutdown \/ UNCHANGED vars
    BY <1>2, <2>1, CallsEffect DEF SyncedFirst, Finishing, Current
  <2>2. CASE OpenFirst
    <3>1. CASE Panic
      BY <1>2, <2>2, <3>1 DEF OpenFirst, Panic, SyncedFirst, WriterState
    <3>2. CASE files' = <<NewFile({})>> /\ writer' = "recv"
      <4>1. DOMAIN files' = {1} /\ files'[1].status = "part" /\ ~files'[1].torn
        BY <3>2 DEF NewFile
      <4> QED
        BY <3>2, <4>1 DEF SyncedFirst
    <3> QED
      BY <2>2, <3>1, <3>2 DEF OpenFirst
  <2>3. CASE HandleRegister
    BY <1>2, <2>0, <2>3, DeclareEffect DEF HandleRegister, SyncedFirst
  <2>4. CASE ReceiveMessage
    BY <1>2, <2>4 DEF ReceiveMessage, SyncedFirst
  <2>5. CASE Rotate
    <3>1. CASE Panic
      BY <1>2, <2>5, <3>1 DEF Rotate, Panic, SyncedFirst
    <3>2. CASE ~Panic
      <4>1. /\ Len(files') = Len(files) + 1 /\ writer' = "sync"
            /\ \A j \in DOMAIN files : files'[j] = files[j]
            /\ files'[Len(files) + 1].status = "part"
            /\ ~files'[Len(files) + 1].torn
        BY <1>2, <2>5, <3>2, RotateEffect
      <4>2. \A i \in DOMAIN files' : i \in DOMAIN files \/ i = Len(files) + 1
        BY <2>0, <4>1
      <4> QED
        BY <1>2, <2>5, <4>1, <4>2 DEF Rotate, SyncedFirst
    <3> QED  BY <3>1, <3>2
  <2>6. CASE EndOfStream
    BY <1>2, <2>6 DEF EndOfStream, SyncedFirst
  <2>7. CASE Sync
    <3>1. Finishing \in DOMAIN files /\ Finishing' = Finishing
      <4>1. Len(files') = Len(files) /\ held' = held
        BY <1>2, <2>7, SyncEffect DEF Sync
      <4>2. files # <<>> /\ (held # NoMessage => Len(files) > 1)
        BY <1>2, <2>7 DEF Sync, WriterState, Rotating
      <4>3. Len(files) > 0
        BY <1>2, <4>2, FilesType
      <4> QED  BY <2>0, <4>1, <4>2, <4>3 DEF Finishing, Current
    <3> QED
      BY <1>2, <2>0, <2>7, <3>1, SyncEffect DEF Sync, FinishFails, AfterFinish, SyncedFirst
  <2>8. CASE Rename
    <3>1. writer = "rename" /\ writer' \in {"exited", "write"}
      BY <2>8 DEF Rename, FinishFails, AfterFinish
    <3>2. \A j \in DOMAIN files : /\ files'[j].synced = files[j].synced
                                  /\ files'[j].torn = files[j].torn
                                  /\ j # Finishing => files'[j].status = files[j].status
      BY <1>2, <2>8, RenameEffect
    <3>3. DOMAIN files' = DOMAIN files
      BY <1>2, <2>0, <2>8, RenameEffect
    <3> QED
      BY <1>2, <3>1, <3>2, <3>3 DEF SyncedFirst
  <2>9. CASE Write
    BY <1>2, <2>0, <2>9, WriteEffect DEF Write, SyncedFirst
  <2>10. CASE PowerLoss
    <3>1. writer' = "off"
      BY <2>10 DEF PowerLoss
    <3>2. \A j \in DOMAIN files : /\ files'[j].synced = files[j].synced
                                  /\ files'[j].status = "final" => files[j].status = "final"
                                  /\ files'[j].torn => ~files[j].synced
      BY <1>2, <2>10, PowerLossEffect
    <3>3. DOMAIN files' = DOMAIN files
      BY <1>2, <2>0, <2>10, PowerLossEffect
    <3> QED
      BY <1>2, <3>1, <3>2, <3>3 DEF SyncedFirst
  <2> QED
    BY <1>2, <2>1, <2>2, <2>3, <2>4, <2>5, <2>6, <2>7, <2>8, <2>9, <2>10 DEF Next, Writer
<1>3. SyncedFirst => FinalIsComplete
  BY DEF SyncedFirst, FinalIsComplete
<1> QED
  BY <1>1, <1>2, <1>3, TypeCorrect, WriterStateInvariant, PTL DEF Spec

-----------------------------------------------------------------------------
(***************************************************************************)
(* Publication in order.  While the class is healthy every file before the *)
(* one that is being finished has its final name, and the file a rotation  *)
(* has just opened does not.                                               *)
(***************************************************************************)

InOrder ==
  healthy /\ writer # "off" =>
    /\ \A i \in DOMAIN files : i < Current /\ (Rotating => i < Current - 1) =>
         files[i].status = "final"
    /\ Rotating => files[Current].status # "final"

\* While the class is healthy, a reader of the final names sees a beginning of
\* the stream.
THEOREM PublishedInOrder == Spec => []NoPublishedGap
<1>1. Init => InOrder
  BY DEF Init, InOrder, Rotating
<1>2. ASSUME TypeOK, TypeOK', WriterState, WriterState', InOrder, [Next]_vars
      PROVE  InOrder'
  <2>0. /\ Len(files) \in Nat /\ DOMAIN files = 1 .. Len(files)
        /\ Len(files') \in Nat /\ DOMAIN files' = 1 .. Len(files')
    BY <1>2 DEF TypeOK, WriterOK
  <2>1. CASE (\E p \in Producers : Producer(p)) \/ Shutdown \/ UNCHANGED vars
    BY <1>2, <2>1, CallsEffect DEF InOrder, Rotating, Current
  <2>2. CASE OpenFirst
    <3>1. CASE Panic
      BY <1>2, <2>2, <3>1 DEF OpenFirst, Panic, InOrder, WriterState, Rotating, Current
    <3>2. CASE files' = <<NewFile({})>> /\ writer' = "recv"
      <4>1. DOMAIN files' = {1} /\ Len(files') = 1
        BY <3>2
      <4> QED
        BY <3>2, <4>1 DEF InOrder, Rotating, Current
    <3> QED
      BY <2>2, <3>1, <3>2 DEF OpenFirst
  <2>3. CASE HandleRegister
    <3>1. /\ Len(files') = Len(files)
          /\ \A j \in DOMAIN files : files'[j].status = files[j].status
      BY <1>2, <2>3, DeclareEffect
    <3>2. (healthy' => healthy) /\ writer = "recv" /\ writer' = "recv"
      BY <2>3 DEF HandleRegister, MarkUnhealthy
    <3> QED
      BY <1>2, <2>0, <3>1, <3>2 DEF InOrder, Rotating, Current
  <2>4. CASE ReceiveMessage
    BY <1>2, <2>0, <2>4 DEF ReceiveMessage, InOrder, Rotating, Current
  <2>5. CASE Rotate
    <3>1. CASE Panic
      BY <1>2, <2>5, <3>1 DEF Rotate, Panic, InOrder, Rotating, Current
    <3>2. CASE ~Panic
      <4>1. /\ Len(files') = Len(files) + 1 /\ writer' = "sync" /\ held' = held
            /\ \A j \in DOMAIN files : files'[j] = files[j]
            /\ files'[Len(files) + 1].status = "part"
            /\ healthy' => healthy
        BY <1>2, <2>5, <3>2, RotateEffect
      <4>2. writer = "rotate" /\ ~Rotating /\ Rotating'
        BY <1>2, <2>5, <4>1 DEF Rotate, WriterState, Rotating
      <4> QED
        BY <1>2, <2>0, <4>1, <4>2 DEF InOrder, Current
    <3> QED  BY <3>1, <3>2
  <2>6. CASE EndOfStream
    BY <1>2, <2>0, <2>6 DEF EndOfStream, InOrder, Rotating, Current, WriterState
  <2>7. CASE Sync
    <3>1. /\ Len(files') = Len(files)
          /\ \A j \in DOMAIN files : files'[j].status = files[j].status
      BY <1>2, <2>7, SyncEffect
    <3>2. healthy' => healthy /\ writer' = "rename"
      BY <2>7 DEF Sync, FinishFails, MarkUnhealthy
    <3>3. writer = "sync" /\ held' = held
      BY <2>7 DEF Sync
    <3>4. Len(files) > 0
      BY <1>2, <2>0, <3>3, FilesType DEF WriterState
    <3> QED
      BY <1>2, <2>0, <3>1, <3>2, <3>3, <3>4 DEF InOrder, Rotating, Current
  <2>8. CASE Rename
    <3>1. Len(files') = Len(files) /\ Current' = Current
      BY <1>2, <2>8, RenameEffect DEF Current
    <3>2. \A j \in DOMAIN files : files[j].status = "final" => files'[j].status = "final"
      BY <1>2, <2>8, RenameEffect
    <3>3. healthy' => healthy /\ writer = "rename"
      BY <2>8 DEF Rename, FinishFails, MarkUnhealthy
    <3>4. ~Rotating'
      BY <2>8 DEF Rename, FinishFails, AfterFinish, Rotating
    <3>5. healthy' /\ Finishing \in DOMAIN files => files'[Finishing].status = "final"
      BY <1>2, <2>8, RenameEffect
    <3>6. held # NoMessage => Finishing = Current - 1 /\ Rotating
      BY <2>8 DEF Finishing, Rename, Rotating
    <3>7. held = NoMessage => ~Rotating
      BY DEF Rotating
    <3> QED
      BY <1>2, <2>0, <3>1, <3>2, <3>3, <3>4, <3>5, <3>6, <3>7 DEF InOrder, Current
  <2>9. CASE Write
    <3>1. /\ Len(files') = Len(files)
          /\ \A j \in DOMAIN files : files'[j].status = files[j].status
      BY <1>2, <2>9, WriteEffect
    <3>2. (healthy' => healthy) /\ writer = "write" /\ writer' = "recv"
      BY <2>9 DEF Write, MarkUnhealthy
    <3> QED
      BY <1>2, <2>0, <3>1, <3>2 DEF InOrder, Rotating, Current
  <2>10. CASE PowerLoss
    BY <2>10 DEF PowerLoss, InOrder
  <2> QED
    BY <1>2, <2>1, <2>2, <2>3, <2>4, <2>5, <2>6, <2>7, <2>8, <2>9, <2>10 DEF Next, Writer
<1>3. TypeOK /\ InOrder => NoPublishedGap
  BY FilesType DEF InOrder, NoPublishedGap, Rotating, Current
<1> QED
  BY <1>1, <1>2, <1>3, TypeCorrect, WriterStateInvariant, PTL DEF Spec

-----------------------------------------------------------------------------
(***************************************************************************)
(* A refusal is final: the two reasons for it, a dead writer and a cleared *)
(* health flag, never go away, and the producer that was told is not in a  *)
(* call that has passed the check.                                         *)
(***************************************************************************)

Told ==
  \A p \in Producers : result[p] = "WriterGone" =>
    /\ pc[p] # "sent"
    /\ WriterGone \/ (~healthy /\ pc[p] # "checked")

GoneStays == \A p \in Producers : result[p] = "WriterGone" => result'[p] = "WriterGone"

\* What makes the reasons for a refusal permanent.
LEMMA ReasonsStay ==
  ASSUME TypeOK, Writer \/ PowerLoss
  PROVE  /\ WriterGone => WriterGone'
         /\ healthy' => healthy
         /\ UNCHANGED <<result, arg, known, nextIndex, accepted, located>>
         /\ \A p \in Producers : pc'[p] = pc[p] \/ pc'[p] = "idle"
<1>1. CASE PowerLoss
  BY <1>1 DEF PowerLoss, WriterGone
<1>2. CASE Writer
  <2>1. ~WriterGone
    BY <1>2 DEF Writer, OpenFirst, HandleRegister, ReceiveMessage, Rotate, EndOfStream,
       Sync, Rename, Write, WriterGone
  <2>2. healthy' => healthy
    BY <1>2 DEF Writer, OpenFirst, HandleRegister, ReceiveMessage, Rotate, EndOfStream,
       Sync, Rename, Write, Panic, FinishFails, MarkUnhealthy
  <2>3. UNCHANGED producerVars
    BY <1>2 DEF Writer, OpenFirst, HandleRegister, ReceiveMessage, Rotate, EndOfStream,
       Sync, Rename, Write, Panic
  <2> QED  BY <2>1, <2>2, <2>3 DEF producerVars
<1> QED  BY <1>1, <1>2

\* Once record has said WriterGone to a producer it says nothing else to it.
THEOREM RefusalIsFinal == Spec => GoneIsFinal
<1>1. Init => Told
  BY DEF Init, Told
<1>2. ASSUME TypeOK, Told, [Next]_vars PROVE Told' /\ GoneStays
  <2>0. /\ pc \in [Producers -> {"idle", "registering", "checked", "sent"}]
        /\ result \in [Producers -> {"None", "Enqueued", "Dropped",
                                     "SafetyBackpressure", "WriterGone"}]
    BY <1>2 DEF TypeOK, ProducersOK
  <2>1. ASSUME NEW q \in Producers, Producer(q) PROVE Told' /\ GoneStays
    <3>1. UNCHANGED <<writer, healthy>>
      BY <2>1, CallsEffect
    <3>2. ASSUME NEW p \in Producers, p # q
          PROVE  pc'[p] = pc[p] /\ result'[p] = result[p]
      BY <2>0, <2>1, <3>2 DEF Producer, InCall, RegisterStart, RegisterSend, RecordCheck,
         TrySendOk, TrySendFull, TrySendDisconnected, TakeIndex
    <3>3. /\ result[q] = "WriterGone" => result'[q] = "WriterGone"
          /\ result'[q] = "WriterGone" =>
               /\ pc'[q] # "sent"
               /\ WriterGone \/ (~healthy /\ pc'[q] # "checked")
      <4>0. result[q] = "WriterGone" =>
              pc[q] # "sent" /\ (WriterGone \/ (~healthy /\ pc[q] # "checked"))
        BY <1>2 DEF Told
      <4>1. CASE RegisterStart(q) \/ RegisterSend(q)
        BY <2>0, <4>0, <4>1 DEF RegisterStart, RegisterSend
      <4>2. CASE \E ch \in known : RecordCheck(q, ch)
        BY <2>0, <4>0, <4>2 DEF RecordCheck
      <4>3. CASE TrySendOk(q) \/ TrySendFull(q)
        BY <2>0, <4>0, <4>3 DEF TrySendOk, TrySendFull
      <4>4. CASE TrySendDisconnected(q)
        BY <2>0, <4>0, <4>4 DEF TrySendDisconnected
      <4>5. CASE TakeIndex(q)
        BY <2>0, <4>0, <4>5 DEF TakeIndex
      <4> QED
        BY <2>1, <4>1, <4>2, <4>3, <4>4, <4>5 DEF Producer, InCall
    <3> QED
      BY <1>2, <3>1, <3>2, <3>3 DEF Told, GoneStays, WriterGone
  <2>2. CASE Shutdown \/ UNCHANGED vars
    BY <1>2, <2>2 DEF Shutdown, vars, producerVars, writerVars, Told, GoneStays, WriterGone
  <2>3. CASE Writer \/ PowerLoss
    BY <1>2, <2>0, <2>3, ReasonsStay DEF Told, GoneStays
  <2> QED
    BY <1>2, <2>1, <2>2, <2>3 DEF Next
<1> QED
  BY <1>1, <1>2, TypeCorrect, PTL DEF Spec, GoneIsFinal, GoneStays

-----------------------------------------------------------------------------
(***************************************************************************)
(* Nothing accepted is lost silently.  Three invariants: the channel is    *)
(* empty and closed for good once the writer leaves its loop; the channel  *)
(* of every message is declared before the message is handled; and the     *)
(* messages written, in hand and in the channel are numbered in order.     *)
(***************************************************************************)

Drained ==
  /\ ~senderOpen => \A p \in Producers : pc[p] = "idle"
  /\ writer \in {"sync", "rename"} /\ held = NoMessage => ~senderOpen /\ queue = <<>>
  /\ writer = "exited" => ~senderOpen /\ queue = <<>>

\* The writer ends only when no producer can add to the channel.
LEMMA DrainedInvariant == Spec => []Drained
<1>1. Init => Drained
  BY DEF Init, Drained
<1>2. ASSUME TypeOK, TypeOK', WriterState, Drained, [Next]_vars PROVE Drained'
  <2>0. pc \in [Producers -> {"idle", "registering", "checked", "sent"}]
    BY <1>2 DEF TypeOK, ProducersOK
  <2>1. ASSUME NEW q \in Producers, Producer(q) PROVE Drained'
    <3>1. senderOpen
      BY <1>2, <2>1 DEF Producer, InCall, RegisterStart, RegisterSend, RecordCheck,
         TrySendOk, TrySendFull, TrySendDisconnected, TakeIndex, Drained
    <3>2. UNCHANGED <<writer, held>> /\ senderOpen' = senderOpen
      BY <2>1, CallsEffect DEF Producer, InCall, RegisterStart, RegisterSend, RecordCheck,
         TrySendOk, TrySendFull, TrySendDisconnected, TakeIndex
    <3> QED
      BY <1>2, <3>1, <3>2 DEF Drained
  <2>2. CASE Shutdown
    BY <1>2, <2>2 DEF Shutdown, producerVars, writerVars, Drained
  <2>3. CASE Writer
    <3>1. pc' = pc /\ senderOpen' = senderOpen
      BY <2>3 DEF Writer, OpenFirst, HandleRegister, ReceiveMessage, Rotate, EndOfStream,
         Sync, Rename, Write, Panic, producerVars
    <3>2. \/ writer' \notin {"sync", "rename", "exited"}
          \/ EndOfStream
          \/ Rotate /\ held' = held
          \/ (Sync \/ Rename) /\ held' = held /\ queue' = queue
      BY <2>3 DEF Writer, OpenFirst, HandleRegister, ReceiveMessage, Rotate,
         Sync, Rename, Write, Panic
    <3>3. CASE writer' \notin {"sync", "rename", "exited"}
      BY <1>2, <3>1, <3>3 DEF Drained
    <3>4. CASE EndOfStream
      BY <1>2, <3>1, <3>4 DEF EndOfStream, StreamEnded, Drained
    <3>5. CASE Rotate /\ held' = held
      BY <1>2, <3>1, <3>5 DEF Rotate, Panic, Drained, WriterState
    <3>6. CASE (Sync \/ Rename) /\ held' = held /\ queue' = queue
      BY <1>2, <3>1, <3>6 DEF Sync, Rename, FinishFails, AfterFinish, Drained
    <3> QED  BY <3>2, <3>3, <3>4, <3>5, <3>6
  <2>4. CASE PowerLoss
    BY <1>2, <2>4 DEF PowerLoss, Drained
  <2>5. CASE UNCHANGED vars
    BY <1>2, <2>5 DEF vars, producerVars, writerVars, Drained
  <2> QED
    BY <1>2, <2>1, <2>2, <2>3, <2>4, <2>5 DEF Next
<1> QED
  BY <1>1, <1>2, TypeCorrect, WriterStateInvariant, PTL DEF Spec

\* The channel's contents after a send and after a receive.
LEMMA AfterAppend ==
  ASSUME NEW q \in Seq(Command), NEW c \in Command
  PROVE  /\ Len(q) \in Nat /\ DOMAIN q = 1 .. Len(q)
         /\ DOMAIN Append(q, c) = 1 .. Len(q) + 1
         /\ \A i \in DOMAIN q : Append(q, c)[i] = q[i]
         /\ Append(q, c)[Len(q) + 1] = c
OBVIOUS

LEMMA AfterTail ==
  ASSUME NEW q \in Seq(Command), q # <<>>
  PROVE  /\ Len(q) \in Nat /\ Len(q) > 0 /\ DOMAIN q = 1 .. Len(q)
         /\ Head(q) = q[1]
         /\ DOMAIN Tail(q) = 1 .. Len(q) - 1
         /\ \A i \in 1 .. Len(q) - 1 : Tail(q)[i] = q[i + 1]
OBVIOUS

Announced(ch, n) ==
  \/ ch \in declarations
  \/ \E j \in DOMAIN queue : j < n /\ queue[j].kind = "register" /\ queue[j].ch = ch

AllAnnounced ==
  /\ \A i \in DOMAIN queue : queue[i].kind = "message" => Announced(queue[i].ch, i)
  /\ \A ch \in known : Announced(ch, Len(queue) + 1)

Declared ==
  /\ \A p \in Producers : pc[p] = "checked" => arg[p] \in known
  /\ ~WriterGone =>
       /\ healthy /\ writer # "opening" => files[Current].declared = declarations
       /\ held # NoMessage => held.ch \in declarations
       /\ AllAnnounced

\* Taking the first command off the channel, if a declaration is remembered.
LEMMA TakeKeepsAnnounced ==
  ASSUME TypeOK, AllAnnounced, queue # <<>>, queue' = Tail(queue), known' = known,
         declarations \subseteq declarations',
         Head(queue).kind = "register" => Head(queue).ch \in declarations'
  PROVE  AllAnnounced'
<1>1. /\ Len(queue) \in Nat /\ Len(queue) > 0 /\ DOMAIN queue = 1 .. Len(queue)
      /\ Len(queue') = Len(queue) - 1
      /\ DOMAIN queue' = 1 .. Len(queue) - 1
      /\ \A i \in 1 .. Len(queue) - 1 : queue'[i] = queue[i + 1]
      /\ Head(queue) = queue[1]
  BY FilesType, AfterTail
<1>2. ASSUME NEW ch, NEW n \in Nat, Announced(ch, n + 1) PROVE Announced(ch, n)'
  <2>1. CASE ch \in declarations
    BY <2>1 DEF Announced
  <2>2. ASSUME NEW j \in DOMAIN queue, j < n + 1, queue[j].kind = "register", queue[j].ch = ch
        PROVE  Announced(ch, n)'
    <3>1. CASE j = 1
      BY <1>1, <2>2, <3>1 DEF Announced
    <3>2. CASE j # 1
      <4>1. j - 1 \in DOMAIN queue' /\ queue'[j - 1] = queue[j] /\ j - 1 < n
        BY <1>1, <2>2, <3>2
      <4> QED  BY <2>2, <4>1 DEF Announced
    <3> QED  BY <3>1, <3>2
  <2> QED  BY <1>2, <2>1, <2>2 DEF Announced
<1>3. ASSUME NEW i \in DOMAIN queue', queue'[i].kind = "message"
      PROVE  Announced(queue[i].ch, i)'
  <2>1. i \in Nat /\ i + 1 \in DOMAIN queue /\ queue'[i] = queue[i + 1]
    BY <1>1, <1>3
  <2>2. Announced(queue[i + 1].ch, i + 1)
    BY <1>3, <2>1 DEF AllAnnounced
  <2>3. PICK c : c = queue[i + 1].ch
    OBVIOUS
  <2>4. Announced(c, i + 1)
    BY <2>2, <2>3 DEF Announced
  <2>5. Announced(c, i)'
    BY <1>2, <2>1, <2>4
  <2> QED  BY <2>1, <2>3, <2>5 DEF Announced
<1>4. ASSUME NEW ch \in known PROVE Announced(ch, Len(queue) + 1)'
  <2>1. Announced(ch, Len(queue) + 1)
    BY DEF AllAnnounced
  <2>2. PICK k \in Nat : k = Len(queue)
    BY <1>1
  <2>3. Announced(ch, k + 1)
    BY <2>1, <2>2 DEF Announced
  <2>4. Announced(ch, k)'
    BY <1>2, <2>2, <2>3
  <2> QED  BY <1>1, <2>2, <2>4 DEF Announced
<1> QED
  BY <1>3, <1>4 DEF AllAnnounced

\* While the writer runs, a message's channel is declared by the time the
\* writer has the message, and while the class is healthy the file has it too.
LEMMA DeclaredInvariant == Spec => []Declared
<1>1. Init => Declared
  BY DEF Init, Declared, AllAnnounced, WriterGone
<1>2. ASSUME TypeOK, TypeOK', WriterState, WriterState', Declared, [Next]_vars PROVE Declared'
  <2>0. /\ pc \in [Producers -> {"idle", "registering", "checked", "sent"}]
        /\ arg \in [Producers -> Nat] /\ accepted \in Nat
        /\ queue \in Seq(Command) /\ Len(queue) \in Nat /\ DOMAIN queue = 1 .. Len(queue)
    BY <1>2 DEF TypeOK, ProducersOK, CountersOK, ChannelOK
  <2>1. ASSUME NEW q \in Producers, Producer(q) PROVE Declared'
    <3>0. UNCHANGED <<writer, held, declarations, files, healthy>> /\ (WriterGone' <=> WriterGone)
      BY <2>1, CallsEffect DEF WriterGone
    <3>1. CASE RegisterStart(q) \/ TrySendFull(q) \/ TrySendDisconnected(q) \/ TakeIndex(q)
      <4>1. UNCHANGED <<queue, known>> /\ \A p \in Producers :
              pc'[p] = "checked" => pc[p] = "checked" /\ arg'[p] = arg[p]
        BY <2>0, <3>1 DEF RegisterStart, TrySendFull, TrySendDisconnected, TakeIndex
      <4> QED  BY <1>2, <3>0, <4>1 DEF Declared, AllAnnounced, Announced, Current
    <3>2. CASE \E ch \in known : RecordCheck(q, ch)
      <4>1. UNCHANGED <<queue, known>> /\ \A p \in Producers :
              pc'[p] = "checked" => (pc[p] = "checked" /\ arg'[p] = arg[p]) \/ arg'[p] \in known
        BY <2>0, <3>2 DEF RecordCheck
      <4> QED  BY <1>2, <3>0, <4>1 DEF Declared, AllAnnounced, Announced, Current
    <3>3. CASE RegisterSend(q)
      <4> DEFINE c == [kind |-> "register", ch |-> arg[q], nth |-> 0]
      <4>1. c \in Command
        BY <2>0 DEF Command
      <4>2. /\ known' = known \cup {arg[q]}
            /\ \A p \in Producers : pc'[p] = "checked" => pc[p] = "checked" /\ arg'[p] = arg[p]
        BY <2>0, <3>3 DEF RegisterSend
      <4>3. WriterGone \/ queue' = Append(queue, c)
        BY <3>3 DEF RegisterSend, Send
      <4>4. CASE WriterGone
        BY <1>2, <3>0, <4>2, <4>4 DEF Declared
      <4>5. CASE queue' = Append(queue, c)
        BY <1>2, <2>0, <3>0, <4>1, <4>2, <4>5, AfterAppend DEF Declared, AllAnnounced, Announced, Current
      <4> QED  BY <4>3, <4>4, <4>5
    <3>4. CASE TrySendOk(q)
      <4> DEFINE c == [kind |-> "message", ch |-> arg[q], nth |-> accepted + 1]
      <4>1. c \in Command
        BY <2>0 DEF Command
      <4>2. /\ known' = known
            /\ \A p \in Producers : pc'[p] = "checked" => pc[p] = "checked" /\ arg'[p] = arg[p]
            /\ queue' = Append(queue, c)
        BY <2>0, <3>4 DEF TrySendOk
      <4>3. ~WriterGone => Announced(arg[q], Len(queue) + 1)
        BY <1>2, <3>4 DEF TrySendOk, Declared, AllAnnounced
      <4>4. /\ DOMAIN queue' = 1 .. Len(queue) + 1 /\ Len(queue') = Len(queue) + 1
            /\ \A i \in DOMAIN queue : queue'[i] = queue[i]
            /\ queue'[Len(queue) + 1].ch = arg[q]
        BY <2>0, <4>1, <4>2, AfterAppend
      <4>5. ASSUME AllAnnounced, Announced(arg[q], Len(queue) + 1) PROVE AllAnnounced'
        <5>1. ASSUME NEW i \in DOMAIN queue, queue[i].kind = "message"
              PROVE  \/ queue[i].ch \in declarations
                     \/ \E j \in DOMAIN queue : j < i /\ queue[j].kind = "register" /\ queue[j].ch = queue[i].ch
          BY <4>5, <5>1 DEF AllAnnounced, Announced
        <5>2. ASSUME NEW i \in DOMAIN queue', queue'[i].kind = "message"
              PROVE  \/ queue'[i].ch \in declarations
                     \/ \E j \in DOMAIN queue' : j < i /\ queue'[j].kind = "register" /\ queue'[j].ch = queue'[i].ch
          <6>1. CASE i \in DOMAIN queue
            BY <2>0, <4>4, <5>1, <5>2, <6>1
          <6>2. CASE i = Len(queue) + 1
            BY <2>0, <4>4, <4>5, <5>2, <6>2 DEF Announced
          <6> QED  BY <2>0, <4>4, <6>1, <6>2
        <5>3. ASSUME NEW ch \in known
              PROVE  \/ ch \in declarations
                     \/ \E j \in DOMAIN queue' : j < Len(queue') + 1 /\ queue'[j].kind = "register" /\ queue'[j].ch = ch
          BY <2>0, <4>4, <4>5 DEF AllAnnounced, Announced
        <5> QED
          BY <3>0, <4>2, <5>2, <5>3 DEF AllAnnounced, Announced
      <4> QED
        BY <1>2, <3>0, <4>2, <4>3, <4>5 DEF Declared, Current
    <3> QED
      BY <2>1, <3>1, <3>2, <3>3, <3>4 DEF Producer, InCall
  <2>2. CASE Shutdown \/ UNCHANGED vars
    BY <1>2, <2>2 DEF Shutdown, vars, producerVars, writerVars, Declared, AllAnnounced, Announced, Current, WriterGone
  <2>3. CASE OpenFirst
    <3>1. CASE Panic
      BY <1>2, <3>1 DEF Panic, producerVars, Declared, WriterGone
    <3>2. CASE files' = <<NewFile({})>> /\ ~Panic
      <4>1. files'[Current'].declared = {}
        BY <3>2 DEF NewFile, Current
      <4>2. /\ UNCHANGED <<pc, arg, known, queue, held, declarations>>
            /\ declarations = {} /\ ~WriterGone
        BY <1>2, <2>3, <3>2 DEF OpenFirst, producerVars, WriterState, WriterGone
      <4> QED  BY <1>2, <4>1, <4>2 DEF Declared, AllAnnounced, Announced
    <3> QED  BY <2>3, <3>1, <3>2 DEF OpenFirst
  <2>4. CASE HandleRegister
    <3>1. /\ UNCHANGED <<pc, arg, known, held, writer>> /\ writer = "recv"
          /\ queue # <<>> /\ queue' = Tail(queue) /\ held = NoMessage
          /\ declarations' = declarations \cup {Head(queue).ch}
          /\ healthy' => healthy
      BY <1>2, <2>4 DEF HandleRegister, MarkUnhealthy, producerVars, WriterState
    <3>2. files # <<>>
      BY <1>2, <3>1 DEF WriterState
    <3>3. Current \in DOMAIN files /\ Len(files') = Len(files)
      BY <1>2, <2>4, <3>2, DeclareEffect, Positions
    <3>4. healthy' => files'[Current].declared = declarations'
      BY <1>2, <2>4, <3>1, <3>3, DeclareEffect DEF Declared, WriterGone
    <3>5. healthy' => files'[Current'].declared = declarations'
      BY <3>3, <3>4 DEF Current
    <3>6. AllAnnounced'
      BY <1>2, <3>1, TakeKeepsAnnounced DEF Declared, WriterGone
    <3> QED
      BY <1>2, <3>1, <3>5, <3>6 DEF Declared
  <2>5. CASE ReceiveMessage
    <3>1. /\ UNCHANGED <<pc, arg, known, declarations, files, healthy>>
          /\ writer = "recv" /\ writer' \in {"rotate", "write"}
          /\ queue # <<>> /\ queue' = Tail(queue)
          /\ Head(queue).kind = "message" /\ held' = Head(queue)
      BY <2>5 DEF ReceiveMessage, producerVars
    <3>2. AllAnnounced /\ ~WriterGone
      BY <1>2, <3>1 DEF Declared, WriterGone
    <3>3. AllAnnounced'
      BY <1>2, <3>1, <3>2, TakeKeepsAnnounced
    <3>4. 1 \in DOMAIN queue /\ Head(queue) = queue[1]
      BY <2>0, <3>1, AfterTail
    <3>5. held'.ch \in declarations
      BY <2>0, <3>1, <3>2, <3>4 DEF AllAnnounced, Announced
    <3> QED
      BY <1>2, <3>1, <3>2, <3>3, <3>5 DEF Declared, Current
  <2>6. CASE Rotate
    <3>1. CASE Panic
      BY <1>2, <3>1 DEF Panic, producerVars, Declared, WriterGone
    <3>2. CASE ~Panic
      <4>1. /\ writer' = "sync" /\ UNCHANGED <<held, declarations>>
            /\ Len(files') = Len(files) + 1
            /\ healthy' => files'[Len(files) + 1].declared = declarations
        BY <1>2, <2>6, <3>2, RotateEffect
      <4>2. UNCHANGED <<pc, arg, known, queue>> /\ ~WriterGone
        BY <2>6, <3>2 DEF Rotate, producerVars, WriterGone
      <4> QED
        BY <1>2, <4>1, <4>2 DEF Declared, AllAnnounced, Announced, Current
    <3> QED  BY <3>1, <3>2
  <2>7. CASE EndOfStream \/ Sync \/ Rename \/ Write
    <3>1. /\ UNCHANGED <<pc, arg, known, queue, declarations>>
          /\ held' = held \/ held' = NoMessage
          /\ healthy' => healthy
          /\ writer \in {"recv", "sync", "rename", "write"}
      BY <2>7 DEF EndOfStream, Sync, Rename, Write, FinishFails, MarkUnhealthy, producerVars
    <3>2. files # <<>>
      BY <1>2, <3>1 DEF WriterState
    <3>3. Current \in DOMAIN files
      BY <1>2, <3>2, Positions
    <3>4. Len(files') = Len(files) /\ files'[Current].declared = files[Current].declared
      BY <1>2, <2>7, <3>3, SyncEffect, RenameEffect, WriteEffect DEF EndOfStream
    <3>5. healthy' => files'[Current'].declared = declarations'
      BY <1>2, <3>1, <3>4 DEF Declared, WriterGone, Current
    <3>6. ~WriterGone /\ (AllAnnounced => AllAnnounced')
      BY <3>1 DEF AllAnnounced, Announced, WriterGone
    <3> QED
      BY <1>2, <3>1, <3>5, <3>6 DEF Declared
  <2>8. CASE PowerLoss
    BY <1>2, <2>8 DEF PowerLoss, Declared, WriterGone
  <2> QED
    BY <1>2, <2>1, <2>2, <2>3, <2>4, <2>5, <2>6, <2>7, <2>8 DEF Next, Writer
<1> QED
  BY <1>1, <1>2, TypeCorrect, WriterStateInvariant, PTL DEF Spec

\* The channel holds, in order, exactly the messages t + 1 .. a.
InTransit(q, t, a) ==
  /\ t <= a
  /\ \A i \in DOMAIN q : q[i].kind = "message" => t < q[i].nth /\ q[i].nth <= a
  /\ \A i, j \in DOMAIN q :
       i < j /\ q[i].kind = "message" /\ q[j].kind = "message" => q[i].nth < q[j].nth
  /\ \A n \in t + 1 .. a : \E i \in DOMAIN q : q[i].kind = "message" /\ q[i].nth = n

LEMMA CommandNumbers ==
  ASSUME NEW q \in Seq(Command)
  PROVE  \A i \in DOMAIN q : q[i].nth \in Nat
<1>1. \A c \in Command : c.nth \in Nat
  BY DEF Command
<1>2. \A i \in DOMAIN q : q[i] \in Command
  OBVIOUS
<1> QED
  BY <1>1, <1>2

LEMMA TransitMessageSent ==
  ASSUME NEW q \in Seq(Command), NEW t \in Nat, NEW a \in Nat, InTransit(q, t, a),
         NEW c \in Command, c.kind = "message", c.nth = a + 1
  PROVE  InTransit(Append(q, c), t, a + 1)
<1> DEFINE s == Append(q, c)
<1>1. /\ Len(q) \in Nat /\ DOMAIN q = 1 .. Len(q) /\ DOMAIN s = 1 .. Len(q) + 1
      /\ \A i \in DOMAIN q : s[i] = q[i]
      /\ s[Len(q) + 1] = c
  BY AfterAppend
<1>2. \A i \in DOMAIN q : q[i].nth \in Nat
  BY CommandNumbers
<1> HIDE DEF s
<1>3. \A i \in DOMAIN s : s[i].kind = "message" => t < s[i].nth /\ s[i].nth <= a + 1
  BY <1>1, <1>2 DEF InTransit
<1>4. \A i, j \in DOMAIN s :
        i < j /\ s[i].kind = "message" /\ s[j].kind = "message" => s[i].nth < s[j].nth
  BY <1>1, <1>2 DEF InTransit
<1>5. \A n \in t + 1 .. a + 1 : \E i \in DOMAIN s : s[i].kind = "message" /\ s[i].nth = n
  <2> SUFFICES ASSUME NEW n \in t + 1 .. a + 1
               PROVE  \E i \in DOMAIN s : s[i].kind = "message" /\ s[i].nth = n
    OBVIOUS
  <2>1. CASE n = a + 1
    BY <1>1, <2>1
  <2>2. CASE n \in t + 1 .. a
    <3>1. PICK i \in DOMAIN q : q[i].kind = "message" /\ q[i].nth = n
      BY <2>2 DEF InTransit
    <3> QED  BY <1>1, <3>1
  <2> QED  BY <2>1, <2>2
<1> QED
  BY <1>3, <1>4, <1>5 DEF InTransit, s

LEMMA TransitDeclarationSent ==
  ASSUME NEW q \in Seq(Command), NEW t \in Nat, NEW a \in Nat, InTransit(q, t, a),
         NEW c \in Command, c.kind = "register"
  PROVE  InTransit(Append(q, c), t, a)
<1> DEFINE s == Append(q, c)
<1>1. /\ Len(q) \in Nat /\ DOMAIN q = 1 .. Len(q) /\ DOMAIN s = 1 .. Len(q) + 1
      /\ \A i \in DOMAIN q : s[i] = q[i]
      /\ s[Len(q) + 1] = c
  BY AfterAppend
<1> HIDE DEF s
<1>2. \A i \in DOMAIN s : s[i].kind = "message" => i \in DOMAIN q /\ s[i] = q[i]
  BY <1>1
<1>3. \A i \in DOMAIN q : i \in DOMAIN s /\ s[i] = q[i]
  BY <1>1
<1> QED
  BY <1>2, <1>3 DEF InTransit, s

LEMMA TransitMessageTaken ==
  ASSUME NEW q \in Seq(Command), NEW t \in Nat, NEW a \in Nat, InTransit(q, t, a),
         q # <<>>, Head(q).kind = "message"
  PROVE  Head(q).nth = t + 1 /\ InTransit(Tail(q), t + 1, a)
<1> DEFINE s == Tail(q)
<1>1. /\ Len(q) \in Nat /\ Len(q) > 0 /\ DOMAIN q = 1 .. Len(q) /\ Head(q) = q[1]
      /\ DOMAIN s = 1 .. Len(q) - 1
      /\ \A i \in 1 .. Len(q) - 1 : s[i] = q[i + 1]
  BY AfterTail
<1>2. \A i \in DOMAIN q : q[i].nth \in Nat
  BY CommandNumbers
<1> HIDE DEF s
<1>3. 1 \in DOMAIN q /\ q[1].kind = "message" /\ t < q[1].nth /\ q[1].nth <= a
  BY <1>1 DEF InTransit
<1>4. PICK i \in DOMAIN q : q[i].kind = "message" /\ q[i].nth = t + 1
  BY <1>2, <1>3 DEF InTransit
<1>5. i = 1
  <2>1. 1 < i => q[1].nth < q[i].nth
    BY <1>3, <1>4 DEF InTransit
  <2>2. q[1].nth \in Nat /\ q[i].nth \in Nat /\ (i = 1 \/ 1 < i)
    BY <1>1, <1>2, <1>3
  <2> QED  BY <1>3, <1>4, <2>1, <2>2
<1>6. q[1].nth = t + 1
  BY <1>4, <1>5
<1>7. \A k \in DOMAIN s : k + 1 \in DOMAIN q /\ s[k] = q[k + 1] /\ 1 < k + 1
  BY <1>1
<1>8. \A k \in DOMAIN s : s[k].kind = "message" => t + 1 < s[k].nth /\ s[k].nth <= a
  BY <1>2, <1>3, <1>6, <1>7 DEF InTransit
<1>9. \A k, l \in DOMAIN s :
        k < l /\ s[k].kind = "message" /\ s[l].kind = "message" => s[k].nth < s[l].nth
  <2> SUFFICES ASSUME NEW k \in DOMAIN s, NEW l \in DOMAIN s, k < l,
                      s[k].kind = "message", s[l].kind = "message"
               PROVE  s[k].nth < s[l].nth
    OBVIOUS
  <2>1. k + 1 < l + 1
    BY <1>1
  <2> QED  BY <1>7, <2>1 DEF InTransit
<1>10. \A n \in t + 2 .. a : \E k \in DOMAIN s : s[k].kind = "message" /\ s[k].nth = n
  <2> SUFFICES ASSUME NEW n \in t + 2 .. a
               PROVE  \E k \in DOMAIN s : s[k].kind = "message" /\ s[k].nth = n
    OBVIOUS
  <2>1. PICK j \in DOMAIN q : q[j].kind = "message" /\ q[j].nth = n
    BY DEF InTransit
  <2>2. j # 1
    BY <1>6, <2>1
  <2>3. j - 1 \in DOMAIN s /\ s[j - 1] = q[j]
    BY <1>1, <2>2
  <2> QED  BY <2>1, <2>3
<1>11. t + 1 <= a /\ (t + 1) + 1 = t + 2
  BY <1>3, <1>6
<1> QED
  BY <1>1, <1>6, <1>8, <1>9, <1>10, <1>11 DEF InTransit, s

LEMMA TransitDeclarationTaken ==
  ASSUME NEW q \in Seq(Command), NEW t \in Nat, NEW a \in Nat, InTransit(q, t, a),
         q # <<>>, Head(q).kind = "register"
  PROVE  InTransit(Tail(q), t, a)
<1> DEFINE s == Tail(q)
<1>1. /\ Len(q) \in Nat /\ Len(q) > 0 /\ DOMAIN q = 1 .. Len(q) /\ Head(q) = q[1]
      /\ DOMAIN s = 1 .. Len(q) - 1
      /\ \A i \in 1 .. Len(q) - 1 : s[i] = q[i + 1]
  BY AfterTail
<1> HIDE DEF s
<1>2. \A k \in DOMAIN s : k + 1 \in DOMAIN q /\ s[k] = q[k + 1]
  BY <1>1
<1>3. \A i \in DOMAIN q : q[i].kind = "message" => i - 1 \in DOMAIN s /\ s[i - 1] = q[i]
  BY <1>1
<1>4. \A k, l \in DOMAIN s :
        k < l /\ s[k].kind = "message" /\ s[l].kind = "message" => s[k].nth < s[l].nth
  <2> SUFFICES ASSUME NEW k \in DOMAIN s, NEW l \in DOMAIN s, k < l,
                      s[k].kind = "message", s[l].kind = "message"
               PROVE  s[k].nth < s[l].nth
    OBVIOUS
  <2>1. k + 1 < l + 1
    BY <1>1
  <2> QED  BY <1>2, <2>1 DEF InTransit
<1>5. \A n \in t + 1 .. a : \E k \in DOMAIN s : s[k].kind = "message" /\ s[k].nth = n
  <2> SUFFICES ASSUME NEW n \in t + 1 .. a
               PROVE  \E k \in DOMAIN s : s[k].kind = "message" /\ s[k].nth = n
    OBVIOUS
  <2>1. PICK j \in DOMAIN q : q[j].kind = "message" /\ q[j].nth = n
    BY DEF InTransit
  <2> QED  BY <1>3, <2>1
<1> QED
  BY <1>2, <1>4, <1>5 DEF InTransit, s

Taken == Len(written) + (IF held = NoMessage THEN 0 ELSE 1)

Stream ==
  healthy =>
    /\ \A i \in DOMAIN written : written[i] = i
    /\ writer \notin {"panicked", "off"} =>
         /\ held # NoMessage => held.nth = Taken
         /\ InTransit(queue, Taken, accepted)

LEMMA StreamInvariant == Spec => []Stream
<1>1. Init => Stream
  BY DEF Init, Stream, Taken, InTransit
<1>2. ASSUME TypeOK, TypeOK', WriterState, Declared, Stream, [Next]_vars PROVE Stream'
  <2>0. /\ queue \in Seq(Command) /\ accepted \in Nat /\ Len(written) \in Nat
        /\ Taken \in Nat /\ DOMAIN written = 1 .. Len(written) /\ written \in Seq(Nat)
        /\ arg \in [Producers -> Nat]
    BY <1>2 DEF TypeOK, ProducersOK, CountersOK, ChannelOK, WriterOK, Taken
  <2>1. ASSUME NEW q \in Producers, Producer(q) PROVE Stream'
    <3>0. UNCHANGED <<writer, held, written, healthy>> /\ Taken' = Taken
      BY <2>1, CallsEffect DEF Taken
    <3>1. CASE RegisterStart(q) \/ TrySendFull(q) \/ TrySendDisconnected(q) \/ TakeIndex(q)
               \/ \E ch \in known : RecordCheck(q, ch)
      <4>1. UNCHANGED <<queue, accepted>>
        BY <3>1 DEF RegisterStart, TrySendFull, TrySendDisconnected, TakeIndex, RecordCheck
      <4> QED  BY <1>2, <3>0, <4>1 DEF Stream
    <3>2. CASE RegisterSend(q)
      <4> DEFINE c == [kind |-> "register", ch |-> arg[q], nth |-> 0]
      <4>1. c \in Command /\ c.kind = "register"
        BY <2>0 DEF Command
      <4>2. queue' = queue \/ queue' = Append(queue, c)
        BY <3>2 DEF RegisterSend, Send
      <4>3. accepted' = accepted
        BY <3>2 DEF RegisterSend
      <4> HIDE DEF c
      <4>4. InTransit(queue, Taken, accepted) => InTransit(Append(queue, c), Taken, accepted)
        BY <2>0, <4>1, TransitDeclarationSent
      <4> QED  BY <1>2, <3>0, <4>2, <4>3, <4>4 DEF Stream
    <3>3. CASE TrySendOk(q)
      <4> DEFINE c == [kind |-> "message", ch |-> arg[q], nth |-> accepted + 1]
      <4>1. c \in Command /\ c.kind = "message" /\ c.nth = accepted + 1
        BY <2>0 DEF Command
      <4>2. queue' = Append(queue, c) /\ accepted' = accepted + 1
        BY <3>3 DEF TrySendOk
      <4> HIDE DEF c
      <4>3. InTransit(queue, Taken, accepted) => InTransit(Append(queue, c), Taken, accepted + 1)
        BY <2>0, <4>1, TransitMessageSent
      <4> QED  BY <1>2, <3>0, <4>2, <4>3 DEF Stream
    <3> QED
      BY <2>1, <3>1, <3>2, <3>3 DEF Producer, InCall
  <2>2. CASE Shutdown \/ UNCHANGED vars
    BY <1>2, <2>2 DEF Shutdown, vars, producerVars, writerVars, Stream, Taken
  <2>3. CASE Panic
    BY <1>2, <2>3 DEF Panic, Stream
  <2>4. CASE PowerLoss
    BY <1>2, <2>4 DEF PowerLoss, Stream
  <2>5. CASE HandleRegister
    <3>1. /\ UNCHANGED <<accepted, writer, held, written>> /\ writer = "recv"
          /\ queue # <<>> /\ queue' = Tail(queue) /\ Head(queue).kind = "register"
          /\ healthy' => healthy
      BY <2>5 DEF HandleRegister, MarkUnhealthy, producerVars
    <3>2. InTransit(queue, Taken, accepted) => InTransit(Tail(queue), Taken, accepted)
      BY <2>0, <3>1, TransitDeclarationTaken
    <3>3. Taken' = Taken
      BY <3>1 DEF Taken
    <3> QED
      BY <1>2, <3>1, <3>2, <3>3 DEF Stream
  <2>6. CASE ReceiveMessage
    <3>1. /\ UNCHANGED <<accepted, written, healthy>> /\ writer = "recv"
          /\ queue # <<>> /\ queue' = Tail(queue)
          /\ Head(queue).kind = "message" /\ held' = Head(queue)
      BY <2>6 DEF ReceiveMessage, producerVars
    <3>2. held = NoMessage /\ held' # NoMessage
      BY <1>2, <3>1 DEF WriterState, NoMessage
    <3>3. Taken = Len(written) /\ Taken' = Taken + 1
      BY <2>0, <3>1, <3>2 DEF Taken
    <3>4. InTransit(queue, Taken, accepted) =>
            Head(queue).nth = Taken + 1 /\ InTransit(Tail(queue), Taken + 1, accepted)
      BY <2>0, <3>1, TransitMessageTaken
    <3>5. healthy => InTransit(queue, Taken, accepted) /\ \A i \in DOMAIN written : written[i] = i
      BY <1>2, <3>1 DEF Stream
    <3> QED
      BY <3>1, <3>3, <3>4, <3>5 DEF Stream
  <2>7. CASE (OpenFirst \/ Rotate \/ EndOfStream \/ Sync \/ Rename) /\ ~Panic
    <3>1. /\ UNCHANGED <<queue, accepted, held, written>>
          /\ writer \notin {"panicked", "off"}
          /\ healthy' => healthy
      BY <2>7 DEF OpenFirst, Rotate, EndOfStream, Sync, Rename, FinishFails, MarkUnhealthy, producerVars
    <3>2. Taken' = Taken
      BY <3>1 DEF Taken
    <3> QED
      BY <1>2, <3>1, <3>2 DEF Stream
  <2>8. CASE Write
    <3>1. /\ writer = "write" /\ held' = NoMessage /\ UNCHANGED <<queue, accepted>>
          /\ held # NoMessage
          /\ healthy' => healthy
      BY <1>2, <2>8 DEF Write, MarkUnhealthy, producerVars, WriterState
    <3>2. healthy => held.ch \in files[Current].declared
      BY <1>2, <3>1 DEF Declared, WriterGone
    <3>3. healthy' => written' = Append(written, held.nth)
      BY <2>8, <3>1, <3>2 DEF Write, MarkUnhealthy
    <3>4. Taken = Len(written) + 1
      BY <2>0, <3>1 DEF Taken
    <3>5. healthy => held.nth = Taken /\ InTransit(queue, Taken, accepted)
                     /\ \A i \in DOMAIN written : written[i] = i
      BY <1>2, <3>1 DEF Stream
    <3>6. ASSUME healthy'
          PROVE  /\ Len(written') = Len(written) + 1
                 /\ \A i \in DOMAIN written' : written'[i] = i
      <4>1. /\ DOMAIN written' = 1 .. Len(written) + 1 /\ Len(written') = Len(written) + 1
            /\ \A i \in DOMAIN written : written'[i] = written[i]
            /\ written'[Len(written) + 1] = held.nth
        BY <2>0, <3>3, <3>6
      <4> QED  BY <2>0, <3>1, <3>4, <3>5, <3>6, <4>1
    <3>7. healthy' => Taken' = Taken
      BY <2>0, <3>1, <3>4, <3>6 DEF Taken
    <3> QED
      BY <3>1, <3>5, <3>6, <3>7 DEF Stream
  <2> QED
    BY <1>2, <2>1, <2>2, <2>3, <2>4, <2>5, <2>6, <2>7, <2>8 DEF Next, Writer
<1> QED
  BY <1>1, <1>2, TypeCorrect, WriterStateInvariant, DeclaredInvariant, PTL DEF Spec

\* While the class is healthy nothing accepted is lost, reordered or written
\* twice: the messages written are 1, 2, 3, ... and every other one accepted is
\* in the writer's hand or in the channel (record, handle_message, rotate).
THEOREM NothingLost == Spec => []AcceptedIsWritten
<1>1. ASSUME TypeOK, WriterState, Drained, Stream PROVE AcceptedIsWritten
  <2> SUFFICES ASSUME healthy, writer \notin {"panicked", "off"},
                      NEW n \in Len(written) + 1 .. accepted
               PROVE  \/ held.kind = "message" /\ held.nth = n
                      \/ /\ writer # "exited"
                         /\ \E i \in DOMAIN queue : queue[i].kind = "message" /\ queue[i].nth = n
    BY <1>1 DEF AcceptedIsWritten, Stream
  <2>0. accepted \in Nat /\ Len(written) \in Nat /\ queue \in Seq(Command)
    BY <1>1 DEF TypeOK, CountersOK, ChannelOK, WriterOK
  <2>1. (held # NoMessage => held.nth = Taken) /\ InTransit(queue, Taken, accepted)
    BY <1>1 DEF Stream
  <2>2. CASE held # NoMessage /\ n = Len(written) + 1
    BY <1>1, <2>1, <2>2 DEF Taken, WriterState
  <2>3. CASE ~(held # NoMessage /\ n = Len(written) + 1)
    <3>1. n \in Taken + 1 .. accepted
      BY <2>0, <2>3 DEF Taken
    <3>2. \E i \in DOMAIN queue : queue[i].kind = "message" /\ queue[i].nth = n
      BY <2>1, <3>1 DEF InTransit
    <3>3. queue # <<>>
      BY <3>2
    <3> QED  BY <1>1, <3>2, <3>3 DEF Drained
  <2> QED  BY <2>2, <2>3
<1> QED
  BY <1>1, TypeCorrect, WriterStateInvariant, DrainedInvariant, StreamInvariant, PTL

-----------------------------------------------------------------------------
(***************************************************************************)
(* The index of a message.  record takes it in a step of its own, after    *)
(* the message is in the channel, so it is the message's position only if  *)
(* no other thread can come between: with one producer.                    *)
(***************************************************************************)

OneProducer == \A p, q \in Producers : p = q

Paired ==
  /\ \A r \in located : r.index = r.nth - 1
  /\ writer = "off" => \A p \in Producers : pc[p] # "sent"
  /\ writer # "off" =>
       \A p \in Producers :
         IF pc[p] = "sent" THEN accepted = nextIndex + 1 /\ arg[p] = accepted
                           ELSE accepted = nextIndex

LEMMA PairedInvariant ==
  ASSUME OneProducer
  PROVE  Spec => []Paired
<1>1. Init => Paired
  BY DEF Init, Paired
<1>2. ASSUME TypeOK, Paired, [Next]_vars PROVE Paired'
  <2>0. /\ pc \in [Producers -> {"idle", "registering", "checked", "sent"}]
        /\ arg \in [Producers -> Nat] /\ accepted \in Nat /\ nextIndex \in Nat
    BY <1>2 DEF TypeOK, ProducersOK, CountersOK
  <2>1. ASSUME NEW q \in Producers, Producer(q) PROVE Paired'
    <3>0. writer' = writer
      BY <2>1, CallsEffect
    <3>1. \A p \in Producers : p = q
      BY OneProducer DEF OneProducer
    <3>2. CASE RegisterStart(q) \/ RegisterSend(q) \/ (\E ch \in known : RecordCheck(q, ch))
               \/ TrySendFull(q) \/ TrySendDisconnected(q)
      <4>1. UNCHANGED <<accepted, nextIndex, located>> /\ pc[q] # "sent" /\ pc'[q] # "sent"
        BY <2>0, <3>2 DEF RegisterStart, RegisterSend, RecordCheck, TrySendFull, TrySendDisconnected
      <4> QED  BY <1>2, <3>0, <3>1, <4>1 DEF Paired
    <3>3. CASE TrySendOk(q)
      <4>1. /\ writer # "off" /\ accepted' = accepted + 1 /\ UNCHANGED <<nextIndex, located>>
            /\ pc[q] # "sent" /\ pc'[q] = "sent" /\ arg'[q] = accepted + 1
        BY <2>0, <3>3 DEF TrySendOk, WriterGone
      <4> QED  BY <1>2, <2>0, <3>0, <3>1, <4>1 DEF Paired
    <3>4. CASE TakeIndex(q)
      <4>1. /\ located' = located \cup {[nth |-> arg[q], index |-> nextIndex]}
            /\ nextIndex' = nextIndex + 1 /\ accepted' = accepted
            /\ pc[q] = "sent" /\ pc'[q] = "idle"
        BY <2>0, <3>4 DEF TakeIndex, FetchedIndex
      <4>2. writer # "off" /\ accepted = nextIndex + 1 /\ arg[q] = accepted
        BY <1>2, <4>1 DEF Paired
      <4>3. \A r \in located' : r.index = r.nth - 1
        BY <1>2, <2>0, <4>1, <4>2 DEF Paired
      <4> QED  BY <2>0, <3>0, <3>1, <4>1, <4>2, <4>3 DEF Paired
    <3> QED
      BY <2>1, <3>2, <3>3, <3>4 DEF Producer, InCall
  <2>2. CASE Shutdown \/ UNCHANGED vars
    BY <1>2, <2>2 DEF Shutdown, vars, producerVars, writerVars, Paired
  <2>3. CASE Writer
    <3>1. UNCHANGED <<pc, arg, accepted, nextIndex, located>> /\ writer # "off" /\ writer' # "off"
      BY <2>3 DEF Writer, OpenFirst, HandleRegister, ReceiveMessage, Rotate, EndOfStream,
         Sync, Rename, Write, Panic, FinishFails, AfterFinish, producerVars
    <3> QED  BY <1>2, <3>1 DEF Paired
  <2>4. CASE PowerLoss
    BY <1>2, <2>0, <2>4 DEF PowerLoss, Paired
  <2> QED
    BY <1>2, <2>1, <2>2, <2>3, <2>4 DEF Next
<1> QED
  BY <1>1, <1>2, TypeCorrect, PTL DEF Spec

\* With one producer the index that record returned for a message is its
\* position in the files, as long as the class is healthy (record, next_index,
\* MessageIndex).  With two producers it is not.
THEOREM IndexWithOneProducer ==
  ASSUME OneProducer
  PROVE  Spec => []IndexIsPosition
<1>1. ASSUME TypeOK, Stream, Paired PROVE IndexIsPosition
  <2> SUFFICES ASSUME healthy, NEW r \in located, NEW i \in DOMAIN written, written[i] = r.nth
               PROVE  r.index = i - 1
    BY DEF IndexIsPosition
  <2>1. written[i] = i
    BY <1>1 DEF Stream
  <2>2. r.index = r.nth - 1
    BY <1>1 DEF Paired
  <2> QED  BY <2>1, <2>2
<1> QED
  BY <1>1, TypeCorrect, StreamInvariant, PairedInvariant, PTL
=============================================================================
