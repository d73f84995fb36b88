--------------------------- MODULE DeliveryProofs ---------------------------
(***************************************************************************)
(* Proofs about Delivery, for any number of rollouts, sizes of the queue   *)
(* and the buffer, crashes of the agent and of the robot process, and      *)
(* every combination of faults.                                            *)
(***************************************************************************)
EXTENDS Delivery, SequenceTheorems, FiniteSetTheorems, TLAPS

-----------------------------------------------------------------------------
(***************************************************************************)
(* The parts of the inductive invariant: the robot process.                *)
(***************************************************************************)

\* The counters stay within their bounds.
Bounds ==
  /\ logged <= MaxRollouts /\ dropped <= logged
  /\ restarts <= MaxRestarts /\ crashes <= MaxCrashes

\* An append that is under way has given its whole line to the stream.
Appending ==
  IF draining = 0 THEN unput = <<>>
  ELSE Len(Stream) # 0 /\ Stream[Len(Stream)] = [id |-> draining, last |-> TRUE]

\* The stream and the queue behind it are in the order of the calls, and a
\* newline ends its rollout.
InOrder ==
  /\ \A i, j \in DOMAIN Stream : i < j =>
       /\ Stream[i].id <= Stream[j].id
       /\ Stream[i].last => Stream[i].id < Stream[j].id
  /\ \A i \in DOMAIN Stream : Stream[i].id <= logged
  /\ \A i \in DOMAIN Stream, k \in DOMAIN queue : Stream[i].id < queue[k]
  /\ \A k \in DOMAIN queue : queue[k] <= logged
  /\ \A k, l \in DOMAIN queue : k < l => queue[k] < queue[l]

\* What is neither dropped nor queued is in the stream.
Accounted == Undisturbed => logged = dropped + Cardinality(Ends) + Len(queue)

\* The stream is whole lines.
WholeLines(s) ==
  \A i \in DOMAIN s :
    IF s[i].last THEN i > 1 /\ s[i - 1] = [id |-> s[i].id, last |-> FALSE]
    ELSE i + 1 \in DOMAIN s /\ s[i + 1] = [id |-> s[i].id, last |-> TRUE]

Whole == Undisturbed => WholeLines(Stream)

CaptureInv == Bounds /\ Appending /\ InOrder /\ Accounted /\ Whole /\ ReadableUntilCrash

-----------------------------------------------------------------------------
(***************************************************************************)
(* ... and the agent and the gateway.                                      *)
(***************************************************************************)

\* A batch the gateway has or may get starts where the next one will, or lies
\* entirely behind the checkpoint.
Known == wire \cup seen
Segments ==
  \A b \in Known :
    b \subseteq IdsBetween(0, offset) \/ \E t \in NewEnds : b = IdsBetween(offset, t)

\* The batch in the agent's hand starts at the checkpoint and ends behind all
\* others.
Pending ==
  phase # "idle" =>
    /\ batch.end \in NewEnds
    /\ batch.ids = IdsBetween(offset, batch.end)
    /\ \A b \in Known : b \subseteq IdsBetween(0, batch.end)
    /\ phase = "acked" => batch.ids \subseteq Registered

\* The gateway has what it has accepted, and no more.
Recorded == Registered = UNION seen

AgentInv ==
  /\ offset = saved
  /\ Segments
  /\ Pending
  /\ Recorded
  /\ \A b, c \in Known : b \cap c # {} => SameStart(b, c)
  /\ NothingSkipped

-----------------------------------------------------------------------------
(***************************************************************************)
(* Numbers and sequences.                                                  *)
(***************************************************************************)

LEMMA LeastNatural ==
  ASSUME NEW T, T \subseteq Nat, T # {}
  PROVE  \E x \in T : \A y \in T : x <= y
<1>1. PICK x \in T : \A y \in T : ~ (<<y, x>> \in OpToRel(<, Nat))
  BY NatLessThanWellFounded, WFMin
<1>2. \A y \in T : ~(y < x)
  BY <1>1 DEF OpToRel
<1> QED
  BY <1>2

LEMMA Rolls ==
  /\ MaxRollouts \in Nat
  /\ Rollouts \subseteq Nat \ {0}
  /\ \A r \in Rollouts : Line(r) \in Seq(Piece) /\ Len(Line(r)) = 2
                         /\ Line(r)[1] = [id |-> r, last |-> FALSE]
                         /\ Line(r)[2] = [id |-> r, last |-> TRUE]
BY DeliveryAssumption DEF Rollouts, Line, Piece

LEMMA MovesOn ==
  ASSUME NEW S, NEW s \in Seq(S), NEW t \in Seq(S), t # <<>>
  PROVE  /\ Append(s, Head(t)) \in Seq(S) /\ Tail(t) \in Seq(S)
         /\ Append(s, Head(t)) \o Tail(t) = s \o t
<1>1. Head(t) \in S /\ Tail(t) \in Seq(S) /\ Len(t) \in Nat \ {0} /\ Len(Tail(t)) = Len(t) - 1
  OBVIOUS
<1>2. Append(s, Head(t)) \in Seq(S) /\ Len(Append(s, Head(t))) = Len(s) + 1 /\ Len(s) \in Nat
  BY <1>1
<1> DEFINE a == Append(s, Head(t)) \o Tail(t)
           b == s \o t
<1>3. a \in Seq(S) /\ b \in Seq(S) /\ Len(a) = Len(s) + Len(t) /\ Len(b) = Len(s) + Len(t)
  BY <1>1, <1>2, ConcatProperties
<1>4. ASSUME NEW i \in 1 .. Len(s) + Len(t) PROVE a[i] = b[i]
  <2>1. CASE i <= Len(s)
    BY <1>1, <1>2, <2>1
  <2>2. CASE i = Len(s) + 1
    BY <1>1, <1>2, <2>2
  <2>3. CASE i > Len(s) + 1
    BY <1>1, <1>2, <2>3
  <2> QED
    BY <1>1, <1>2, <2>1, <2>2, <2>3
<1> HIDE DEF a, b
<1>5. a = b
  BY <1>3, <1>4, SeqEqual
<1> QED
  BY <1>1, <1>2, <1>5 DEF a, b

LEMMA Begins ==
  ASSUME NEW S, NEW s \in Seq(S), NEW t \in Seq(S)
  PROVE  /\ s \o t \in Seq(S) /\ Len(s \o t) = Len(s) + Len(t)
         /\ \A i \in 1 .. Len(s) : (s \o t)[i] = s[i]
<1>1. Len(s) \in Nat /\ Len(t) \in Nat
  OBVIOUS
<1> QED
  BY <1>1, ConcatProperties

LEMMA AppendInside ==
  ASSUME NEW S, NEW s \in Seq(S), NEW t \in Seq(S), NEW e \in S
  PROVE  s \o Append(t, e) = Append(s \o t, e)
<1>1. Append(t, e) = t \o <<e>> /\ Append(s \o t, e) = (s \o t) \o <<e>>
  BY ConcatProperties, AppendIsConcat
<1> QED
  BY <1>1, ConcatAssociative

\* What Stream is made of.
LEMMA StreamFacts ==
  ASSUME TypeOK
  PROVE  /\ Stream \in Seq(Piece) /\ Len(Stream) \in Nat /\ DOMAIN Stream = 1 .. Len(Stream)
         /\ \A i \in DOMAIN Stream : /\ Stream[i].id \in Rollouts /\ Stream[i].id \in Nat
                                     /\ Stream[i].last \in BOOLEAN
         /\ Len(Stream) = Len(file) + Len(buffer) + Len(unput)
         /\ DOMAIN file = 1 .. Len(file) /\ Len(file) \in Nat
         /\ \A i \in DOMAIN file : i \in DOMAIN Stream /\ Stream[i] = file[i]
<1>1. file \in Seq(Piece) /\ buffer \in Seq(Piece) /\ unput \in Seq(Piece)
  BY DEF TypeOK
<1> DEFINE fb == file \o buffer
<1>2. fb \in Seq(Piece) /\ Len(fb) = Len(file) + Len(buffer)
      /\ \A i \in 1 .. Len(file) : fb[i] = file[i]
  BY <1>1, ConcatProperties
<1> HIDE DEF fb
<1>3. Stream = fb \o unput
  BY DEF Stream, fb
<1>4. Stream \in Seq(Piece) /\ Len(Stream) = Len(fb) + Len(unput)
      /\ \A i \in 1 .. Len(fb) : Stream[i] = fb[i]
  <2> DEFINE P == Piece
  <2>1. fb \in Seq(P) /\ unput \in Seq(P)
    BY <1>1, <1>2
  <2> HIDE DEF P
  <2>2. fb \o unput \in Seq(P) /\ Len(fb \o unput) = Len(fb) + Len(unput)
        /\ \A i \in 1 .. Len(fb) : (fb \o unput)[i] = fb[i]
    BY <2>1, Begins
  <2> QED
    BY <1>3, <2>2 DEF P
<1>5. Len(file) \in Nat /\ Len(buffer) \in Nat /\ Len(unput) \in Nat /\ DOMAIN file = 1 .. Len(file)
      /\ Len(Stream) \in Nat /\ DOMAIN Stream = 1 .. Len(Stream)
  BY <1>1, <1>4
<1>6. \A i \in DOMAIN Stream : Stream[i] \in Piece
  BY <1>4
<1>7. \A p \in Piece : p.id \in Rollouts /\ p.id \in Nat /\ p.last \in BOOLEAN
  BY Rolls DEF Piece
<1> QED
  BY <1>2, <1>4, <1>5, <1>6, <1>7

-----------------------------------------------------------------------------
(***************************************************************************)
(* Types.                                                                  *)
(***************************************************************************)

LEMMA InitTyped == Init => TypeOK /\ Bounds
<1> SUFFICES ASSUME Init PROVE TypeOK /\ Bounds
  OBVIOUS
<1>1. /\ {MaxRollouts, MaxCrashes, MaxRestarts, Capacity, BufferRoom} \subseteq Nat
      /\ 0 \in 0 .. MaxRollouts + MaxCrashes + MaxRestarts
  BY DeliveryAssumption
<1>2. queue \in Seq(Rollouts) /\ Len(queue) = 0 /\ Len(buffer) = 0
      /\ {unput, buffer, file} \subseteq Seq(Piece)
  BY DEF Init
<1>3. Bounds
  BY <1>1 DEF Init, Bounds
<1>4. rows \in [Rollouts -> Nat]
  BY DEF Init
<1>5. /\ {logged, dropped, restarts, crashes} \subseteq 0 .. MaxRollouts + MaxCrashes + MaxRestarts
      /\ Len(queue) <= Capacity /\ Len(buffer) <= BufferRoom
  BY <1>1, <1>2 DEF Init
<1>6. /\ draining \in {0} \cup Rollouts /\ {offset, saved} \subseteq {0} \cup Newlines
      /\ refused \in BOOLEAN /\ reported \subseteq Rollouts
      /\ phase \in {"idle", "waiting", "acked"} /\ batch = NoBatch
      /\ wire \cup seen \subseteq SUBSET Rollouts
  BY DEF Init
<1> QED
  BY <1>2, <1>3, <1>4, <1>5, <1>6 DEF TypeOK

\* A counter below its bound fits the type.
LEMMA CounterTyped ==
  ASSUME NEW n \in Nat, n <= MaxRollouts \/ n <= MaxCrashes \/ n <= MaxRestarts
  PROVE  n \in 0 .. MaxRollouts + MaxCrashes + MaxRestarts
BY DeliveryAssumption

\* The file only grows, so newlines and offsets stay what they are.
LEMMA FileGrows ==
  ASSUME TypeOK, NEW p \in Piece, file' = Append(file, p), NEW n, n = Len(file) + 1
  PROVE  /\ file' \in Seq(Piece) /\ DOMAIN file' = 1 .. n /\ file'[n] = p /\ n \in Nat \ {0}
         /\ DOMAIN file = 1 .. n - 1 /\ n - 1 = Len(file)
         /\ \A i \in 1 .. n - 1 : i \in DOMAIN file' /\ file'[i] = file[i]
         /\ Newlines' = IF p.last THEN Newlines \cup {n} ELSE Newlines
         /\ Newlines \subseteq 1 .. n - 1
<1>1. file \in Seq(Piece) /\ Len(file) \in Nat /\ DOMAIN file = 1 .. Len(file)
  BY DEF TypeOK
<1>2. file' \in Seq(Piece) /\ DOMAIN file' = 1 .. n /\ file'[n] = p
      /\ \A i \in 1 .. n - 1 : i \in DOMAIN file' /\ file'[i] = file[i]
  BY <1>1
<1> QED
  BY <1>1, <1>2 DEF Newlines

LEMMA CaptureTyped ==
  ASSUME TypeOK, Bounds, LogStep \/ Drain \/ CaptureRestart
  PROVE  TypeOK' /\ Bounds'
<1> USE DEF Bounds
<1>1. logged \in Nat /\ dropped \in Nat /\ restarts \in Nat /\ crashes \in Nat
      /\ Len(queue) \in Nat /\ Len(buffer) \in Nat /\ Capacity \in Nat /\ BufferRoom \in Nat
      /\ MaxRollouts \in Nat /\ MaxRestarts \in Nat
  BY DeliveryAssumption DEF TypeOK
<1>2. CASE LogStep
  <2>1. logged' = logged + 1 /\ logged + 1 \in Rollouts /\ dropped' \in {dropped, dropped + 1}
    BY <1>1, <1>2 DEF LogStep, Counted, Rollouts
  <2>2. queue' \in Seq(Rollouts) /\ Len(queue') <= Capacity
    <3>1. CASE Len(queue) < Capacity /\ queue' = Append(queue, logged + 1)
      <4> DEFINE r == logged + 1
      <4>1. queue \in Seq(Rollouts) /\ r \in Rollouts
        BY <2>1 DEF TypeOK
      <4> HIDE DEF r
      <4>2. Append(queue, r) \in Seq(Rollouts) /\ Len(Append(queue, r)) = Len(queue) + 1
        BY <4>1
      <4> QED
        BY <1>1, <3>1, <4>2 DEF r
    <3> QED
      BY <1>2, <3>1 DEF LogStep, TypeOK
  <2>3. UNCHANGED <<draining, unput, buffer, file, reported, refused, restarts, agentVars, wire, gatewayVars>>
    BY <1>2 DEF LogStep
  <2>4. Bounds'
    BY <1>1, <1>2, <2>1, <2>3 DEF LogStep, agentVars
  <2>5. {logged', dropped'} \subseteq 0 .. MaxRollouts + MaxCrashes + MaxRestarts
    BY <1>1, <2>1, <2>4, CounterTyped
  <2> QED
    BY <2>2, <2>3, <2>4, <2>5 DEF TypeOK, agentVars, gatewayVars, Newlines
<1>3. CASE DrainNext
  <2>1. Head(queue) \in Rollouts /\ Tail(queue) \in Seq(Rollouts) /\ Len(Tail(queue)) <= Capacity
    <3>1. queue \in Seq(Rollouts) /\ queue # <<>> /\ Len(queue) <= Capacity
      BY <1>3 DEF DrainNext, TypeOK
    <3>2. Head(queue) \in Rollouts /\ Tail(queue) \in Seq(Rollouts) /\ Len(Tail(queue)) = Len(queue) - 1
      BY <3>1
    <3> QED
      BY <1>1, <3>1, <3>2
  <2>2. unput' \in Seq(Piece) /\ draining' \in Rollouts /\ queue' \in Seq(Rollouts) /\ Len(queue') <= Capacity
    BY <1>3, <2>1, Rolls DEF DrainNext
  <2>3. UNCHANGED <<logged, dropped, buffer, file, reported, refused, restarts, agentVars, wire, gatewayVars>>
    BY <1>3 DEF DrainNext
  <2> QED
    BY <2>2, <2>3 DEF TypeOK, agentVars, gatewayVars, Newlines
<1>4. CASE Put
  <2>1. Append(buffer, Head(unput)) \in Seq(Piece) /\ Tail(unput) \in Seq(Piece)
        /\ Len(Append(buffer, Head(unput))) <= BufferRoom
    BY <1>1, <1>4 DEF Put, TypeOK
  <2> QED
    BY <1>4, <2>1 DEF Put, TypeOK, agentVars, gatewayVars, Newlines
<1>5. CASE Flush
  <2>0. PICK p, n : p = Head(buffer) /\ n = Len(file) + 1
    OBVIOUS
  <2>1. p \in Piece /\ Tail(buffer) \in Seq(Piece) /\ Len(Tail(buffer)) <= BufferRoom
    BY <1>1, <1>5, <2>0 DEF Flush, TypeOK
  <2>2. file' = Append(file, p) /\ buffer' = Tail(buffer)
    BY <1>5, <2>0 DEF Flush
  <2>3. file' \in Seq(Piece) /\ Newlines \subseteq Newlines'
    BY <2>0, <2>1, <2>2, FileGrows
  <2>4. UNCHANGED <<logged, queue, dropped, draining, unput, reported, refused, restarts, agentVars, wire, gatewayVars>>
    BY <1>5 DEF Flush
  <2> QED
    BY <2>1, <2>2, <2>3, <2>4 DEF TypeOK, agentVars, gatewayVars
<1>6. CASE AppendOk
  BY <1>6 DEF AppendOk, TypeOK, agentVars, gatewayVars, Newlines
<1>7. CASE AppendFails
  BY <1>7 DEF AppendFails, Kept, TypeOK, agentVars, gatewayVars, Newlines
<1>8. CASE CaptureRestart
  <2>1. restarts' \in Nat /\ restarts' <= MaxRestarts
    BY <1>1, <1>8 DEF CaptureRestart
  <2>2. restarts' \in 0 .. MaxRollouts + MaxCrashes + MaxRestarts
        /\ 0 \in 0 .. MaxRollouts + MaxCrashes + MaxRestarts
    BY <2>1, <1>1, CounterTyped
  <2> QED
    BY <1>1, <1>8, <2>1, <2>2 DEF CaptureRestart, TypeOK, agentVars, gatewayVars, Newlines
<1> QED
  BY <1>2, <1>3, <1>4, <1>5, <1>6, <1>7, <1>8 DEF Drain

LEMMA BatchIds ==
  ASSUME TypeOK, NEW from, NEW to
  PROVE  IdsBetween(from, to) \subseteq Rollouts
<1>1. \A i \in DOMAIN file : file[i] \in Piece
  BY DEF TypeOK
<1> QED
  BY <1>1 DEF IdsBetween, Newlines, Piece

LEMMA DeliveryTyped ==
  ASSUME TypeOK, Bounds, Agent \/ AgentCrash \/ Gateway
  PROVE  TypeOK' /\ Bounds'
<1> USE DEF Bounds
<1>1. crashes \in Nat
  BY DEF TypeOK
<1>2. CASE Register
  BY <1>2, BatchIds DEF Register, NewEnds, Newlines, TypeOK, captureVars, gatewayVars
<1>3. CASE PostFails
  BY <1>3 DEF PostFails, Newlines, TypeOK, captureVars, gatewayVars
<1>4. CASE CommitOk
  BY <1>4 DEF CommitOk, Committed, Newlines, NoBatch, TypeOK, captureVars, gatewayVars
<1>5. CASE CommitFails
  BY <1>5 DEF CommitFails, Newlines, TypeOK, captureVars, gatewayVars
<1>6. CASE AgentCrash
  <2>1. crashes' \in Nat /\ crashes' <= MaxCrashes
    BY <1>1, <1>6, DeliveryAssumption DEF AgentCrash
  <2>2. crashes' \in 0 .. MaxRollouts + MaxCrashes + MaxRestarts
    BY <2>1, CounterTyped
  <2> QED
    BY <1>6, <2>1, <2>2 DEF AgentCrash, Loaded, Newlines, TypeOK, captureVars, gatewayVars
<1>7. ASSUME NEW ids \in SUBSET Rollouts, GatewayTakes(ids) PROVE TypeOK' /\ Bounds'
  <2>1. RecordBatch(ids) \in Nat
    BY DEF RecordBatch
  <2>2. rows' \in [Rollouts -> Nat]
    BY <1>7, <2>1 DEF GatewayTakes, TypeOK
  <2> QED
    BY <1>7, <2>2 DEF GatewayTakes, Newlines, TypeOK, captureVars
<1> QED
  BY <1>2, <1>3, <1>4, <1>5, <1>6, <1>7 DEF Agent, Gateway

LEMMA StutterTyped ==
  ASSUME TypeOK, Bounds, UNCHANGED vars
  PROVE  TypeOK' /\ Bounds'
BY DEF TypeOK, Bounds, Newlines, vars, captureVars, agentVars, gatewayVars

LEMMA Typed == Spec => [](TypeOK /\ Bounds)
<1>1. TypeOK /\ Bounds /\ [Next]_vars => (TypeOK /\ Bounds)'
  BY CaptureTyped, DeliveryTyped, StutterTyped DEF Next
<1> QED
  BY InitTyped, <1>1, PTL DEF Spec

\* Every variable has its type, and the checkpoint, in memory and on disk, is
\* always the end of a line.
THEOREM TypeCorrect == Spec => []TypeOK
BY Typed, PTL

-----------------------------------------------------------------------------
(***************************************************************************)
(* The robot process.                                                      *)
(***************************************************************************)

\* Putting and flushing move a piece along the stream.
LEMMA StreamStays ==
  ASSUME TypeOK, LogStep \/ Put \/ Flush \/ AppendOk
  PROVE  Stream' = Stream
<1>1. file \in Seq(Piece) /\ buffer \in Seq(Piece) /\ unput \in Seq(Piece)
  BY DEF TypeOK
<1>2. CASE LogStep \/ AppendOk
  BY <1>2 DEF LogStep, AppendOk, Stream
<1>3. CASE Put
  <2>1. Head(unput) \in Piece /\ unput # <<>>
    BY <1>1, <1>3 DEF Put
  <2>2. file \o Append(buffer, Head(unput)) = Append(file \o buffer, Head(unput))
    BY <1>1, <2>1, AppendInside
  <2>3. Append(file \o buffer, Head(unput)) \o Tail(unput) = (file \o buffer) \o unput
    <3> DEFINE fb == file \o buffer
               P == Piece
    <3>1. fb \in Seq(P) /\ unput \in Seq(P) /\ unput # <<>>
      BY <1>1, <2>1, Begins
    <3> HIDE DEF fb, P
    <3>2. Append(fb, Head(unput)) \o Tail(unput) = fb \o unput
      BY <3>1, MovesOn
    <3> QED
      BY <3>2 DEF fb
  <2> QED
    BY <1>3, <2>2, <2>3 DEF Put, Stream
<1>4. CASE Flush
  <2>1. Append(file, Head(buffer)) \o Tail(buffer) = file \o buffer
    BY <1>1, <1>4, MovesOn DEF Flush
  <2> QED
    BY <1>4, <2>1 DEF Flush, Stream
<1> QED
  BY <1>2, <1>3, <1>4

\* Taking a record from the queue adds its line.
LEMMA StreamGrows ==
  ASSUME TypeOK, Appending, DrainNext, NEW r, r = Head(queue), NEW n, n = Len(Stream)
  PROVE  /\ r \in Rollouts /\ n \in Nat
         /\ DOMAIN Stream = 1 .. n /\ DOMAIN Stream' = 1 .. n + 2 /\ Len(Stream') = n + 2
         /\ \A i \in 1 .. n : Stream'[i] = Stream[i]
         /\ Stream'[n + 1] = [id |-> r, last |-> FALSE]
         /\ Stream'[n + 2] = [id |-> r, last |-> TRUE]
<1>1. file \in Seq(Piece) /\ buffer \in Seq(Piece) /\ queue \in Seq(Rollouts) /\ queue # <<>>
  BY DEF TypeOK, DrainNext
<1>2. r \in Rollouts
  BY <1>1
<1> DEFINE fb == file \o buffer
           P == Piece
<1>3. fb \in Seq(P) /\ Line(r) \in Seq(P)
  BY <1>1, <1>2, Begins, Rolls
<1>4. unput = <<>>
  BY DEF Appending, DrainNext
<1>5. Stream = fb
  BY <1>3, <1>4, ConcatEmptySeq DEF Stream
<1>6. Stream' = fb \o Line(r)
  BY DEF DrainNext, Stream
<1>7. Len(Line(r)) = 2 /\ Line(r)[1] = [id |-> r, last |-> FALSE] /\ Line(r)[2] = [id |-> r, last |-> TRUE]
  BY <1>2, Rolls
<1> HIDE DEF fb, P
<1>8. n \in Nat /\ DOMAIN Stream = 1 .. n
  BY <1>3, <1>5
<1>9. Stream' \in Seq(P) /\ Len(Stream') = n + 2
      /\ \A i \in 1 .. n + 2 : Stream'[i] = IF i <= n THEN Stream[i] ELSE Line(r)[i - n]
  <2>1. PICK l : l = Line(r)
    OBVIOUS
  <2>2. l \in Seq(P) /\ Len(l) = 2 /\ Stream' = fb \o l /\ n = Len(fb)
    BY <1>3, <1>5, <1>6, <1>7, <2>1
  <2>3. fb \o l \in Seq(P) /\ Len(fb \o l) = n + 2
        /\ \A i \in 1 .. n + 2 : (fb \o l)[i] = IF i <= n THEN fb[i] ELSE l[i - n]
    <3>1. fb \in Seq(P) /\ l \in Seq(P)
      BY <1>3, <2>2
    <3>2. fb \o l \in Seq(P) /\ Len(fb \o l) = Len(fb) + Len(l)
          /\ \A i \in 1 .. Len(fb) + Len(l) : (fb \o l)[i] = IF i <= Len(fb) THEN fb[i] ELSE l[i - Len(fb)]
      BY <3>1, ConcatProperties, Zenon
    <3> QED
      BY <2>2, <3>2
  <2> QED
    BY <1>5, <2>1, <2>2, <2>3
<1> QED
  BY <1>2, <1>7, <1>8, <1>9

\* A failed append and a crash only cut the end of the stream off.
LEMMA StreamCut ==
  ASSUME TypeOK, TypeOK', AppendFails \/ CaptureRestart
  PROVE  /\ Len(Stream') <= Len(Stream)
         /\ \A i \in DOMAIN Stream' : i \in DOMAIN Stream /\ Stream'[i] = Stream[i]
         /\ unput' = <<>> /\ draining' = 0
         /\ Undisturbed' => Stream' = Stream /\ Undisturbed /\ AppendFails
<1>1. file \in Seq(Piece) /\ buffer \in Seq(Piece) /\ unput \in Seq(Piece)
  BY DEF TypeOK
<1> DEFINE fb == file \o buffer
           P == Piece
<1>2. file \in Seq(P) /\ fb \in Seq(P) /\ unput \in Seq(P)
  BY <1>1, Begins
<1>3. Stream = fb \o unput
  BY DEF Stream
<1>4. CASE AppendFails
  <2>1. Stream' = fb \o <<>> /\ unput' = <<>> /\ draining' = 0
    BY <1>4 DEF AppendFails, Kept, Stream
  <2> HIDE DEF fb, P
  <2>2. Stream' = fb
    BY <1>2, <2>1, ConcatEmptySeq
  <2>3. Len(fb) <= Len(Stream) /\ \A i \in DOMAIN fb : i \in DOMAIN Stream /\ Stream[i] = fb[i]
    BY <1>2, <1>3, Begins
  <2>4. Undisturbed' => unput = <<>> /\ Undisturbed
    BY <1>4 DEF AppendFails, Undisturbed
  <2>5. unput = <<>> => Stream = fb
    BY <1>2, <1>3, ConcatEmptySeq
  <2> QED
    BY <1>4, <2>1, <2>2, <2>3, <2>4, <2>5
<1>5. CASE CaptureRestart
  <2>1. Stream' = (file \o <<>>) \o <<>> /\ unput' = <<>> /\ draining' = 0
    BY <1>5 DEF CaptureRestart, Stream
  <2>2. ~Undisturbed'
    BY <1>5 DEF CaptureRestart, Undisturbed, TypeOK
  <2>3. fb \in Seq(P) /\ Len(file) <= Len(fb) /\ \A i \in DOMAIN file : i \in DOMAIN fb /\ fb[i] = file[i]
    BY <1>1, Begins
  <2> HIDE DEF fb, P
  <2>4. Stream' = file
    BY <1>2, <2>1, ConcatEmptySeq
  <2>5. Len(fb) <= Len(Stream) /\ \A i \in DOMAIN fb : i \in DOMAIN Stream /\ Stream[i] = fb[i]
    BY <1>2, <1>3, Begins
  <2>6. Len(fb) \in Nat /\ Len(file) \in Nat /\ Len(Stream) \in Nat
    BY <1>2, <1>3, Begins
  <2> QED
    BY <2>1, <2>2, <2>3, <2>4, <2>5, <2>6
<1> QED
  BY <1>4, <1>5

LEMMA QueueFacts ==
  ASSUME TypeOK
  PROVE  /\ Len(queue) \in Nat /\ DOMAIN queue = 1 .. Len(queue)
         /\ \A k \in DOMAIN queue : queue[k] \in Rollouts /\ queue[k] \in Nat
         /\ logged \in Nat /\ dropped \in Nat
<1>1. queue \in Seq(Rollouts) /\ Rollouts \subseteq Nat
  BY Rolls DEF TypeOK
<1>2. Len(queue) \in Nat /\ DOMAIN queue = 1 .. Len(queue)
      /\ \A k \in DOMAIN queue : queue[k] \in Rollouts
  BY <1>1
<1>3. logged \in Nat /\ dropped \in Nat
  BY DEF TypeOK
<1> QED
  BY <1>1, <1>2, <1>3

\* A new id is greater than all others.
LEMMA OrderOfLogStep ==
  ASSUME TypeOK, InOrder, LogStep
  PROVE  InOrder'
<1>1. Stream' = Stream /\ logged' = logged + 1 /\ logged \in Nat
  BY StreamStays DEF LogStep, TypeOK
<1>2. \A i \in DOMAIN Stream : Stream[i].id \in Nat /\ Stream[i].id <= logged
  BY StreamFacts DEF InOrder
<1>3. Len(queue) \in Nat /\ DOMAIN queue = 1 .. Len(queue) /\ \A k \in DOMAIN queue : queue[k] \in Nat
  BY QueueFacts
<1>4. CASE queue' = queue
  BY <1>1, <1>2, <1>3, <1>4 DEF InOrder
<1>5. CASE queue' = Append(queue, logged + 1)
  <2>1. DOMAIN queue' = 1 .. Len(queue) + 1 /\ queue'[Len(queue) + 1] = logged + 1
        /\ \A k \in 1 .. Len(queue) : queue'[k] = queue[k]
    BY <1>3, <1>5 DEF TypeOK
  <2>2. \A i \in DOMAIN Stream, k \in DOMAIN queue' : Stream[i].id < queue'[k]
    BY <1>1, <1>2, <1>3, <2>1 DEF InOrder
  <2>3. \A k \in DOMAIN queue' : queue'[k] <= logged + 1
    BY <1>1, <1>3, <2>1 DEF InOrder
  <2>4. \A k, l \in DOMAIN queue' : k < l => queue'[k] < queue'[l]
    <3> SUFFICES ASSUME NEW k \in DOMAIN queue', NEW l \in DOMAIN queue', k < l
                 PROVE  queue'[k] < queue'[l]
      OBVIOUS
    <3>1. k \in 1 .. Len(queue) /\ queue'[k] = queue[k] /\ queue[k] <= logged /\ queue[k] \in Nat
      BY <1>3, <2>1 DEF InOrder
    <3>2. CASE l = Len(queue) + 1
      BY <1>1, <2>1, <3>1, <3>2
    <3>3. CASE l # Len(queue) + 1
      BY <1>3, <2>1, <3>1, <3>3 DEF InOrder
    <3> QED
      BY <3>2, <3>3
  <2> QED
    BY <1>1, <1>2, <2>2, <2>3, <2>4 DEF InOrder
<1> QED
  BY <1>4, <1>5 DEF LogStep

\* The record that leads the queue is greater than all in the stream and less
\* than those behind it.
LEMMA OrderOfDrain ==
  ASSUME TypeOK, Appending, InOrder, DrainNext
  PROVE  InOrder'
<1>0. PICK r, n : r = Head(queue) /\ n = Len(Stream)
  OBVIOUS
<1>1. /\ r \in Rollouts /\ n \in Nat
      /\ DOMAIN Stream = 1 .. n /\ DOMAIN Stream' = 1 .. n + 2
      /\ \A i \in 1 .. n : Stream'[i] = Stream[i]
      /\ Stream'[n + 1] = [id |-> r, last |-> FALSE]
      /\ Stream'[n + 2] = [id |-> r, last |-> TRUE]
  BY <1>0, StreamGrows
<1>2. queue \in Seq(Rollouts) /\ queue # <<>> /\ queue' = Tail(queue) /\ logged' = logged
  BY DEF DrainNext, TypeOK
<1>3. PICK q \in Nat \ {0} : q = Len(queue)
  BY <1>2
<1>4. /\ DOMAIN queue = 1 .. q /\ queue[1] = r
      /\ DOMAIN queue' = 1 .. q - 1 /\ \A k \in 1 .. q - 1 : queue'[k] = queue[k + 1]
  BY <1>0, <1>2, <1>3
<1>5. \A i \in 1 .. n : Stream[i].id \in Nat /\ Stream[i].id < r
  BY <1>1, <1>3, <1>4, StreamFacts DEF InOrder
<1>6. \A k \in 1 .. q - 1 : queue[k + 1] \in Nat /\ r < queue[k + 1] /\ queue[k + 1] <= logged
                            /\ k + 1 \in 1 .. q
  <2> SUFFICES ASSUME NEW k \in 1 .. q - 1
               PROVE  queue[k + 1] \in Nat /\ r < queue[k + 1] /\ queue[k + 1] <= logged /\ k + 1 \in 1 .. q
    OBVIOUS
  <2>1. 1 \in DOMAIN queue /\ k + 1 \in DOMAIN queue /\ 1 < k + 1
    BY <1>3, <1>4
  <2> QED
    BY <1>4, <2>1, QueueFacts DEF InOrder
<1>7. r \in Nat /\ r <= logged /\ logged \in Nat
  <2>1. 1 \in DOMAIN queue
    BY <1>3, <1>4
  <2> QED
    BY <1>4, <2>1, QueueFacts DEF InOrder
<1>8. \A i \in 1 .. n + 2 : (i \in 1 .. n /\ Stream'[i] = Stream[i])
                            \/ (i = n + 1 /\ Stream'[i].id = r /\ ~Stream'[i].last)
                            \/ (i = n + 2 /\ Stream'[i].id = r)
  BY <1>1
<1>9. \A i \in 1 .. n + 2 : Stream'[i].id \in Nat /\ Stream'[i].id <= r
  BY <1>5, <1>7, <1>8
<1>10. ASSUME NEW i \in 1 .. n + 2, NEW j \in 1 .. n + 2, i < j
       PROVE  Stream'[i].id <= Stream'[j].id /\ (Stream'[i].last => Stream'[i].id < Stream'[j].id)
  <2>1. CASE j \in 1 .. n
    <3>1. i \in 1 .. n
      BY <1>1, <1>10, <2>1
    <3> QED
      BY <1>1, <1>10, <2>1, <3>1 DEF InOrder
  <2>2. CASE j \notin 1 .. n
    <3>1. Stream'[j].id = r /\ ((i \in 1 .. n /\ Stream'[i] = Stream[i]) \/ (Stream'[i].id = r /\ ~Stream'[i].last))
      BY <1>1, <1>8, <1>10, <2>2
    <3> QED
      BY <1>5, <1>7, <3>1
  <2> QED
    BY <2>1, <2>2
<1>11. \A i \in 1 .. n + 2, k \in 1 .. q - 1 : Stream'[i].id < queue'[k]
  BY <1>4, <1>6, <1>7, <1>9
<1>12. \A k, l \in 1 .. q - 1 : k < l => queue'[k] < queue'[l]
  BY <1>3, <1>4, <1>6 DEF InOrder
<1>13. \A i \in 1 .. n + 2 : Stream'[i].id <= logged
  BY <1>7, <1>9
<1> QED
  BY <1>1, <1>2, <1>4, <1>6, <1>10, <1>11, <1>12, <1>13 DEF InOrder

LEMMA OrderStep ==
  ASSUME TypeOK, TypeOK', Appending, InOrder, LogStep \/ Drain \/ CaptureRestart
  PROVE  InOrder'
<1>1. CASE Put \/ Flush \/ AppendOk
  <2>1. Stream' = Stream /\ UNCHANGED <<queue, logged>>
    BY <1>1, StreamStays DEF Put, Flush, AppendOk
  <2> QED
    BY <2>1 DEF InOrder
<1>2. CASE AppendFails \/ CaptureRestart
  <2>1. \A i \in DOMAIN Stream' : i \in DOMAIN Stream /\ Stream'[i] = Stream[i]
    BY <1>2, StreamCut
  <2>2. logged' = logged /\ queue' \in {queue, <<>>}
    BY <1>2 DEF AppendFails, CaptureRestart
  <2> QED
    BY <2>1, <2>2 DEF InOrder
<1> QED
  BY <1>1, <1>2, OrderOfLogStep, OrderOfDrain DEF Drain

LEMMA AppendingStep ==
  ASSUME TypeOK, TypeOK', Appending, LogStep \/ Drain \/ CaptureRestart
  PROVE  Appending'
<1>1. CASE LogStep
  BY <1>1, StreamStays DEF LogStep, Appending
<1>2. CASE DrainNext
  <2>0. PICK r, n : r = Head(queue) /\ n = Len(Stream)
    OBVIOUS
  <2>1. r \in Rollouts /\ n \in Nat /\ Len(Stream') = n + 2 /\ Stream'[n + 2] = [id |-> r, last |-> TRUE]
    BY <1>2, <2>0, StreamGrows
  <2>2. draining' = r /\ draining' # 0
    BY <1>2, <2>0, <2>1, Rolls DEF DrainNext
  <2> QED
    BY <2>1, <2>2 DEF Appending
<1>3. CASE Put \/ Flush
  <2>1. Stream' = Stream /\ draining' = draining
    BY <1>3, StreamStays DEF Put, Flush
  <2>2. draining # 0
    BY <1>3 DEF Put, Flush, Flushing, Appending
  <2> QED
    BY <2>1, <2>2 DEF Appending
<1>4. CASE AppendOk
  BY <1>4 DEF AppendOk, Appending
<1>5. CASE AppendFails \/ CaptureRestart
  BY <1>5, StreamCut DEF Appending
<1> QED
  BY <1>1, <1>2, <1>3, <1>4, <1>5 DEF Drain

LEMMA EndsFinite ==
  ASSUME TypeOK
  PROVE  IsFiniteSet(Ends) /\ Cardinality(Ends) \in Nat
<1>1. IsFiniteSet(1 .. Len(Stream)) /\ Ends \subseteq 1 .. Len(Stream)
  BY StreamFacts, FS_Interval DEF Ends
<1>2. IsFiniteSet(Ends)
  BY <1>1, FS_Subset
<1> QED
  BY <1>2, FS_CardinalityType

LEMMA AccountedStep ==
  ASSUME TypeOK, TypeOK', Appending, Accounted, LogStep \/ Drain \/ CaptureRestart
  PROVE  Accounted'
<1>1. logged \in Nat /\ dropped \in Nat /\ Len(queue) \in Nat /\ Cardinality(Ends) \in Nat
  BY EndsFinite, QueueFacts
<1>2. CASE LogStep
  <2>1. Stream' = Stream /\ logged' = logged + 1 /\ UNCHANGED <<restarts, refused>>
    BY <1>2, StreamStays DEF LogStep
  <2>2. dropped' + Len(queue') = dropped + Len(queue) + 1
    <3>1. Len(Append(queue, logged + 1)) = Len(queue) + 1
      BY DEF TypeOK
    <3> QED
      BY <1>1, <1>2, <3>1 DEF LogStep, Counted
  <2>3. dropped' \in Nat /\ Len(queue') \in Nat
    BY DEF TypeOK
  <2>4. Cardinality(Ends') = Cardinality(Ends) /\ (Undisturbed' <=> Undisturbed)
    BY <2>1 DEF Ends, Undisturbed
  <2>5. ASSUME logged = dropped + Cardinality(Ends) + Len(queue)
        PROVE  logged' = dropped' + Cardinality(Ends') + Len(queue')
    <3>1. \A d, c, q, e, p \in Nat : e + p = d + q + 1 => (d + c + q) + 1 = e + c + p
      OBVIOUS
    <3>2. dropped' + Cardinality(Ends) + Len(queue') = (dropped + Cardinality(Ends) + Len(queue)) + 1
      BY <1>1, <2>2, <2>3, <3>1
    <3> QED
      BY <2>1, <2>4, <2>5, <3>2
  <2> QED
    BY <2>4, <2>5 DEF Accounted
<1>3. CASE DrainNext
  <2>0. PICK r, n : r = Head(queue) /\ n = Len(Stream)
    OBVIOUS
  <2>1. /\ n \in Nat /\ DOMAIN Stream = 1 .. n /\ DOMAIN Stream' = 1 .. n + 2
        /\ \A i \in 1 .. n : Stream'[i] = Stream[i]
        /\ Stream'[n + 1] = [id |-> r, last |-> FALSE]
        /\ Stream'[n + 2] = [id |-> r, last |-> TRUE]
    BY <1>3, <2>0, StreamGrows
  <2>2. ~Stream'[n + 1].last /\ Stream'[n + 2].last
    BY <2>1
  <2>3. Ends' = Ends \cup {n + 2} /\ n + 2 \notin Ends
    <3>1. \A i : i \in 1 .. n + 2 <=> i \in 1 .. n \/ i = n + 1 \/ i = n + 2
      BY <2>1
    <3>2. n + 2 \notin 1 .. n /\ n + 1 # n + 2
      BY <2>1
    <3> QED
      BY <2>1, <2>2, <3>1, <3>2 DEF Ends
  <2>4. Cardinality(Ends') = Cardinality(Ends) + 1
    BY <2>3, EndsFinite, FS_AddElement
  <2>5. Len(queue') = Len(queue) - 1 /\ UNCHANGED <<logged, dropped, restarts, refused>>
    BY <1>3 DEF DrainNext, TypeOK
  <2> QED
    BY <1>1, <2>4, <2>5 DEF Accounted, Undisturbed
<1>4. CASE Put \/ Flush \/ AppendOk
  <2>1. Stream' = Stream /\ UNCHANGED <<queue, logged, dropped, restarts, refused>>
    BY <1>4, StreamStays DEF Put, Flush, AppendOk
  <2> QED
    BY <2>1 DEF Accounted, Ends, Undisturbed
<1>5. CASE AppendFails \/ CaptureRestart
  <2>1. Undisturbed' => Stream' = Stream /\ Undisturbed /\ AppendFails
    BY <1>5, StreamCut
  <2>2. AppendFails => UNCHANGED <<queue, logged, dropped>>
    BY DEF AppendFails
  <2> QED
    BY <2>1, <2>2 DEF Accounted, Ends
<1> QED
  BY <1>2, <1>3, <1>4, <1>5 DEF Drain

LEMMA WholeStep ==
  ASSUME TypeOK, TypeOK', Appending, Whole, LogStep \/ Drain \/ CaptureRestart
  PROVE  Whole'
<1>1. CASE LogStep \/ Put \/ Flush \/ AppendOk
  <2>1. Stream' = Stream /\ UNCHANGED <<restarts, refused>>
    BY <1>1, StreamStays DEF LogStep, Put, Flush, AppendOk
  <2> QED
    BY <2>1 DEF Whole, WholeLines, Undisturbed
<1>2. CASE DrainNext
  <2>0. PICK r, n, s, t : r = Head(queue) /\ n = Len(Stream) /\ s = Stream /\ t = Stream'
    OBVIOUS
  <2>1. /\ n \in Nat /\ DOMAIN s = 1 .. n /\ DOMAIN t = 1 .. n + 2
        /\ \A i \in 1 .. n : t[i] = s[i]
        /\ t[n + 1] = [id |-> r, last |-> FALSE]
        /\ t[n + 2] = [id |-> r, last |-> TRUE]
    BY <1>2, <2>0, StreamGrows
  <2>2. ASSUME WholeLines(s) PROVE WholeLines(t)
    <3> SUFFICES ASSUME NEW i \in 1 .. n + 2
                 PROVE  IF t[i].last THEN i > 1 /\ t[i - 1] = [id |-> t[i].id, last |-> FALSE]
                        ELSE i + 1 \in 1 .. n + 2 /\ t[i + 1] = [id |-> t[i].id, last |-> TRUE]
      BY <2>1 DEF WholeLines
    <3>1. CASE i = n + 1
      <4>1. ~t[i].last /\ t[i].id = r /\ i + 1 = n + 2
        BY <2>1, <3>1
      <4> QED
        BY <2>1, <4>1
    <3>2. CASE i = n + 2
      <4>1. t[i].last /\ t[i].id = r /\ i - 1 = n + 1 /\ i > 1
        BY <2>1, <3>2
      <4> QED
        BY <2>1, <4>1
    <3>3. CASE i \in 1 .. n /\ s[i].last
      <4>1. i > 1 /\ s[i - 1] = [id |-> s[i].id, last |-> FALSE]
        BY <2>1, <2>2, <3>3 DEF WholeLines
      <4>2. i - 1 \in 1 .. n
        BY <2>1, <3>3, <4>1
      <4> QED
        BY <2>1, <3>3, <4>1, <4>2
    <3>4. CASE i \in 1 .. n /\ ~s[i].last
      <4>1. i + 1 \in 1 .. n /\ s[i + 1] = [id |-> s[i].id, last |-> TRUE]
        BY <2>1, <2>2, <3>4 DEF WholeLines
      <4>2. i + 1 \in 1 .. n + 2
        BY <2>1, <4>1
      <4> QED
        BY <2>1, <3>4, <4>1, <4>2
    <3> QED
      BY <2>1, <3>1, <3>2, <3>3, <3>4
  <2>3. UNCHANGED <<restarts, refused>>
    BY <1>2 DEF DrainNext
  <2> QED
    BY <2>0, <2>2, <2>3 DEF Whole, Undisturbed
<1>3. CASE AppendFails \/ CaptureRestart
  BY <1>3, StreamCut DEF Whole, WholeLines
<1> QED
  BY <1>1, <1>2, <1>3 DEF Drain

\* When an append returns, its line is the end of the file.
LEMMA ReportedIsReadable ==
  ASSUME TypeOK, Appending, AppendOk, WholeLines(Stream)
  PROVE  Readable(draining)
<1>1. file \in Seq(Piece) /\ buffer = <<>> /\ unput = <<>> /\ draining # 0
  BY DEF TypeOK, AppendOk
<1>2. Stream = file
  BY <1>1, ConcatEmptySeq DEF Stream
<1>3. PICK n \in Nat : n = Len(file) /\ DOMAIN file = 1 .. n
  BY <1>1
<1>4. n # 0 /\ file[n] = [id |-> draining, last |-> TRUE]
  BY <1>1, <1>2, <1>3 DEF Appending
<1>5. n \in 1 .. n /\ n \in Newlines /\ file[n].last /\ file[n].id = draining
  BY <1>3, <1>4 DEF Newlines
<1>6. n > 1 /\ file[n - 1] = [id |-> draining, last |-> FALSE]
  BY <1>2, <1>3, <1>5 DEF WholeLines
<1>7. <<file[n - 1], file[n]>> = Line(draining)
  BY <1>4, <1>6 DEF Line
<1>8. Parses(0, n)
  <2> SUFFICES ASSUME NEW i \in 1 .. n
               PROVE  IF file[i].last
                        THEN i - 1 > 0 /\ file[i - 1] = [id |-> file[i].id, last |-> FALSE]
                        ELSE file[i + 1] = [id |-> file[i].id, last |-> TRUE]
    BY DEF Parses
  <2> QED
    BY <1>2, <1>3 DEF WholeLines
<1> QED
  BY <1>5, <1>6, <1>7, <1>8 DEF Readable

LEMMA ReadableStays ==
  ASSUME TypeOK, Flush, NEW r, Readable(r)
  PROVE  Readable(r)'
<1>0. PICK p, n : p = Head(buffer) /\ n = Len(file) + 1
  OBVIOUS
<1>1. p \in Piece /\ file' = Append(file, p)
  BY <1>0 DEF Flush, TypeOK
<1>2. /\ n \in Nat /\ DOMAIN file = 1 .. n - 1
      /\ \A i \in 1 .. n - 1 : file'[i] = file[i]
      /\ Newlines \subseteq 1 .. n - 1 /\ Newlines \subseteq Newlines'
  BY <1>0, <1>1, FileGrows
<1>3. PICK i \in Newlines : i > 1 /\ <<file[i - 1], file[i]>> = Line(r) /\ Parses(0, i)
  BY DEF Readable
<1>4. i \in 1 .. n - 1 /\ file[i].last
  BY <1>2 DEF Newlines
<1>5. \A k \in 1 .. i : file'[k] = file[k]
  BY <1>2, <1>4
<1>6. <<file'[i - 1], file'[i]>> = Line(r)
  BY <1>2, <1>3, <1>4, <1>5
<1>7. ASSUME NEW k \in 0 + 1 .. i
      PROVE  IF file'[k].last
               THEN k - 1 > 0 /\ file'[k - 1] = [id |-> file'[k].id, last |-> FALSE]
               ELSE file'[k + 1] = [id |-> file'[k].id, last |-> TRUE]
  <2>1. file'[k] = file[k] /\ k \in 1 .. i
    BY <1>5
  <2>2. CASE file[k].last
    <3>1. k - 1 > 0 /\ file[k - 1] = [id |-> file[k].id, last |-> FALSE]
      BY <1>3, <2>2 DEF Parses
    <3>2. k - 1 \in 1 .. i
      BY <1>4, <2>1, <3>1
    <3> QED
      BY <1>5, <2>1, <2>2, <3>1, <3>2
  <2>3. CASE ~file[k].last
    <3>1. file[k + 1] = [id |-> file[k].id, last |-> TRUE]
      BY <1>3, <2>3 DEF Parses
    <3>2. k # i /\ k + 1 \in 1 .. i
      BY <1>4, <2>1, <2>3
    <3> QED
      BY <1>5, <2>1, <2>3, <3>1, <3>2
  <2> QED
    BY <2>2, <2>3
<1>8. Parses(0, i)'
  BY <1>7 DEF Parses
<1> QED
  BY <1>2, <1>3, <1>6, <1>8 DEF Readable

LEMMA ReadableStep ==
  ASSUME TypeOK, TypeOK', Appending, Whole, ReadableUntilCrash, LogStep \/ Drain \/ CaptureRestart
  PROVE  ReadableUntilCrash'
<1>1. CASE LogStep \/ DrainNext \/ Put
  <2>1. UNCHANGED <<file, reported, restarts, refused>>
    BY <1>1 DEF LogStep, DrainNext, Put
  <2> QED
    BY <2>1 DEF ReadableUntilCrash, Readable, Undisturbed, Parses, Newlines
<1>2. CASE Flush
  <2>1. UNCHANGED <<reported, restarts, refused>>
    BY <1>2 DEF Flush
  <2> QED
    BY <1>2, <2>1, ReadableStays DEF ReadableUntilCrash, Undisturbed
<1>3. CASE AppendOk
  <2>1. UNCHANGED <<file, restarts, refused>> /\ reported' = reported \cup {draining}
    BY <1>3 DEF AppendOk
  <2>2. Undisturbed => Readable(draining)
    BY <1>3, ReportedIsReadable DEF Whole
  <2>3. Undisturbed => \A r \in reported' : Readable(r)
    BY <2>1, <2>2 DEF ReadableUntilCrash
  <2> QED
    BY <2>1, <2>3 DEF ReadableUntilCrash, Readable, Undisturbed, Parses, Newlines
<1>4. CASE AppendFails \/ CaptureRestart
  <2>1. Undisturbed' => Undisturbed /\ AppendFails
    BY <1>4, StreamCut
  <2>2. AppendFails => UNCHANGED <<file, reported>>
    BY DEF AppendFails
  <2> QED
    BY <2>1, <2>2 DEF ReadableUntilCrash, Readable, Parses, Newlines
<1> QED
  BY <1>1, <1>2, <1>3, <1>4 DEF Drain

LEMMA InitCapture == Init => CaptureInv
<1> SUFFICES ASSUME Init PROVE CaptureInv
  OBVIOUS
<1>1. Stream = <<>> /\ DOMAIN Stream = {} /\ DOMAIN queue = {} /\ Len(queue) = 0
  BY DEF Init, Stream
<1>2. Ends = {} /\ Cardinality(Ends) = 0
  BY <1>1, FS_EmptySet DEF Ends
<1>3. Bounds /\ Appending /\ ReadableUntilCrash
  BY InitTyped DEF Init, Appending, ReadableUntilCrash
<1>4. InOrder /\ Whole
  BY <1>1 DEF InOrder, Whole, WholeLines
<1>5. Accounted
  BY <1>1, <1>2 DEF Init, Accounted
<1> QED
  BY <1>3, <1>4, <1>5 DEF CaptureInv

LEMMA CaptureStep ==
  ASSUME TypeOK, Bounds, TypeOK', Bounds', CaptureInv, [Next]_vars
  PROVE  CaptureInv'
<1>1. CASE LogStep \/ Drain \/ CaptureRestart
  BY <1>1, AppendingStep, OrderStep, AccountedStep, WholeStep, ReadableStep DEF CaptureInv
<1>2. CASE Agent \/ AgentCrash \/ Gateway \/ UNCHANGED vars
  <2>1. UNCHANGED captureVars
    BY <1>2 DEF Agent, Register, PostFails, CommitOk, CommitFails, AgentCrash, Gateway, GatewayTakes, vars
  <2>2. UNCHANGED <<Stream, logged, queue, dropped, draining, unput, file, reported, refused, restarts>>
    BY <2>1 DEF captureVars, Stream
  <2>3. Appending' /\ InOrder'
    BY <2>2 DEF CaptureInv, Appending, InOrder
  <2>4. Accounted' /\ Whole'
    BY <2>2 DEF CaptureInv, Accounted, Whole, WholeLines, Ends, Undisturbed
  <2>5. ReadableUntilCrash'
    BY <2>2 DEF CaptureInv, Undisturbed, ReadableUntilCrash, Readable, Parses, Newlines
  <2> QED
    BY <2>3, <2>4, <2>5 DEF CaptureInv
<1> QED
  BY <1>1, <1>2 DEF Next

LEMMA CaptureHolds == Spec => []CaptureInv
<1>1. TypeOK /\ Bounds /\ (TypeOK /\ Bounds)' /\ CaptureInv /\ [Next]_vars => CaptureInv'
  BY CaptureStep
<1> QED
  BY InitCapture, Typed, <1>1, PTL DEF Spec

\* While the robot process is undisturbed nothing it was handed disappears
\* without a count, and the order of the calls is kept up to the file.
THEOREM NothingSilent == Spec => []NoSilentLoss
<1>1. ASSUME TypeOK, CaptureInv PROVE NoSilentLoss
  BY <1>1 DEF CaptureInv, Accounted, InOrder, NoSilentLoss, Ends
<1> QED
  BY <1>1, CaptureHolds, TypeCorrect, PTL

\* What an append has reported is a line the agent can parse, and so is all
\* before it.
THEOREM ReportedReadable == Spec => []ReadableUntilCrash
BY CaptureHolds, PTL DEF CaptureInv

-----------------------------------------------------------------------------
(***************************************************************************)
(* The agent and the gateway.                                              *)
(***************************************************************************)

\* Each newline of the file ends another rollout, and later ones later calls.
LEMMA NewlineIds ==
  ASSUME TypeOK, InOrder
  PROVE  /\ Newlines \subseteq 1 .. Len(file) /\ Len(file) \in Nat /\ Newlines \subseteq Nat
         /\ \A i \in Newlines : file[i].id \in Rollouts /\ file[i].id \in Nat
         /\ \A i, j \in Newlines : i < j => file[i].id < file[j].id
         /\ \A i, j \in Newlines : file[i].id = file[j].id => i = j
         /\ offset \in Nat /\ saved \in Nat /\ offset <= Len(file)
<1>1. DOMAIN file = 1 .. Len(file) /\ Len(file) \in Nat
      /\ \A i \in DOMAIN file : i \in DOMAIN Stream /\ Stream[i] = file[i]
  BY StreamFacts
<1>2. Newlines \subseteq 1 .. Len(file)
  BY <1>1 DEF Newlines
<1>3. \A i \in Newlines : file[i].id \in Rollouts /\ file[i].id \in Nat
  BY <1>1, StreamFacts DEF Newlines
<1>4. \A i, j \in Newlines : i < j => file[i].id < file[j].id
  BY <1>1 DEF Newlines, InOrder
<1>5. \A i, j \in Newlines : file[i].id = file[j].id => i = j
  <2> SUFFICES ASSUME NEW i \in Newlines, NEW j \in Newlines, file[i].id = file[j].id, i # j
               PROVE  FALSE
    OBVIOUS
  <2>1. i < j \/ j < i
    BY <1>1, <1>2
  <2> QED
    BY <1>3, <1>4, <2>1
<1>6. offset \in Nat /\ saved \in Nat /\ offset <= Len(file)
  <2>1. offset \in {0} \cup Newlines /\ saved \in {0} \cup Newlines
    BY DEF TypeOK
  <2>2. \A i \in Newlines : i \in Nat /\ i <= Len(file)
    BY <1>1, <1>2
  <2> QED
    BY <1>1, <2>1, <2>2
<1> QED
  BY <1>1, <1>2, <1>3, <1>4, <1>5, <1>6

DistinctIds == \A i, j \in Newlines : file[i].id = file[j].id => i = j

LEMMA Distinct == TypeOK /\ InOrder => DistinctIds
BY NewlineIds DEF DistinctIds

\* A rollout is in a delta exactly if its newline is.
LEMMA InDelta ==
  ASSUME TypeOK, InOrder, NEW i \in Newlines, NEW from, NEW to
  PROVE  file[i].id \in IdsBetween(from, to) <=> from < i /\ i <= to
BY NewlineIds DEF IdsBetween

\* Deltas from the checkpoint begin with the same rollout.
LEMMA DeltasStart ==
  ASSUME TypeOK, InOrder, NEW s \in NewEnds, NEW t \in NewEnds
  PROVE  SameStart(IdsBetween(offset, s), IdsBetween(offset, t))
<1>1. NewEnds \subseteq Newlines /\ NewEnds \subseteq Nat /\ NewEnds # {}
  BY NewlineIds DEF NewEnds
<1>2. PICK m \in NewEnds : \A i \in NewEnds : m <= i
  BY <1>1, LeastNatural
<1>3. \A x \in IdsBetween(offset, s) \cup IdsBetween(offset, t) : \E i \in NewEnds : x = file[i].id
  BY NewlineIds DEF IdsBetween, NewEnds
<1>4. \A i \in NewEnds : file[m].id <= file[i].id
  <2> SUFFICES ASSUME NEW i \in NewEnds PROVE file[m].id <= file[i].id
    OBVIOUS
  <2>1. m = i \/ m < i
    BY <1>1, <1>2
  <2>2. m \in Newlines /\ i \in Newlines
    BY <1>1
  <2>3. file[m].id \in Nat /\ file[i].id \in Nat
    BY <2>2, NewlineIds
  <2>4. CASE m < i
    BY <2>2, <2>3, <2>4, NewlineIds
  <2> QED
    BY <2>1, <2>3, <2>4
<1>5. file[m].id \in IdsBetween(offset, s) \cap IdsBetween(offset, t)
  BY <1>1, <1>2 DEF IdsBetween, NewEnds
<1> QED
  BY <1>3, <1>4, <1>5 DEF SameStart

\* What the gateway has or may get is in the file.
LEMMA KnownInFile ==
  ASSUME TypeOK, InOrder, AgentInv, NEW n, n = Len(file)
  PROVE  /\ \A b \in Known : b \subseteq IdsBetween(0, n)
         /\ Registered \subseteq IdsBetween(0, n)
<1>1. ASSUME NEW b \in Known PROVE b \subseteq IdsBetween(0, n)
  <2>1. IdsBetween(0, offset) \subseteq IdsBetween(0, n)
    BY NewlineIds DEF IdsBetween
  <2>2. \A t \in NewEnds : IdsBetween(offset, t) \subseteq IdsBetween(0, n)
    BY NewlineIds DEF IdsBetween, NewEnds
  <2> QED
    BY <2>1, <2>2 DEF AgentInv, Segments
<1> QED
  BY <1>1 DEF AgentInv, Recorded, Known

LEMMA InitAgent == Init => AgentInv
<1> SUFFICES ASSUME Init PROVE AgentInv
  OBVIOUS
<1>1. Newlines = {} /\ Registered = {} /\ Known = {}
  BY DEF Init, Newlines, Registered, Known
<1> QED
  BY <1>1 DEF Init, AgentInv, Segments, Pending, Recorded, NothingSkipped

LEMMA FlushAgent ==
  ASSUME TypeOK, TypeOK', InOrder, InOrder', AgentInv, Flush
  PROVE  AgentInv'
<1>0. PICK p, n : p = Head(buffer) /\ n = Len(file) + 1
  OBVIOUS
<1>1. p \in Piece /\ file' = Append(file, p)
  BY <1>0 DEF Flush, TypeOK
<1>2. /\ n \in Nat \ {0} /\ n - 1 = Len(file)
      /\ \A i \in 1 .. n - 1 : file'[i] = file[i]
      /\ Newlines \subseteq 1 .. n - 1
      /\ Newlines' \in {Newlines, Newlines \cup {n}}
      /\ n \in DOMAIN file'
  BY <1>0, <1>1, FileGrows
<1>3. UNCHANGED <<offset, saved, phase, batch, wire, seen, rows>>
  BY DEF Flush, agentVars, gatewayVars
<1>4. offset \in Nat /\ offset <= n - 1 /\ saved <= n - 1 /\ offset = saved
  BY <1>2, NewlineIds DEF AgentInv
<1>5. ASSUME NEW from, NEW to \in 0 .. n - 1 PROVE IdsBetween(from, to)' = IdsBetween(from, to)
  <2>1. {j \in Newlines' : from < j /\ j <= to} = {j \in Newlines : from < j /\ j <= to}
    BY <1>2
  <2>2. \A j \in {k \in Newlines : from < k /\ k <= to} : file'[j].id = file[j].id
    BY <1>2
  <2> QED
    BY <2>1, <2>2 DEF IdsBetween
<1>6. Known' = Known /\ Registered' = Registered /\ NewEnds \subseteq NewEnds' /\ NewEnds \subseteq 0 .. n - 1
  <2>1. Known' = Known /\ Registered' = Registered /\ NewEnds \subseteq NewEnds'
    BY <1>2, <1>3 DEF Known, Registered, NewEnds
  <2>2. NewEnds \subseteq Newlines /\ 1 .. n - 1 \subseteq 0 .. n - 1
    BY <1>2 DEF NewEnds
  <2> QED
    BY <1>2, <2>1, <2>2
<1>7. PICK o : o = offset
  OBVIOUS
<1>8. Segments'
  <2> SUFFICES ASSUME NEW b \in Known
               PROVE  b \subseteq IdsBetween(0, o)' \/ \E t \in NewEnds' : b = IdsBetween(o, t)'
    BY <1>3, <1>6, <1>7 DEF Segments
  <2>1. b \subseteq IdsBetween(0, o) \/ \E t \in NewEnds : b = IdsBetween(o, t)
    BY <1>7 DEF AgentInv, Segments
  <2>2. o \in 0 .. n - 1
    BY <1>2, <1>4, <1>7
  <2> QED
    BY <1>5, <1>6, <2>1, <2>2
<1>9. Pending'
  <2> SUFFICES ASSUME phase # "idle"
               PROVE  Pending'
    BY <1>3 DEF Pending
  <2>1. PICK e, d : e = batch.end /\ d = batch.ids
    OBVIOUS
  <2>2. e \in NewEnds /\ e \in 0 .. n - 1 /\ d = IdsBetween(o, e)
        /\ (\A b \in Known : b \subseteq IdsBetween(0, e))
        /\ (phase = "acked" => d \subseteq Registered)
    BY <1>6, <1>7, <2>1 DEF AgentInv, Pending
  <2>3. d = IdsBetween(o, e)' /\ IdsBetween(0, e)' = IdsBetween(0, e)
    BY <1>5, <2>2
  <2> QED
    BY <1>3, <1>6, <1>7, <2>1, <2>2, <2>3 DEF Pending
<1>10. NothingSkipped'
  <2>1. ASSUME n \in Newlines' PROVE file'[n].id \notin Registered
    <3> SUFFICES ASSUME file'[n].id \in Registered PROVE FALSE
      OBVIOUS
    <3>1. PICK i \in Newlines : file'[n].id = file[i].id
      BY KnownInFile DEF IdsBetween
    <3>2. i \in 1 .. n - 1 /\ i \in Newlines' /\ file'[i].id = file'[n].id
      BY <1>2, <3>1
    <3>3. DistinctIds'
      BY Distinct, PTL
    <3>4. i = n
      BY <2>1, <3>2, <3>3 DEF DistinctIds
    <3> QED
      BY <1>2, <3>2, <3>4
  <2>2. \A i, j \in Newlines' : i < j /\ file'[j].id \in Registered => file'[i].id \in Registered
    <3> SUFFICES ASSUME NEW i \in Newlines', NEW j \in Newlines', i < j, file'[j].id \in Registered
                 PROVE  file'[i].id \in Registered
      OBVIOUS
    <3>1. j \in Newlines /\ i \in Newlines
      BY <1>2, <2>1
    <3>2. file'[i] = file[i] /\ file'[j] = file[j]
      BY <1>2, <3>1
    <3> QED
      BY <3>1, <3>2 DEF AgentInv, NothingSkipped
  <2>3. \A i \in Newlines' : i <= saved \/ i <= offset => file'[i].id \in Registered
    <3> SUFFICES ASSUME NEW i \in Newlines', i <= offset
                 PROVE  file'[i].id \in Registered
      BY <1>4
    <3>1. i \in Newlines /\ file'[i] = file[i]
      BY <1>2, <1>4
    <3> QED
      BY <3>1 DEF AgentInv, NothingSkipped
  <2> QED
    BY <1>3, <1>6, <2>2, <2>3 DEF NothingSkipped
<1>11. Recorded' /\ offset' = saved' /\ \A b, c \in Known' : b \cap c # {} => SameStart(b, c)
  BY <1>3, <1>6 DEF AgentInv, Recorded
<1> QED
  BY <1>8, <1>9, <1>10, <1>11 DEF AgentInv, SameStart

LEMMA RegisterAgent ==
  ASSUME TypeOK, InOrder, AgentInv, Register
  PROVE  AgentInv'
<1>1. PICK end \in NewEnds : /\ LastEnd(end)
                             /\ batch' = [ids |-> IdsBetween(offset, end), end |-> end]
                             /\ wire' = wire \cup {IdsBetween(offset, end)}
  BY DEF Register
<1>2. UNCHANGED <<file, offset, saved, seen, rows>> /\ phase' = "waiting"
  BY DEF Register, captureVars, gatewayVars
<1>3. PICK d : d = IdsBetween(offset, end)
  OBVIOUS
<1>4. Known' = Known \cup {d} /\ Registered' = Registered /\ NewEnds' = NewEnds /\ Newlines' = Newlines
  BY <1>1, <1>2, <1>3 DEF Known, Registered, NewEnds, Newlines
<1>5. \A from, to : IdsBetween(from, to)' = IdsBetween(from, to)
  BY <1>2 DEF IdsBetween, Newlines
<1>6. Segments'
  BY <1>2, <1>3, <1>4 DEF AgentInv, Segments, IdsBetween
<1>7. \A b \in Known' : b \subseteq IdsBetween(0, end)
  <2>1. offset <= end /\ offset \in Nat /\ end \in Nat /\ \A t \in NewEnds : t <= end /\ t \in Nat
    BY <1>1, NewlineIds DEF LastEnd, NewEnds
  <2>2. IdsBetween(0, offset) \subseteq IdsBetween(0, end)
    BY <2>1, NewlineIds DEF IdsBetween
  <2>3. \A t \in NewEnds : IdsBetween(offset, t) \subseteq IdsBetween(0, end)
    BY <2>1, NewlineIds DEF IdsBetween
  <2> QED
    BY <1>3, <1>4, <2>2, <2>3 DEF AgentInv, Segments
<1>8. Pending'
  BY <1>1, <1>2, <1>4, <1>7 DEF Pending, IdsBetween
<1>9. ASSUME NEW b \in Known, b \cap d # {} PROVE SameStart(b, d) /\ SameStart(d, b)
  <2>1. ~(b \subseteq IdsBetween(0, offset))
    <3> SUFFICES ASSUME b \subseteq IdsBetween(0, offset) PROVE FALSE
      OBVIOUS
    <3>1. PICK x : x \in IdsBetween(0, offset) /\ x \in IdsBetween(offset, end)
      BY <1>3, <1>9
    <3>2. PICK i \in Newlines : x = file[i].id /\ i <= offset
      BY <3>1 DEF IdsBetween
    <3>3. offset < i
      BY <3>1, <3>2, InDelta
    <3> QED
      BY <3>2, <3>3, NewlineIds
  <2>2. PICK t \in NewEnds : b = IdsBetween(offset, t)
    BY <2>1 DEF AgentInv, Segments
  <2> QED
    BY <1>3, <2>2, DeltasStart
<1>10. SameStart(d, d)
  BY <1>3, DeltasStart
<1>11. \A b, c \in Known' : b \cap c # {} => SameStart(b, c)
  BY <1>4, <1>9, <1>10 DEF AgentInv
<1> QED
  BY <1>2, <1>4, <1>6, <1>8, <1>11 DEF AgentInv, Recorded, NothingSkipped, SameStart

LEMMA CommitAgent ==
  ASSUME TypeOK, InOrder, AgentInv, CommitOk
  PROVE  AgentInv'
<1>1. PICK e : e = batch.end
  OBVIOUS
<1>2. UNCHANGED <<file, wire, seen, rows>> /\ offset' = e /\ saved' = e /\ phase' = "idle"
  BY <1>1 DEF CommitOk, Committed, captureVars, gatewayVars
<1>3. e \in NewEnds /\ batch.ids = IdsBetween(offset, e) /\ batch.ids \subseteq Registered
      /\ \A b \in Known : b \subseteq IdsBetween(0, e)
  BY <1>1 DEF CommitOk, AgentInv, Pending
<1>4. Known' = Known /\ Registered' = Registered /\ Newlines' = Newlines
      /\ IdsBetween(0, e)' = IdsBetween(0, e)
  BY <1>2 DEF Known, Registered, Newlines, IdsBetween
<1>5. Segments' /\ Pending'
  BY <1>2, <1>3, <1>4 DEF Segments, Pending
<1>6. \A i \in Newlines : i <= e => file[i].id \in Registered
  <2> SUFFICES ASSUME NEW i \in Newlines, i <= e PROVE file[i].id \in Registered
    OBVIOUS
  <2>1. CASE i <= offset
    BY <2>1 DEF AgentInv, NothingSkipped
  <2>2. CASE offset < i
    BY <1>3, <2>2, InDelta
  <2> QED
    BY <2>1, <2>2, NewlineIds
<1>7. NothingSkipped'
  BY <1>2, <1>4, <1>6 DEF AgentInv, NothingSkipped
<1> QED
  BY <1>2, <1>4, <1>5, <1>7 DEF AgentInv, Recorded, SameStart

\* A failed POST or commit, and a crash, only forget.
LEMMA ForgetAgent ==
  ASSUME TypeOK, InOrder, AgentInv, PostFails \/ CommitFails \/ AgentCrash
  PROVE  AgentInv'
<1>1. UNCHANGED <<file, offset, saved, seen, rows>> /\ phase' = "idle" /\ wire' \subseteq wire
  BY DEF PostFails, CommitFails, AgentCrash, Loaded, AgentInv, captureVars, gatewayVars
<1>2. Known' \subseteq Known /\ Registered' = Registered /\ Newlines' = Newlines /\ NewEnds' = NewEnds
  BY <1>1 DEF Known, Registered, Newlines, NewEnds
<1>3. Segments' /\ Pending'
  BY <1>1, <1>2 DEF AgentInv, Segments, Pending, IdsBetween
<1>4. NothingSkipped'
  BY <1>1, <1>2 DEF AgentInv, NothingSkipped
<1> QED
  BY <1>1, <1>2, <1>3, <1>4 DEF AgentInv, Recorded, SameStart

\* What the gateway has grows by the rollouts of the batch.
LEMMA TakesRegisters ==
  ASSUME TypeOK, AgentInv, NEW ids \in SUBSET Rollouts, GatewayTakes(ids)
  PROVE  Registered' = Registered \cup ids /\ Known' = Known
<1>1. rows \in [Rollouts -> Nat]
  BY DEF TypeOK
<1>2. \A r \in Rollouts : rows'[r] = IF r \in ids THEN rows[r] + RecordBatch(ids) ELSE rows[r]
  BY DEF GatewayTakes
<1>3. ids \in seen => ids \subseteq Registered
  BY DEF AgentInv, Recorded
<1>4. ASSUME NEW r \in Rollouts PROVE rows'[r] > 0 <=> rows[r] > 0 \/ r \in ids
  <2>1. CASE ids \in seen
    BY <1>1, <1>2, <1>3, <2>1 DEF RecordBatch, Registered
  <2>2. CASE ids \notin seen
    BY <1>1, <1>2, <2>2 DEF RecordBatch
  <2> QED
    BY <2>1, <2>2
<1>5. Known' = Known
  BY DEF GatewayTakes, Known
<1> QED
  BY <1>4, <1>5 DEF Registered

LEMMA TakesAgent ==
  ASSUME TypeOK, InOrder, AgentInv, NEW ids \in SUBSET Rollouts, GatewayTakes(ids)
  PROVE  AgentInv'
<1>1. UNCHANGED <<file, offset, saved, batch>> /\ ids \in Known /\ seen' = seen \cup {ids}
      /\ phase' = IF phase = "waiting" /\ batch.ids = ids THEN "acked" ELSE phase
  BY DEF GatewayTakes, captureVars, Known
<1>2. Registered' = Registered \cup ids /\ Known' = Known
  BY TakesRegisters
<1>3. Newlines' = Newlines /\ NewEnds' = NewEnds
  BY <1>1 DEF Newlines, NewEnds
<1>4. Segments'
  BY <1>1, <1>2, <1>3 DEF AgentInv, Segments, IdsBetween
<1>5. Pending'
  BY <1>1, <1>2, <1>3 DEF AgentInv, Pending, IdsBetween
<1>6. Recorded'
  BY <1>1, <1>2 DEF AgentInv, Recorded
<1>7. NothingSkipped'
  <2>1. \A i \in Newlines : i <= saved \/ i <= offset => file[i].id \in Registered
    BY DEF AgentInv, NothingSkipped
  <2>2. ASSUME NEW i \in Newlines, NEW j \in Newlines, i < j, file[j].id \in Registered \cup ids
        PROVE  file[i].id \in Registered \cup ids
    <3>1. CASE file[j].id \in Registered
      BY <2>2, <3>1 DEF AgentInv, NothingSkipped
    <3>2. CASE file[j].id \in ids /\ ids \subseteq IdsBetween(0, offset)
      <4>1. j <= offset
        BY <3>2, InDelta
      <4>2. i <= offset
        BY <2>2, <4>1, NewlineIds
      <4> QED
        BY <2>1, <4>2
    <3>3. CASE file[j].id \in ids /\ \E t \in NewEnds : ids = IdsBetween(offset, t)
      <4>1. PICK t \in NewEnds : ids = IdsBetween(offset, t)
        BY <3>3
      <4>2. j <= t
        BY <3>3, <4>1, InDelta
      <4>3. i <= t /\ (i <= offset \/ offset < i)
        BY <2>2, <4>2, NewlineIds DEF NewEnds
      <4> QED
        BY <2>1, <4>1, <4>3, InDelta
    <3> QED
      BY <1>1, <2>2, <3>1, <3>2, <3>3 DEF AgentInv, Segments
  <2> QED
    BY <1>1, <1>2, <1>3, <2>1, <2>2 DEF NothingSkipped
<1> QED
  BY <1>1, <1>2, <1>4, <1>5, <1>6, <1>7 DEF AgentInv, SameStart

LEMMA AgentStep ==
  ASSUME TypeOK, TypeOK', InOrder, InOrder', AgentInv, [Next]_vars
  PROVE  AgentInv'
<1>1. CASE LogStep \/ DrainNext \/ Put \/ AppendOk \/ AppendFails \/ CaptureRestart \/ UNCHANGED vars
  <2>1. UNCHANGED <<file, offset, saved, phase, batch, wire, seen, rows>>
    BY <1>1 DEF LogStep, DrainNext, Put, AppendOk, AppendFails, CaptureRestart, agentVars, gatewayVars,
                captureVars, vars
  <2>2. UNCHANGED <<Known, Registered, Newlines, NewEnds>>
    BY <2>1 DEF Known, Registered, Newlines, NewEnds
  <2> QED
    BY <2>1, <2>2 DEF AgentInv, Segments, Pending, Recorded, NothingSkipped, IdsBetween, SameStart
<1>2. ASSUME NEW ids \in SUBSET Rollouts, GatewayTakes(ids) PROVE AgentInv'
  BY <1>2, TakesAgent
<1> QED
  BY <1>1, <1>2, FlushAgent, RegisterAgent, CommitAgent, ForgetAgent DEF Next, Drain, Agent, Gateway

LEMMA AgentHolds == Spec => []AgentInv
<1>1. TypeOK /\ TypeOK' /\ CaptureInv /\ CaptureInv' /\ AgentInv /\ [Next]_vars => AgentInv'
  BY AgentStep DEF CaptureInv
<1> QED
  BY InitAgent, TypeCorrect, CaptureHolds, <1>1, PTL DEF Spec

\* The gateway has the first lines of the file, and the checkpoint never runs
\* ahead of them.
THEOREM SkipsNothing == Spec => []NothingSkipped
BY AgentHolds, PTL DEF AgentInv

\* What has been committed is never sent again: batches that overlap begin with
\* the same rollout.
THEOREM ResendsOnlyUncommitted == Spec => []OnlyUncommittedResent
<1>1. AgentInv => OnlyUncommittedResent
  BY DEF AgentInv, Known, OnlyUncommittedResent
<1> QED
  BY AgentHolds, <1>1, PTL

-----------------------------------------------------------------------------
(***************************************************************************)
(* The abstract specification.                                             *)
(***************************************************************************)

LEMMA FlushRecords ==
  ASSUME TypeOK, TypeOK', InOrder, InOrder', AgentInv, Flush
  PROVE  [Store!Next]_(Store!vars)
<1>0. PICK p, n : p = Head(buffer) /\ n = Len(file) + 1
  OBVIOUS
<1>1. p \in Piece /\ p.id \in Rollouts /\ file' = Append(file, p) /\ UNCHANGED <<saved, rows>>
  <2>1. p \in Piece
    BY <1>0 DEF Flush, TypeOK
  <2> QED
    BY <1>0, <2>1 DEF Flush, agentVars, gatewayVars, Piece
<1>2. /\ n \in Nat \ {0} /\ n - 1 = Len(file)
      /\ file'[n] = p
      /\ \A i \in 1 .. n - 1 : file'[i] = file[i]
      /\ Newlines \subseteq 1 .. n - 1
      /\ Newlines' = IF p.last THEN Newlines \cup {n} ELSE Newlines
  BY <1>0, <1>1, FileGrows
<1>3. saved \in Nat /\ saved <= n - 1
  BY <1>2, NewlineIds DEF AgentInv
<1>4. n \notin Newlines /\ n \notin 1 .. n - 1 /\ ~(n <= saved)
  BY <1>2, <1>3
<1>5. \A i \in Newlines : file'[i].id = file[i].id
  BY <1>2
<1>6. Registered' = Registered
  BY <1>1 DEF Registered
<1>7. {file'[i].id : i \in {j \in Newlines' : j <= saved'}} = {file[i].id : i \in {j \in Newlines : j <= saved}}
  BY <1>1, <1>2, <1>4, <1>5
<1>8. CASE p.last
  <2>1. {file'[i].id : i \in Newlines'} = {file[i].id : i \in Newlines} \cup {p.id}
    BY <1>2, <1>5, <1>8
  <2>2. DistinctIds'
    BY Distinct, PTL
  <2>3. p.id \notin {file[i].id : i \in Newlines}
    BY <1>2, <1>4, <1>5, <1>8, <2>2 DEF DistinctIds
  <2>4. Store!Record(p.id)
    BY <1>6, <1>7, <2>1, <2>3 DEF Store!Record
  <2> QED
    BY <1>1, <2>4 DEF Store!Next
<1>9. CASE ~p.last
  <2>1. {file'[i].id : i \in Newlines'} = {file[i].id : i \in Newlines}
    BY <1>2, <1>5, <1>9
  <2> QED
    BY <1>6, <1>7, <2>1 DEF Store!vars
<1> QED
  BY <1>8, <1>9

LEMMA TakesReceives ==
  ASSUME TypeOK, InOrder, AgentInv, NEW ids \in SUBSET Rollouts, GatewayTakes(ids)
  PROVE  Store!Next
<1>1. Registered' = Registered \cup ids /\ UNCHANGED <<file, saved>> /\ ids \in Known
  BY TakesRegisters DEF GatewayTakes, captureVars, Known
<1>2. ids \subseteq {file[i].id : i \in Newlines}
  BY <1>1, KnownInFile DEF IdsBetween
<1>3. Store!Receive(ids)
  BY <1>1, <1>2 DEF Store!Receive, Newlines
<1> QED
  BY <1>3 DEF Store!Next

LEMMA CommitConfirms ==
  ASSUME TypeOK, InOrder, AgentInv, AgentInv', CommitOk
  PROVE  Store!Next
<1>1. PICK e, S : e = batch.end /\ S = {file[i].id : i \in {j \in Newlines : j <= e}}
  OBVIOUS
<1>2. UNCHANGED <<file, rows>> /\ saved' = e
  BY <1>1 DEF CommitOk, Committed, captureVars, gatewayVars
<1>3. Newlines' = Newlines /\ Registered' = Registered
  BY <1>2 DEF Newlines, Registered
<1>4. saved <= e /\ saved \in Nat /\ e \in Nat
  BY <1>1, NewlineIds DEF CommitOk, AgentInv, Pending, NewEnds
<1>5. S \subseteq Registered
  BY <1>1, <1>2, <1>3 DEF AgentInv, NothingSkipped
<1>6. {file[i].id : i \in {j \in Newlines : j <= saved}} \subseteq S
  BY <1>1, <1>4, NewlineIds
<1>7. {file'[i].id : i \in {j \in Newlines' : j <= saved'}} = {file[i].id : i \in {j \in Newlines : j <= saved}} \cup S
  BY <1>1, <1>2, <1>3, <1>6
<1>8. {file'[i].id : i \in Newlines'} = {file[i].id : i \in Newlines}
  BY <1>2, <1>3
<1>9. Store!Confirm(S)
  BY <1>3, <1>5, <1>7, <1>8 DEF Store!Confirm
<1>10. S \in SUBSET Rollouts
  BY <1>5 DEF Registered
<1> QED
  BY <1>9, <1>10 DEF Store!Next

LEMMA StepRefines ==
  ASSUME TypeOK, TypeOK', InOrder, InOrder', AgentInv, AgentInv', [Next]_vars
  PROVE  [Store!Next]_(Store!vars)
<1>1. CASE \/ LogStep \/ DrainNext \/ Put \/ AppendOk \/ AppendFails \/ CaptureRestart
           \/ Register \/ PostFails \/ CommitFails \/ AgentCrash \/ UNCHANGED vars
  <2>1. UNCHANGED <<file, saved, rows>>
    BY <1>1 DEF LogStep, DrainNext, Put, AppendOk, AppendFails, CaptureRestart, Register, PostFails,
                CommitFails, AgentCrash, agentVars, gatewayVars, captureVars, vars
  <2>2. UNCHANGED <<Newlines, Registered>>
    BY <2>1 DEF Newlines, Registered
  <2> QED
    BY <2>1, <2>2 DEF Store!vars
<1>2. ASSUME NEW ids \in SUBSET Rollouts, GatewayTakes(ids) PROVE Store!Next
  BY <1>2, TakesReceives
<1> QED
  BY <1>1, <1>2, FlushRecords, CommitConfirms DEF Next, Drain, Agent, Gateway

\* The checkpointed registration implements StoreForward: what the checkpoint
\* has passed the gateway has received, and nothing is taken back.
THEOREM Implements == Spec => ImplementsStoreForward
<1>1. Init => Store!Init
  BY DEF Init, Store!Init, Newlines, Registered
<1>2. /\ TypeOK /\ TypeOK' /\ CaptureInv /\ CaptureInv' /\ AgentInv /\ AgentInv' /\ [Next]_vars
      => [Store!Next]_(Store!vars)
  BY StepRefines DEF CaptureInv
<1> QED
  BY <1>1, <1>2, TypeCorrect, CaptureHolds, AgentHolds, PTL
  DEF Spec, ImplementsStoreForward, Store!Spec
=============================================================================
