--------------------------- MODULE CurationProofs ---------------------------
(***************************************************************************)
(* Proofs about Curation: what its run checks on three rollouts and a      *)
(* handful of rows, for any rollouts, rows, events, budgets, queues and    *)
(* specifications.                                                         *)
(***************************************************************************)
EXTENDS Curation, ListsProofs

-----------------------------------------------------------------------------
(***************************************************************************)
(* The lineage store: both directions agree.                               *)
(***************************************************************************)

\* A commit is named after what it pins.
Named == \A c \in commits : c.id = ContentHash(c.slice.spec, c.slice.items, c.slice.episodes)

\* The store has its three maps, and knows the episodes of a commit by the
\* commit's name.
Stored ==
    /\ DOMAIN lineage = {"episodes", "trained", "reverse"}
    /\ DOMAIN lineage.trained = Policies
    /\ \A p \in Policies : lineage.trained[p] \subseteq {c.id : c \in commits}
    /\ \A id \in DOMAIN lineage.episodes :
          \E c \in commits : c.id = id /\ lineage.episodes[id] = c.slice.episodes

LineageInv == Named /\ Stored /\ LineageAgrees

\* The name of a commit tells its episodes.
LEMMA SameName ==
  ASSUME Named, NEW c \in commits, NEW d \in commits, c.id = d.id
  PROVE  c.slice.episodes = d.slice.episodes
BY DEF Named, ContentHash

\* Linking back adds the policies to each episode of the commit and changes
\* nothing else.
LEMMA LinkedBack ==
  ASSUME NEW store, DOMAIN store = {"episodes", "trained", "reverse"}, NEW policies, NEW id,
         NEW after, after = LinkReverse(store, policies, id)
  PROVE  /\ DOMAIN after = {"episodes", "trained", "reverse"}
         /\ after.episodes = store.episodes /\ after.trained = store.trained
         /\ \A e : \A p : p \in PoliciesOf(after, e) <=>
                       p \in PoliciesOf(store, e) \/ (p \in policies /\ e \in EpisodesOf(store, id))
<1>1. PICK episodes : episodes = IF policies = {} THEN {} ELSE EpisodesOf(store, id)
  OBVIOUS
<1>2. after = [store EXCEPT !.reverse = [e \in DOMAIN store.reverse \cup episodes |->
                  PoliciesOf(store, e) \cup (IF e \in episodes THEN policies ELSE {})]]
  BY <1>1 DEF LinkReverse
<1>3. /\ DOMAIN after = {"episodes", "trained", "reverse"}
      /\ after.episodes = store.episodes /\ after.trained = store.trained
      /\ after.reverse = [e \in DOMAIN store.reverse \cup episodes |->
                             PoliciesOf(store, e) \cup (IF e \in episodes THEN policies ELSE {})]
  BY <1>2
<1>4. ASSUME NEW e, NEW p
      PROVE  p \in PoliciesOf(after, e) <=>
                 p \in PoliciesOf(store, e) \/ (p \in policies /\ e \in EpisodesOf(store, id))
  <2>1. CASE e \in episodes
    BY <1>1, <1>3, <2>1 DEF PoliciesOf
  <2>2. CASE e \notin episodes
    <3>1. p \notin policies \/ e \notin EpisodesOf(store, id)
      BY <1>1, <2>2
    <3>2. PoliciesOf(after, e) = PoliciesOf(store, e)
      BY <1>3, <2>2 DEF PoliciesOf
    <3> QED
      BY <3>1, <3>2
  <2> QED
    BY <2>1, <2>2
<1> QED
  BY <1>3, <1>4

\* A store that links its policies and its episodes both ways.
Linked(store) ==
    \A p \in Policies : \A e :
        p \in PoliciesOf(store, e) <=> \E id \in store.trained[p] : e \in EpisodesOf(store, id)

LEMMA LinkedAgrees == LineageAgrees <=> Linked(lineage)
<1>1. ASSUME NEW p, NEW e
      PROVE  /\ e \in EpisodesForPolicy(p) <=> \E id \in lineage.trained[p] : e \in EpisodesOf(lineage, id)
             /\ e \in {x \in DOMAIN lineage.reverse : p \in PoliciesForEpisode(x)} <=> p \in PoliciesOf(lineage, e)
  BY DEF EpisodesForPolicy, PoliciesForEpisode, PoliciesOf
<1>2. LineageAgrees => Linked(lineage)
  BY <1>1 DEF LineageAgrees, Linked
<1>3. ASSUME Linked(lineage), NEW p \in Policies
      PROVE  EpisodesForPolicy(p) = {x \in DOMAIN lineage.reverse : p \in PoliciesForEpisode(x)}
  BY <1>1, <1>3 DEF Linked
<1> QED
  BY <1>2, <1>3 DEF LineageAgrees

\* A commit may be recorded before or after the runs that trained from it.
LEMMA RecordCommitLinks ==
  ASSUME LineageInv, NEW c \in commits, lineage' = RecordedCommit(lineage, c), UNCHANGED commits
  PROVE  LineageInv'
<1>1. PICK store : store = [lineage EXCEPT !.episodes = [id \in DOMAIN lineage.episodes \cup {c.id} |->
                               IF id = c.id THEN c.slice.episodes ELSE lineage.episodes[id]]]
  OBVIOUS
<1>2. /\ DOMAIN store = {"episodes", "trained", "reverse"}
      /\ store.trained = lineage.trained /\ store.reverse = lineage.reverse
      /\ store.episodes = [id \in DOMAIN lineage.episodes \cup {c.id} |->
                               IF id = c.id THEN c.slice.episodes ELSE lineage.episodes[id]]
  BY <1>1 DEF LineageInv, Stored
<1>3. PICK policies : policies = {p \in Policies : c.id \in store.trained[p]}
  OBVIOUS
<1>4. lineage' = LinkReverse(store, policies, c.id)
  BY <1>1, <1>3 DEF RecordedCommit
<1>5. /\ DOMAIN lineage' = {"episodes", "trained", "reverse"}
      /\ lineage'.episodes = store.episodes /\ lineage'.trained = store.trained
      /\ \A e : \A p : p \in PoliciesOf(lineage', e) <=>
                    p \in PoliciesOf(store, e) \/ (p \in policies /\ e \in EpisodesOf(store, c.id))
  BY <1>2, <1>4, LinkedBack
<1>6. Named'
  BY DEF LineageInv, Named
<1>7. Stored'
  <2>1. DOMAIN lineage'.trained = Policies /\ \A p \in Policies : lineage'.trained[p] \subseteq {d.id : d \in commits'}
    BY <1>2, <1>5 DEF LineageInv, Stored
  <2>2. ASSUME NEW id \in DOMAIN lineage'.episodes
        PROVE  \E d \in commits' : d.id = id /\ lineage'.episodes[id] = d.slice.episodes
    <3>1. lineage'.episodes[id] = IF id = c.id THEN c.slice.episodes ELSE lineage.episodes[id]
      BY <1>2, <1>5, <2>2
    <3>2. id = c.id \/ id \in DOMAIN lineage.episodes
      BY <1>2, <1>5, <2>2
    <3> QED
      BY <3>1, <3>2 DEF LineageInv, Stored
  <2> QED
    BY <1>5, <2>1, <2>2 DEF Stored
<1>8. \A id : id # c.id => EpisodesOf(lineage', id) = EpisodesOf(lineage, id)
  BY <1>2, <1>5 DEF EpisodesOf
<1>9. EpisodesOf(lineage', c.id) = c.slice.episodes /\ EpisodesOf(store, c.id) = c.slice.episodes
  BY <1>2, <1>5 DEF EpisodesOf
<1>10. EpisodesOf(lineage, c.id) \subseteq c.slice.episodes
  BY SameName DEF EpisodesOf, LineageInv, Stored
<1>11. Linked(lineage)
  BY LinkedAgrees DEF LineageInv
<1>12. ASSUME NEW p \in Policies, NEW e
       PROVE  p \in PoliciesOf(lineage', e) <=> \E id \in lineage'.trained[p] : e \in EpisodesOf(lineage', id)
  <2>1. p \in PoliciesOf(store, e) <=> \E id \in lineage.trained[p] : e \in EpisodesOf(lineage, id)
    <3>1. PoliciesOf(store, e) = PoliciesOf(lineage, e)
      BY <1>2 DEF PoliciesOf
    <3> QED
      BY <1>11, <3>1 DEF Linked
  <2>2. p \in policies <=> c.id \in lineage.trained[p]
    BY <1>2, <1>3
  <2>3. lineage'.trained[p] = lineage.trained[p]
    BY <1>2, <1>5
  <2>4. p \in PoliciesOf(lineage', e) <=>
            (\E id \in lineage.trained[p] : e \in EpisodesOf(lineage, id))
            \/ (c.id \in lineage.trained[p] /\ e \in c.slice.episodes)
    BY <1>5, <1>9, <2>1, <2>2
  <2> QED
    BY <1>8, <1>9, <1>10, <2>3, <2>4
<1>13. Linked(lineage')
  BY <1>12 DEF Linked
<1>14. LineageAgrees'
  <2>1. LineageAgrees' <=> Linked(lineage)'
    BY LinkedAgrees, PTL
  <2> QED
    BY <1>13, <2>1
<1> QED
  BY <1>6, <1>7, <1>14 DEF LineageInv

LEMMA RecordTrainedFromLinks ==
  ASSUME LineageInv, NEW c \in commits, NEW p \in Policies, UNCHANGED commits,
         lineage' = LinkReverse([lineage EXCEPT !.trained[p] = @ \cup {c.id}], {p}, c.id)
  PROVE  LineageInv'
<1>1. PICK store : store = [lineage EXCEPT !.trained[p] = @ \cup {c.id}]
  OBVIOUS
<1>2. /\ DOMAIN store = {"episodes", "trained", "reverse"}
      /\ store.episodes = lineage.episodes /\ store.reverse = lineage.reverse
      /\ store.trained = [lineage.trained EXCEPT ![p] = @ \cup {c.id}]
  BY <1>1 DEF LineageInv, Stored
<1>3. /\ DOMAIN lineage' = {"episodes", "trained", "reverse"}
      /\ lineage'.episodes = store.episodes /\ lineage'.trained = store.trained
      /\ \A e : \A q : q \in PoliciesOf(lineage', e) <=>
                    q \in PoliciesOf(store, e) \/ (q = p /\ e \in EpisodesOf(store, c.id))
  <2>1. PICK policies : policies = {p}
    OBVIOUS
  <2>2. lineage' = LinkReverse(store, policies, c.id)
    BY <1>1, <2>1
  <2>3. DOMAIN store = {"episodes", "trained", "reverse"}
    BY <1>2
  <2>4. PICK after : after = lineage'
    OBVIOUS
  <2>5. after = LinkReverse(store, policies, c.id)
    BY <2>2, <2>4
  <2>6. /\ DOMAIN after = {"episodes", "trained", "reverse"}
        /\ after.episodes = store.episodes /\ after.trained = store.trained
        /\ \A e : \A q : q \in PoliciesOf(after, e) <=>
                      q \in PoliciesOf(store, e) \/ (q \in policies /\ e \in EpisodesOf(store, c.id))
    BY <2>3, <2>5, LinkedBack
  <2> QED
    BY <2>1, <2>4, <2>6
<1>4. DOMAIN lineage.trained = Policies
  BY DEF LineageInv, Stored
<1>5. \A q \in Policies : lineage'.trained[q] = lineage.trained[q] \cup (IF q = p THEN {c.id} ELSE {})
  BY <1>2, <1>3, <1>4
<1>6. Named'
  BY DEF LineageInv, Named
<1>7. Stored'
  <2>1. PICK ids : ids = {d.id : d \in commits}
    OBVIOUS
  <2>2. c.id \in ids /\ \A q \in Policies : lineage.trained[q] \subseteq ids
    BY <2>1 DEF LineageInv, Stored
  <2>3. ids = {d.id : d \in commits'}
    BY <2>1
  <2>4. \A q \in Policies : lineage'.trained[q] \subseteq {d.id : d \in commits'}
    BY <1>5, <2>2, <2>3
  <2>5. DOMAIN lineage'.trained = Policies
    BY <1>2, <1>3, <1>4
  <2>6. lineage'.episodes = lineage.episodes
    BY <1>2, <1>3
  <2>7. \A id \in DOMAIN lineage'.episodes :
           \E d \in commits' : d.id = id /\ lineage'.episodes[id] = d.slice.episodes
    BY <2>6 DEF LineageInv, Stored
  <2>8. DOMAIN lineage' = {"episodes", "trained", "reverse"}
    BY <1>3
  <2> QED
    BY ONLY <2>4, <2>5, <2>7, <2>8 DEF Stored
<1>8. Linked(lineage)
  BY LinkedAgrees DEF LineageInv
<1>9. ASSUME NEW q \in Policies, NEW e
      PROVE  q \in PoliciesOf(lineage', e) <=> \E id \in lineage'.trained[q] : e \in EpisodesOf(lineage', id)
  <2>1. \A id : EpisodesOf(lineage', id) = EpisodesOf(lineage, id) /\ EpisodesOf(store, id) = EpisodesOf(lineage, id)
    BY <1>2, <1>3 DEF EpisodesOf
  <2>2. PoliciesOf(store, e) = PoliciesOf(lineage, e)
    BY <1>2 DEF PoliciesOf
  <2>3. q \in PoliciesOf(lineage, e) <=> \E id \in lineage.trained[q] : e \in EpisodesOf(lineage, id)
    BY <1>8 DEF Linked
  <2>4. q \in PoliciesOf(lineage', e) <=>
            (\E id \in lineage.trained[q] : e \in EpisodesOf(lineage, id))
            \/ (q = p /\ e \in EpisodesOf(lineage, c.id))
    BY <1>3, <2>1, <2>2, <2>3
  <2>5. \A id : id \in lineage'.trained[q] <=> id \in lineage.trained[q] \/ (q = p /\ id = c.id)
    BY <1>5
  <2> QED
    BY <2>1, <2>4, <2>5
<1>10. Linked(lineage')
  BY <1>9 DEF Linked
<1>11. LineageAgrees'
  <2>1. LineageAgrees' <=> Linked(lineage)'
    BY LinkedAgrees, PTL
  <2> QED
    BY <1>10, <2>1
<1> QED
  BY <1>6, <1>7, <1>11 DEF LineageInv

LEMMA CompileNames ==
  ASSUME LineageInv, Compile
  PROVE  LineageInv'
<1>1. PICK d \in Specs, rollouts \in Inputs :
         commits' = commits \cup {Seal(CompileSlice(DictToSliceSpec(d), rollouts), rollouts)}
  BY DEF Compile
<1>2. PICK slice : slice = CompileSlice(DictToSliceSpec(d), rollouts)
  OBVIOUS
<1>3. slice.hash = ContentHash(slice.spec, slice.items, slice.episodes)
  BY <1>2 DEF CompileSlice, ResolvedSlice
<1>4. Seal(slice, rollouts).id = ContentHash(slice.spec, slice.items, slice.episodes)
      /\ Seal(slice, rollouts).slice = slice
  BY <1>3 DEF Seal
<1>5. Named'
  BY <1>1, <1>2, <1>4 DEF LineageInv, Named
<1>6. lineage' = lineage
  BY DEF Compile
<1>7. Stored'
  BY <1>1, <1>6 DEF LineageInv, Stored
<1>8. LineageAgrees'
  BY <1>6 DEF LineageInv, LineageAgrees, EpisodesForPolicy, PoliciesForEpisode
<1> QED
  BY <1>5, <1>7, <1>8 DEF LineageInv

LEMMA LineageStep ==
  ASSUME LineageInv, [Next]_vars
  PROVE  LineageInv'
<1>1. CASE UNCHANGED <<commits, lineage>>
  BY <1>1 DEF LineageInv, Named, Stored, LineageAgrees, EpisodesForPolicy, PoliciesForEpisode
<1>2. CASE Compile
  BY <1>2, CompileNames
<1>3. CASE RecordCommit
  BY <1>3, RecordCommitLinks DEF RecordCommit
<1>4. CASE RecordTrainedFrom
  BY <1>4, RecordTrainedFromLinks DEF RecordTrainedFrom
<1>5. UNCHANGED <<commits, lineage>> \/ Compile \/ RecordCommit \/ RecordTrainedFrom
  BY DEF Next, vars, datasetVars, Attribute, Label, Retract, Appended
<1> QED
  BY <1>1, <1>2, <1>3, <1>4, <1>5

LEMMA LineageStart == Init => LineageInv
BY DEF Init, DatasetInit, LineageInv, Named, Stored, LineageAgrees, EpisodesForPolicy, PoliciesForEpisode, EpisodesOf

\* Both directions of the lineage agree, in whatever order, and however often,
\* commits and training runs are recorded (lineage.rs).
THEOREM LineageSafe == Spec => []LineageAgrees
<1>1. LineageInv => LineageAgrees
  BY DEF LineageInv
<1> QED
  BY <1>1, LineageStart, LineageStep, PTL DEF Spec

-----------------------------------------------------------------------------
(***************************************************************************)
(* Events: every detector gives events that can be ranked.                 *)
(***************************************************************************)

LEMMA EventParts ==
  ASSUME NEW e, IsEvent(e)
  PROVE  e.priority \in Int /\ e.rollout \in Nat
BY DEF IsEvent, NaN, One

\* What is asked for or dropped has the tier and the priority of its event.
LEMMA Reported ==
  ASSUME NEW e
  PROVE  /\ IsSafety(Request(e)) <=> IsSafety(e)
         /\ IsSafety(DroppedEvent(e)) <=> IsSafety(e)
         /\ Request(e).priority = e.priority /\ DroppedEvent(e).priority = e.priority
BY DEF IsSafety, Request, DroppedEvent

LEMMA ReflexEvents ==
  ASSUME NEW r, r.id \in Nat, NEW paired, NEW e \in Reflex(r, paired)
  PROVE  IsEvent(e)
BY DEF Reflex, Event, IsEvent, NaN, One

LEMMA PreFilterEvents ==
  ASSUME NEW r, r.id \in Nat, r.confidence # None => r.confidence \in Int, NEW e \in PreFilter(r)
  PROVE  IsEvent(e)
<1>1. PICK c \in Int :
        e = Event(r.id, None, "prefilter.low_confidence", "pre_filter", Shipped, "perception",
                  IF c = NaN THEN NaN ELSE Clamp(One - (One * c) \div LowConfidence, 0, One))
  BY DEF PreFilter
<1>2. One - (One * c) \div LowConfidence \in Int
  BY DEF One, LowConfidence
<1>3. (IF c = NaN THEN NaN ELSE Clamp(One - (One * c) \div LowConfidence, 0, One)) \in 0..NaN
  BY <1>2 DEF Clamp, NaN, One
<1> QED
  BY <1>1, <1>3 DEF Event, IsEvent

LEMMA DetectedEvents ==
  ASSUME NEW batch \in Batches
  PROVE  IsList(Detected(batch)) /\ \A e \in Range(Detected(batch)) : IsEvent(e)
<1>1. PICK rollouts : rollouts = batch.rollouts
  OBVIOUS
<1>2. /\ IsList(rollouts)
      /\ \A r \in Range(rollouts) : r.id \in Nat /\ (r.confidence # None => r.confidence \in Int)
  BY <1>1, EventsAssumption
<1>3. PICK n : n = Len(rollouts)
  OBVIOUS
<1>4. n \in Nat /\ DOMAIN rollouts = 1..n /\ \A i \in 1..n : rollouts[i] \in Range(rollouts)
  BY <1>2, <1>3, ListDomain
<1>5. PICK found : found = [k \in 1..2 * n |->
            LET r == rollouts[(k + 1) \div 2] IN
            IF k % 2 = 1 THEN Reflex(r, Paired(r, batch.outcomes)) ELSE PreFilter(r)]
  OBVIOUS
<1>6. ASSUME NEW k \in 1..2 * n, NEW e \in found[k] PROVE IsEvent(e)
  <2>1. PICK r : r = rollouts[(k + 1) \div 2]
    OBVIOUS
  <2>2. (k + 1) \div 2 \in 1..n
    BY <1>4
  <2>3. r \in Range(rollouts)
    BY <1>4, <2>1, <2>2
  <2>4. e \in Reflex(r, Paired(r, batch.outcomes)) \/ e \in PreFilter(r)
    BY <1>5, <1>6, <2>1
  <2> QED
    BY <1>2, <2>3, <2>4, ReflexEvents, PreFilterEvents
<1>7. PICK keep, some : keep = {k \in DOMAIN found : found[k] # {}} /\ some = Picked(found, keep)
  OBVIOUS
<1>8. IsFiniteSet(keep) /\ keep \subseteq Int /\ keep \subseteq 1..2 * n
  <2>1. keep \subseteq 1..2 * n
    BY <1>5, <1>7
  <2>2. 1 \in Int /\ 2 * n \in Int
    BY <1>4
  <2>3. IsFiniteSet(1..2 * n)
    BY <2>2, FS_Interval
  <2>4. IsFiniteSet(keep)
    BY <2>1, <2>3, FS_Subset
  <2>5. 1..2 * n \subseteq Int
    OBVIOUS
  <2> QED
    BY <2>1, <2>4, <2>5
<1>9. PICK at : Lists(some, found, keep, at)
  BY <1>7, <1>8, PickedLists
<1>10. PICK m : m = Cardinality(keep) /\ m \in Nat
  BY <1>9 DEF Lists
<1>11. DOMAIN some = 1..m /\ \A k \in 1..m : some[k] \in {found[i] : i \in keep}
  BY <1>9, <1>10 DEF Lists
<1>12. PICK all : all = [k \in DOMAIN some |-> CHOOSE e \in some[k] : TRUE]
  OBVIOUS
<1>13. \A k \in 1..m : IsEvent(all[k])
  <2> TAKE k \in 1..m
  <2>1. PICK i \in keep : some[k] = found[i]
    BY <1>11
  <2>2. found[i] # {}
    BY <1>7
  <2>3. all[k] \in found[i]
    BY <1>11, <1>12, <2>1, <2>2
  <2> QED
    BY <1>6, <1>8, <2>3
<1>14. all = Detected(batch)
  BY <1>1, <1>3, <1>5, <1>7, <1>12 DEF Detected
<1>15. IsList(all) /\ DOMAIN all = 1..m
  <2>1. DOMAIN all = 1..m /\ all \in [1..m -> Range(all)]
    BY <1>11, <1>12 DEF Range
  <2>2. all \in Seq(Range(all))
    BY <1>10, <2>1, ListOf
  <2> QED
    BY <2>1, <2>2 DEF IsList
<1>16. \A e \in Range(all) : IsEvent(e)
  BY <1>13, <1>15 DEF Range
<1> QED
  BY <1>14, <1>15, <1>16

\* What a call of the broker is given.
LEMMA CallEvents ==
  ASSUME NEW batch \in Batches, NEW extra \in Flags
  PROVE  /\ IsList(Detected(batch) \o extra)
         /\ \A e \in Range(Detected(batch) \o extra) : IsEvent(e)
<1>1. IsList(extra) /\ \A e \in Range(extra) : IsEvent(e)
  BY EventsAssumption
<1> QED
  BY <1>1, DetectedEvents, ListConcat

-----------------------------------------------------------------------------
(***************************************************************************)
(* The review queue holds the best of what was offered.                    *)
(***************************************************************************)

LEMMA ReviewPriorityInt ==
  ASSUME NEW e, IsEvent(e)
  PROVE  ReviewPriority(e) \in Int
<1>1. PICK p : p = e.priority /\ p \in Int
  BY DEF IsEvent, NaN, One
<1>2. PICK w \in {1, 2} : w = ValueWeight(e)
  BY DEF ValueWeight
<1>3. PICK a \in Int : a = One - 2 * Abs(p - One \div 2)
  BY <1>1 DEF One, Abs
<1>4. a * w \in Int /\ 2 * One + 1 \in Int
  BY <1>2, <1>3 DEF One
<1> QED
  BY <1>1, <1>2, <1>3, <1>4 DEF ReviewPriority

Ranks(q) == \A e \in Range(q) : IsEvent(e)
Distinct(q) == \A i, j \in 1..Len(q) : q[i] = q[j] => i = j

\* What the ranking of a list without duplicates gives.
LEMMA RankedLists ==
  ASSUME NEW q, IsList(q), Ranks(q), Distinct(q), NEW t, t = Ranked(q)
  PROVE  /\ IsList(t) /\ Len(t) = Len(q) /\ Range(t) = Range(q) /\ Distinct(t)
         /\ \A i, j \in 1..Len(t) : i < j => ReviewPriority(t[i]) >= ReviewPriority(t[j])
<1>1. PICK n, keep : n = Len(q) /\ keep = DOMAIN q
  OBVIOUS
<1>2. n \in Nat /\ keep = 1..n /\ IsFiniteSet(keep) /\ keep \subseteq Int /\ Cardinality(keep) = n
  BY <1>1, ListDomain
<1>3. PICK rank : rank = [i \in keep |-> ReviewPriority(q[i])]
  OBVIOUS
<1>4. \A i \in keep : rank[i] \in Int /\ q[i].rollout \in Nat
  <2> TAKE i \in keep
  <2>1. IsEvent(q[i])
    BY <1>1, ListDomain DEF Ranks
  <2> QED
    BY <1>3, <2>1, ReviewPriorityInt DEF IsEvent
<1>5. PICK less : less = Less(q, keep, Ahead)
  OBVIOUS
<1>6. \A i, j \in keep : <<i, j>> \in less <=>
          rank[i] > rank[j] \/ (rank[i] = rank[j] /\ q[i].rollout < q[j].rollout)
  BY <1>3, <1>5 DEF Less, Ahead
<1>7. WeakOrder(keep, less)
  BY <1>4, <1>6 DEF WeakOrder
<1>8. t = Arranged(q, keep, Stable(keep, less))
  BY <1>1, <1>5 DEF Ranked, Sorted
<1>9. PICK at : Lists(t, q, keep, at) /\ \A k, l \in 1..n : k < l => <<at[l], at[k]>> \notin less
  BY <1>2, <1>7, <1>8, SortedLists
<1>10. /\ Len(t) = n /\ Range(t) = {q[i] : i \in keep} /\ at \in [1..n -> keep]
       /\ \A k, l \in 1..n : at[k] = at[l] => k = l
       /\ \A k \in 1..n : t[k] = q[at[k]]
       /\ t \in Seq({q[i] : i \in keep})
  BY <1>2, <1>9 DEF Lists
<1>11. IsList(t)
  BY <1>10, ListIn
<1>12. Range(t) = Range(q)
  BY <1>1, <1>10 DEF Range
<1>13. Distinct(t)
  BY SMTT(30), <1>1, <1>2, <1>10 DEF Distinct
<1>14. ASSUME NEW i \in 1..n, NEW j \in 1..n, i < j PROVE ReviewPriority(t[i]) >= ReviewPriority(t[j])
  <2>1. at[i] \in keep /\ at[j] \in keep /\ <<at[j], at[i]>> \notin less
    BY <1>9, <1>10, <1>14
  <2>2. rank[at[i]] >= rank[at[j]]
    BY <1>4, <1>6, <2>1
  <2> QED
    BY <1>3, <1>10, <2>1, <2>2
<1> QED
  BY <1>1, <1>10, <1>11, <1>12, <1>13, <1>14

\* The queue and everything that was ever offered.
EventsInv == offered \subseteq fired /\ \A e \in fired : IsEvent(e)
QueueInv == IsFiniteSet(offered) /\ IsList(queue) /\ Distinct(queue) /\ QueueIsTopK

\* A queue with room holds all that was offered.
LEMMA RoomMeansAll ==
  ASSUME QueueInv, Len(queue) < Capacity
  PROVE  Range(queue) = offered
<1>1. Capacity \in Nat /\ Len(queue) \in Nat
  BY BudgetAssumption, ListDomain DEF QueueInv
<1>2. IsFiniteSet(Range(queue)) /\ Cardinality(Range(queue)) = Len(queue)
  BY DistinctList DEF QueueInv, Distinct
<1>3. Cardinality(offered) = Len(queue)
  BY <1>1 DEF QueueInv, QueueIsTopK
<1> QED
  BY <1>2, <1>3, FS_Subset DEF QueueInv, QueueIsTopK

LEMMA OfferKeepsBest ==
  ASSUME QueueInv, EventsInv, NEW e \in fired \ offered,
         queue' = Offered(queue, e), offered' = offered \cup {e}
  PROVE  QueueInv'
<1>1. PICK q, n : q = Append(queue, e) /\ n = Len(queue)
  OBVIOUS
<1>2. Capacity \in Nat /\ IsList(queue) /\ n \in Nat
  BY <1>1, BudgetAssumption, ListDomain DEF QueueInv
<1>3. /\ IsList(q) /\ Len(q) = n + 1 /\ q[n + 1] = e
      /\ \A i \in 1..n : q[i] = queue[i]
      /\ \A x : x \in Range(q) <=> x \in Range(queue) \/ x = e
  BY <1>1, <1>2, ListAppend
<1>4. Range(queue) \subseteq offered /\ e \notin Range(queue)
  BY DEF QueueInv, QueueIsTopK
<1>5. Ranks(q)
  BY <1>3, <1>4 DEF Ranks, EventsInv
<1>6. Distinct(q)
  <2>1. \A i \in 1..n : q[i] # e
    <3>1. \A i \in 1..n : queue[i] \in Range(queue)
      BY <1>1, <1>2, ListDomain
    <3> QED
      BY <1>3, <1>4, <3>1
  <2>2. \A i, j \in 1..n : q[i] = q[j] => i = j
    BY <1>1, <1>3 DEF QueueInv, Distinct
  <2>3. \A i \in 1..n + 1 : i \in 1..n \/ i = n + 1
    BY <1>2
  <2> QED
    BY <1>3, <2>1, <2>2, <2>3 DEF Distinct
<1>7. PICK t : t = Ranked(q)
  OBVIOUS
<1>8. /\ IsList(t) /\ Len(t) = n + 1 /\ Range(t) = Range(q) /\ Distinct(t)
      /\ \A i, j \in 1..n + 1 : i < j => ReviewPriority(t[i]) >= ReviewPriority(t[j])
  BY <1>3, <1>5, <1>6, <1>7, RankedLists
<1>9. PICK m : m = IF n + 1 > Capacity THEN Capacity ELSE n + 1
  OBVIOUS
<1>10. m \in Nat /\ m <= n + 1 /\ m <= Capacity
  BY <1>2, <1>9
<1>11. queue' = SubSeq(t, 1, m)
  BY <1>1, <1>7, <1>8, <1>9 DEF Offered
<1>12. IsList(queue') /\ Len(queue') = m /\ \A i \in 1..m : queue'[i] = t[i]
  BY <1>8, <1>10, <1>11, ListPrefix
<1>13. DOMAIN queue' = 1..m /\ DOMAIN t = 1..n + 1
  BY <1>8, <1>12, ListDomain
<1>14. Distinct(queue)'
  BY <1>8, <1>10, <1>12 DEF Distinct
<1>15. IsFiniteSet(offered') /\ Cardinality(offered') = Cardinality(offered) + 1 /\ Cardinality(offered) \in Nat
  BY FS_AddElement, FS_CardinalityType DEF QueueInv
<1>16. Len(queue') = IF Cardinality(offered') < Capacity THEN Cardinality(offered') ELSE Capacity
  <2>1. n = IF Cardinality(offered) < Capacity THEN Cardinality(offered) ELSE Capacity
    BY <1>1 DEF QueueInv, QueueIsTopK
  <2> QED
    BY <1>2, <1>9, <1>12, <1>15, <2>1
<1>17. \A x \in Range(queue') : \E i \in 1..m : x = t[i]
  BY <1>12, <1>13 DEF Range
<1>18. Range(queue') \subseteq Range(t)
  BY <1>8, <1>10, <1>12, <1>13 DEF Range
<1>19. Range(queue') \subseteq offered'
  BY <1>3, <1>4, <1>8, <1>18
<1>20. \A i, j \in 1..m : i < j => ReviewPriority(queue'[i]) >= ReviewPriority(queue'[j])
  BY <1>8, <1>10, <1>12
<1>21. \A x \in Range(t) \ Range(queue') : \E i \in 1..n + 1 : i > m /\ x = t[i]
  <2> TAKE x \in Range(t) \ Range(queue')
  <2>1. PICK i \in 1..n + 1 : x = t[i]
    BY <1>13 DEF Range
  <2>2. i \notin 1..m
    BY <1>12, <1>13, <2>1 DEF Range
  <2> QED
    BY <1>10, <2>1, <2>2
<1>22. \A x \in Range(queue'), y \in Range(t) \ Range(queue') : ReviewPriority(x) >= ReviewPriority(y)
  <2> TAKE x \in Range(queue'), y \in Range(t) \ Range(queue')
  <2>1. PICK i \in 1..m : x = t[i]
    BY <1>17
  <2>2. PICK j \in 1..n + 1 : j > m /\ y = t[j]
    BY <1>21
  <2> QED
    BY <1>8, <1>10, <2>1, <2>2
<1>23. ASSUME NEW x \in Range(queue'), NEW y \in offered' \ Range(queue')
       PROVE  ReviewPriority(x) >= ReviewPriority(y)
  <2>1. CASE y \in Range(t)
    BY <1>22, <1>23, <2>1
  <2>2. CASE y \notin Range(t)
    <3>1. y \in offered \ Range(queue)
      BY <1>3, <1>8, <2>2
    <3>2. ~(n < Capacity)
      BY <1>1, <3>1, RoomMeansAll
    <3>3. m = n /\ n + 1 \in 1..n + 1
      <4>1. n <= Capacity
        BY <1>1, <1>2, <1>15 DEF QueueInv, QueueIsTopK
      <4> QED
        BY <1>2, <1>9, <3>2, <4>1
    <3>4. CASE x \in Range(queue)
      BY <3>1, <3>4 DEF QueueInv, QueueIsTopK
    <3>5. CASE x \notin Range(queue)
      <4>1. x = e
        BY <1>3, <1>8, <1>18, <3>5
      <4>2. PICK g : g = t[n + 1]
        OBVIOUS
      <4>3. g \in Range(t) /\ g \notin Range(queue')
        <5>1. g \in Range(t)
          BY <1>13, <3>3, <4>2 DEF Range
        <5>2. \A i \in 1..n : i \in 1..n + 1 /\ i # n + 1
          BY <1>2
        <5>3. \A i \in 1..n : t[i] # g
          BY <1>8, <3>3, <4>2, <5>2 DEF Distinct
        <5> QED
          BY <1>17, <3>3, <5>1, <5>3
      <4>4. g \in Range(queue)
        BY <1>3, <1>8, <1>23, <4>1, <4>3
      <4>5. ReviewPriority(x) >= ReviewPriority(g)
        BY <1>22, <4>3
      <4>6. ReviewPriority(g) >= ReviewPriority(y)
        BY <3>1, <4>4 DEF QueueInv, QueueIsTopK
      <4>7. IsEvent(x) /\ IsEvent(g) /\ IsEvent(y)
        BY <1>4, <3>1, <4>1, <4>4 DEF EventsInv
      <4>8. ReviewPriority(x) \in Int /\ ReviewPriority(g) \in Int /\ ReviewPriority(y) \in Int
        BY <4>7, ReviewPriorityInt
      <4> QED
        BY <4>5, <4>6, <4>8
    <3> QED
      BY <3>4, <3>5
  <2> QED
    BY <2>1, <2>2
<1>24. QueueIsTopK'
  BY <1>13, <1>16, <1>19, <1>20, <1>23 DEF QueueIsTopK
<1> QED
  BY <1>12, <1>14, <1>15, <1>24 DEF QueueInv

LEMMA EventsStep ==
  ASSUME EventsInv, [Next]_vars
  PROVE  EventsInv'
<1>1. CASE UNCHANGED <<fired, offered>>
  BY <1>1 DEF EventsInv
<1>2. CASE SelectUploads
  <2>1. PICK batch \in Batches, extra \in Flags :
           fired' = fired \cup Range(Detected(batch) \o extra) /\ offered' = offered
    BY <1>2 DEF SelectUploads
  <2>2. \A e \in Range(Detected(batch) \o extra) : IsEvent(e)
    BY CallEvents
  <2> QED
    BY <2>1, <2>2 DEF EventsInv
<1>3. CASE Offer
  BY <1>3 DEF Offer, EventsInv
<1>4. UNCHANGED <<fired, offered>> \/ SelectUploads \/ Offer
  BY DEF Next, vars, triggerVars, Attribute, Label, Retract, AcceptLabel
<1> QED
  BY <1>1, <1>2, <1>3, <1>4

LEMMA QueueStep ==
  ASSUME EventsInv, QueueInv, [Next]_vars
  PROVE  QueueInv'
<1>1. CASE UNCHANGED <<offered, queue>>
  BY <1>1 DEF QueueInv, Distinct, QueueIsTopK
<1>2. CASE Offer
  BY <1>2, OfferKeepsBest DEF Offer
<1>3. UNCHANGED <<offered, queue>> \/ Offer
  BY DEF Next, vars, triggerVars, Attribute, Label, Retract, AcceptLabel, SelectUploads
<1> QED
  BY <1>1, <1>2, <1>3

LEMMA QueueStart == Init => EventsInv /\ QueueInv
<1> SUFFICES ASSUME Init PROVE EventsInv /\ QueueInv
  OBVIOUS
<1>1. fired = {} /\ offered = {} /\ queue = <<>>
  BY DEF Init, TriggerInit
<1>2. EventsInv
  BY <1>1 DEF EventsInv
<1>3. IsFiniteSet({}) /\ Cardinality({}) = 0
  BY FS_EmptySet
<1>4. IsList(<<>>) /\ Len(<<>>) = 0 /\ DOMAIN <<>> = {} /\ Range(<<>>) = {}
  BY EmptyList
<1>5. QueueIsTopK
  BY <1>1, <1>3, <1>4, BudgetAssumption DEF QueueIsTopK
<1> QED
  BY <1>1, <1>2, <1>3, <1>4, <1>5 DEF QueueInv, Distinct

\* Whatever the order of the offers, the queue holds the best of all events
\* ever offered, best first, as many as fit (ReviewQueue::offer).
THEOREM QueueSafe == Spec => []QueueIsTopK
<1>1. QueueInv => QueueIsTopK
  BY DEF QueueInv
<1> QED
  BY <1>1, QueueStart, EventsStep, QueueStep, PTL DEF Spec

-----------------------------------------------------------------------------
(***************************************************************************)
(* Shapes and bounds.                                                      *)
(***************************************************************************)

RowsInv == feedback \in Seq(FeedbackRows)

\* The table grows at its end, by rows of the right shape.
Grows(t, u) == u = t \/ \E row \in FeedbackRows : u = Append(t, row)

LEMMA FeedbackGrows ==
  ASSUME EventsInv, QueueInv, RowsInv, [Next]_vars
  PROVE  Grows(feedback, feedback')
<1>1. CASE Attribute
  <2>1. PICK row \in AutoRows : feedback' = Append(feedback, [row EXCEPT !.key = Len(feedback) + 1])
    BY <1>1 DEF Attribute, Appended
  <2>2. row \in FeedbackRows /\ Len(feedback) \in Nat
    BY RowsAssumption DEF RowsInv
  <2>3. [row EXCEPT !.key = Len(feedback) + 1] \in FeedbackRows
    BY <2>2 DEF FeedbackRows
  <2> QED
    BY <2>1, <2>3 DEF Grows
<1>2. CASE Label
  <2>1. PICK e \in Range(queue), verdict \in Verdicts :
           feedback' = Append(feedback, [rollout |-> e.rollout, class |-> verdict, method |-> "manual", confidence |-> One,
                                         retracted |-> FALSE, ts |-> 0, key |-> Len(feedback) + 1])
    BY <1>2 DEF Label, Appended
  <2>2. e.rollout \in Nat /\ Len(feedback) \in Nat /\ verdict \in FailureClasses \cup {"success"}
    BY RowsAssumption DEF RowsInv, EventsInv, QueueInv, QueueIsTopK, IsEvent
  <2>3. [rollout |-> e.rollout, class |-> verdict, method |-> "manual", confidence |-> One,
         retracted |-> FALSE, ts |-> 0, key |-> Len(feedback) + 1] \in FeedbackRows
    BY <2>2 DEF FeedbackRows, Methods, Known, One
  <2> QED
    BY <2>1, <2>3 DEF Grows
<1>3. CASE Retract
  <2>1. PICK k \in DOMAIN feedback : feedback' = Append(feedback, [feedback[k] EXCEPT !.retracted = TRUE])
    BY <1>3 DEF Retract, Appended
  <2>2. feedback[k] \in FeedbackRows
    BY <2>1, LenProperties, ElementOfSeq DEF RowsInv
  <2>3. [feedback[k] EXCEPT !.retracted = TRUE] \in FeedbackRows
    BY <2>2 DEF FeedbackRows
  <2> QED
    BY <2>1, <2>3 DEF Grows
<1>4. feedback' = feedback \/ Attribute \/ Label \/ Retract
  BY DEF Next, vars, datasetVars, Compile, RecordCommit, RecordTrainedFrom
<1> QED
  BY <1>1, <1>2, <1>3, <1>4 DEF Grows

LEMMA GrownTable ==
  ASSUME RowsInv, Grows(feedback, feedback')
  PROVE  /\ RowsInv' /\ Len(feedback) \in Nat /\ Len(feedback') \in Nat /\ Len(feedback) <= Len(feedback')
         /\ DOMAIN feedback = 1..Len(feedback) /\ DOMAIN feedback' = 1..Len(feedback')
         /\ \A k \in 1..Len(feedback) : feedback'[k] = feedback[k]
<1>1. PICK n : n = Len(feedback) /\ n \in Nat /\ DOMAIN feedback = 1..n
  BY LenProperties DEF RowsInv
<1>2. CASE feedback' = feedback
  BY <1>1, <1>2 DEF RowsInv
<1>3. CASE feedback' # feedback
  <2>1. PICK row \in FeedbackRows : feedback' = Append(feedback, row)
    BY <1>3 DEF Grows
  <2>2. /\ feedback' \in Seq(FeedbackRows) /\ Len(feedback') = n + 1
        /\ \A k \in 1..n : feedback'[k] = feedback[k]
    BY <1>1, <2>1, AppendProperties DEF RowsInv
  <2>3. DOMAIN feedback' = 1..n + 1
    BY <2>2, LenProperties
  <2> QED
    BY <1>1, <2>2, <2>3 DEF RowsInv
<1> QED
  BY <1>2, <1>3

\* A row names itself or, when it withdraws one, the row it withdraws.
KeysInv ==
    \A k \in DOMAIN feedback : feedback[k].key <= k /\ (feedback[k].key < k => feedback[k].retracted)

\* Only what the queue held was labelled.
LabelsInv ==
    /\ IsList(labels)
    /\ \A k \in DOMAIN labels : \E e \in offered : e.rollout = labels[k].rollout

LEMMA KeysStep ==
  ASSUME EventsInv, QueueInv, RowsInv, KeysInv, [Next]_vars
  PROVE  KeysInv'
<1>1. Grows(feedback, feedback')
  BY FeedbackGrows
<1>2. PICK n : n = Len(feedback)
  OBVIOUS
<1>3. /\ n \in Nat /\ DOMAIN feedback = 1..n /\ \A k \in 1..n : feedback[k].key \in Nat
      /\ \A k \in 1..n : feedback'[k] = feedback[k]
  <2>1. \A k \in 1..n : feedback[k] \in FeedbackRows
    BY <1>2, ElementOfSeq DEF RowsInv
  <2> QED
    BY <1>1, <1>2, <2>1, GrownTable DEF FeedbackRows
<1>4. CASE feedback' = feedback
  BY <1>4 DEF KeysInv
<1>5. CASE feedback' # feedback
  <2>1. PICK row \in FeedbackRows : feedback' = Append(feedback, row)
    BY <1>1, <1>5 DEF Grows
  <2>2. feedback'[n + 1] = row /\ DOMAIN feedback' = 1..n + 1
    BY <1>2, <2>1, AppendProperties, LenProperties DEF RowsInv
  <2>3. Attribute \/ Label \/ Retract
    BY <1>5 DEF Next, vars, datasetVars, Compile, RecordCommit, RecordTrainedFrom
  <2>4. row.key <= n + 1 /\ (row.key < n + 1 => row.retracted)
    <3>1. CASE Attribute
      <4>1. PICK auto \in AutoRows : feedback' = Append(feedback, [auto EXCEPT !.key = n + 1])
        BY <1>2, <3>1 DEF Attribute, Appended
      <4>2. auto \in FeedbackRows
        BY RowsAssumption
      <4>3. PICK new : new = [auto EXCEPT !.key = n + 1]
        OBVIOUS
      <4>4. new \in FeedbackRows /\ new.key = n + 1
        BY SMTT(30), <1>3, <4>2, <4>3 DEF FeedbackRows
      <4>5. feedback'[n + 1] = new
        BY <1>2, <4>1, <4>3, <4>4, AppendProperties DEF RowsInv
      <4> QED
        BY <1>3, <2>2, <4>4, <4>5
    <3>2. CASE Label
      <4>1. PICK e \in Range(queue), verdict \in Verdicts :
               feedback' = Append(feedback, [rollout |-> e.rollout, class |-> verdict, method |-> "manual", confidence |-> One,
                                             retracted |-> FALSE, ts |-> 0, key |-> n + 1])
        BY <1>2, <3>2 DEF Label, Appended
      <4>2. PICK new : new = [rollout |-> e.rollout, class |-> verdict, method |-> "manual", confidence |-> One,
                              retracted |-> FALSE, ts |-> 0, key |-> n + 1]
        OBVIOUS
      <4>3. feedback'[n + 1] = new /\ new.key = n + 1
        <5>1. IsList(feedback)
          BY ListIn DEF RowsInv
        <5>2. feedback' = Append(feedback, new)
          BY <4>1, <4>2
        <5>3. new.key = n + 1
          BY <4>2
        <5> QED
          BY <1>2, <5>1, <5>2, <5>3, ListAppend
      <4> QED
        BY <1>3, <2>2, <4>3
    <3>3. CASE Retract
      <4>1. PICK k \in 1..n : feedback' = Append(feedback, [feedback[k] EXCEPT !.retracted = TRUE])
        BY <1>3, <3>3 DEF Retract, Appended
      <4>2. feedback[k] \in FeedbackRows
        BY <1>2, <4>1, ElementOfSeq DEF RowsInv
      <4>3. PICK new : new = [feedback[k] EXCEPT !.retracted = TRUE]
        OBVIOUS
      <4>4. new \in FeedbackRows /\ new.key = feedback[k].key /\ new.retracted
        BY <4>2, <4>3 DEF FeedbackRows
      <4>5. feedback'[n + 1] = new
        BY <1>2, <4>1, <4>3, <4>4, AppendProperties DEF RowsInv
      <4>6. feedback[k].key <= k /\ feedback[k].key \in Nat
        BY <1>3 DEF KeysInv
      <4>7. new.key <= n + 1
        BY <1>3, <4>4, <4>6
      <4> QED
        BY <2>2, <4>4, <4>5, <4>7
    <3> QED
      BY <2>3, <3>1, <3>2, <3>3
  <2>5. \A k \in 1..n + 1 : k \in 1..n \/ k = n + 1
    BY <1>3
  <2> QED
    BY <1>3, <2>2, <2>4, <2>5 DEF KeysInv
<1> QED
  BY <1>4, <1>5

LEMMA LabelsStep ==
  ASSUME QueueInv, LabelsInv, [Next]_vars
  PROVE  LabelsInv'
<1>1. offered \subseteq offered'
  BY DEF Next, vars, triggerVars, Attribute, Label, Retract, AcceptLabel, SelectUploads, Offer
<1>2. CASE labels' = labels
  BY <1>1, <1>2 DEF LabelsInv
<1>3. CASE Label
  <2>1. PICK e \in Range(queue), verdict \in Verdicts : labels' = Append(labels, LabelRecord(e, verdict))
    BY <1>3 DEF Label, AcceptLabel
  <2>2. PICK n, record : n = Len(labels) /\ record = LabelRecord(e, verdict)
    OBVIOUS
  <2>3. n \in Nat /\ DOMAIN labels = 1..n
    BY <2>2, ListDomain DEF LabelsInv
  <2>4. /\ IsList(labels') /\ Len(labels') = n + 1
        /\ \A i \in 1..n : labels'[i] = labels[i]
        /\ labels'[n + 1] = record
    BY <2>1, <2>2, ListAppend DEF LabelsInv
  <2>5. DOMAIN labels' = 1..n + 1
    BY <2>4, ListDomain
  <2>6. e \in offered' /\ e.rollout = record.rollout
    BY <1>1, <2>2 DEF LabelRecord, QueueInv, QueueIsTopK
  <2>7. \A k \in 1..n + 1 : k \in 1..n \/ k = n + 1
    BY <2>3
  <2>8. \A k \in 1..n + 1 : \E x \in offered' : x.rollout = labels'[k].rollout
    BY <1>1, <2>3, <2>4, <2>6, <2>7 DEF LabelsInv
  <2> QED
    BY <2>4, <2>5, <2>8 DEF LabelsInv
<1>4. labels' = labels \/ Label
  BY DEF Next, vars, triggerVars, Attribute, Retract, SelectUploads, Offer
<1> QED
  BY <1>2, <1>3, <1>4

\* The inductive invariant of the loop.
IInv == LineageInv /\ EventsInv /\ QueueInv /\ RowsInv /\ KeysInv /\ LabelsInv

LEMMA Start == Init => IInv
<1> SUFFICES ASSUME Init PROVE IInv
  OBVIOUS
<1>1. feedback = <<>> /\ labels = <<>>
  BY DEF Init, TriggerInit, DatasetInit
<1>2. <<>> \in Seq(FeedbackRows) /\ DOMAIN <<>> = {} /\ IsList(<<>>)
  BY EmptySeq, EmptyList
<1> QED
  BY <1>1, <1>2, LineageStart, QueueStart DEF IInv, RowsInv, KeysInv, LabelsInv

LEMMA Step ==
  ASSUME IInv, [Next]_vars
  PROVE  IInv'
BY LineageStep, EventsStep, QueueStep, FeedbackGrows, GrownTable, KeysStep, LabelsStep DEF IInv

LEMMA TypesHold == IInv => TypeOK
<1> SUFFICES ASSUME IInv PROVE TypeOK
  OBVIOUS
<1>1. offered \subseteq fired /\ \A e \in fired : e.priority \in 0..NaN
  BY DEF IInv, EventsInv, IsEvent
<1>2. Len(queue) <= Capacity
  <2>1. Cardinality(offered) \in Nat /\ Capacity \in Nat
    BY BudgetAssumption, FS_CardinalityType DEF IInv, QueueInv
  <2> QED
    BY <2>1 DEF IInv, QueueInv, QueueIsTopK
<1>3. ASSUME NEW e \in fired, NEW g \in 0..1, ~TrainingEligible(e.source, g)
      PROVE  SeedGeneration(TriggerRecord(e)) = g
  <2>1. e.source = [by |-> "detector", generation |-> g]
    BY <1>3 DEF TrainingEligible, Detector
  <2>2. e.source.by = "detector" /\ e.source.generation = g
    BY <2>1
  <2>3. PICK record : record = TriggerRecord(e)
    OBVIOUS
  <2>4. record.event = e /\ record.seed
    BY <2>2, <2>3 DEF TriggerRecord
  <2> QED
    BY <2>2, <2>3, <2>4 DEF SeedGeneration
<1>4. \A p \in Policies : lineage.trained[p] \subseteq {c.id : c \in commits}
  BY DEF IInv, LineageInv, Stored
<1>5. DOMAIN lineage.episodes \subseteq {c.id : c \in commits}
  BY DEF IInv, LineageInv, Stored
<1> QED
  BY <1>1, <1>2, <1>3, <1>4, <1>5 DEF TypeOK, IInv, KeysInv, LabelsInv

\* Only what fired is offered and only what the queue held is labelled; the
\* queue stays within its capacity, a row of the table names itself or the row
\* it withdraws, and only the detector that flagged an event is barred from
\* training on it (fieldloop-trigger, fieldloop-curation).
THEOREM TypeCorrect == Spec => []TypeOK
BY Start, Step, TypesHold, PTL DEF Spec

-----------------------------------------------------------------------------
(***************************************************************************)
(* The broker: a call takes a prefix of what can be dropped.               *)
(***************************************************************************)

Safe(events) == {i \in DOMAIN events : IsSafety(events[i])}
Free(events) == {i \in DOMAIN events : ~IsSafety(events[i])}
Descending(rest) == \A i, j \in 1..Len(rest) : i < j => rest[i].priority >= rest[j].priority

\* Safety events and the others are all there is.
LEMMA Split ==
  ASSUME NEW events, IsList(events), \A e \in Range(events) : IsEvent(e),
         NEW safety, safety = SafetyEvents(events), NEW rest, rest = Droppable(events)
  PROVE  /\ IsList(safety) /\ \A x : x \in Range(safety) <=> x \in Range(events) /\ IsSafety(x)
         /\ IsList(rest) /\ \A x : x \in Range(rest) <=> x \in Range(events) /\ ~IsSafety(x)
         /\ Len(safety) + Len(rest) = Len(events)
         /\ Descending(rest)
<1>1. PICK n, safe, free : n = Len(events) /\ safe = Safe(events) /\ free = Free(events)
  OBVIOUS
<1>2. /\ n \in Nat /\ DOMAIN events = 1..n /\ IsFiniteSet(1..n) /\ Cardinality(1..n) = n
      /\ 1..n \subseteq Int
  BY <1>1, ListDomain
<1>3. safe \subseteq 1..n /\ free = (1..n) \ safe /\ (1..n) \cap safe = safe
  BY <1>1, <1>2 DEF Safe, Free
<1>4. /\ IsFiniteSet(safe) /\ IsFiniteSet(free) /\ safe \subseteq Int /\ free \subseteq Int
      /\ Cardinality(safe) \in Nat /\ Cardinality(free) \in Nat
      /\ Cardinality(safe) + Cardinality(free) = n
  <2>1. IsFiniteSet(safe) /\ IsFiniteSet(free)
    BY <1>2, <1>3, FS_Subset
  <2>2. Cardinality((1..n) \ safe) = Cardinality(1..n) - Cardinality((1..n) \cap safe)
    BY <1>2, FS_Difference
  <2>3. Cardinality(free) = n - Cardinality(safe)
    BY <1>2, <1>3, <2>2
  <2>4. Cardinality(safe) \in Nat /\ Cardinality(free) \in Nat
    BY <2>1, FS_CardinalityType
  <2> QED
    BY <1>2, <1>3, <2>1, <2>3, <2>4
<1>5. safety = Picked(events, safe)
  BY <1>1 DEF SafetyEvents, Safe
<1>6. PICK at : Lists(safety, events, safe, at)
  <2>1. PICK t : t = Picked(events, safe)
    OBVIOUS
  <2>2. \E at : Lists(t, events, safe, at)
    BY <1>4, <2>1, PickedLists
  <2> QED
    BY <1>5, <2>1, <2>2
<1>7. IsList(safety) /\ Len(safety) = Cardinality(safe) /\ Range(safety) = {events[i] : i \in safe}
  BY <1>6, ListIn DEF Lists
<1>8. PICK less : less = Less(events, free, Outranks)
  OBVIOUS
<1>9. rest = Arranged(events, free, Stable(free, less))
  BY <1>1, <1>8 DEF Droppable, Sorted, Free
<1>10. \A i \in free : events[i].priority \in Int /\ events[i].rollout \in Nat
  <2> TAKE i \in free
  <2>1. events[i] \in Range(events)
    BY <1>2, <1>3, ListDomain
  <2>2. PICK e : e = events[i] /\ IsEvent(e)
    BY <2>1
  <2>3. e.priority \in Int /\ e.rollout \in Nat
    BY <2>2, EventParts
  <2> QED
    BY <2>2, <2>3
<1>11. \A i, j \in free : <<i, j>> \in less <=>
           \/ events[i].priority > events[j].priority
           \/ events[i].priority = events[j].priority /\ events[i].rollout < events[j].rollout
  BY <1>8 DEF Less, Outranks
<1>12. WeakOrder(free, less)
  BY <1>10, <1>11 DEF WeakOrder
<1>13. PICK to : /\ Lists(rest, events, free, to)
                 /\ \A k, l \in 1..Cardinality(free) : k < l => <<to[l], to[k]>> \notin less
  BY <1>4, <1>9, <1>12, SortedLists
<1>14. IsList(rest) /\ Len(rest) = Cardinality(free) /\ Range(rest) = {events[i] : i \in free}
  BY <1>13, ListIn DEF Lists
<1>15. ASSUME NEW i \in 1..Len(rest), NEW j \in 1..Len(rest), i < j
       PROVE  rest[i].priority >= rest[j].priority
  <2>1. to[i] \in free /\ to[j] \in free /\ rest[i] = events[to[i]] /\ rest[j] = events[to[j]]
    BY <1>13, <1>14, <1>15 DEF Lists
  <2>2. <<to[j], to[i]>> \notin less
    BY <1>13, <1>14, <1>15
  <2> QED
    BY <1>10, <1>11, <2>1, <2>2
<1>16. \A x : x \in Range(safety) <=> x \in Range(events) /\ IsSafety(x)
  BY <1>1, <1>7 DEF Safe, Range
<1>17. \A x : x \in Range(rest) <=> x \in Range(events) /\ ~IsSafety(x)
  BY <1>1, <1>14 DEF Free, Range
<1> QED
  BY <1>1, <1>4, <1>7, <1>14, <1>15, <1>16, <1>17 DEF Descending

\* The bytes charged for m requests.
Bytes(m) == IF m * BytesPerRequest > ByteCap THEN ByteCap ELSE m * BytesPerRequest
Fits(m) == m < Budget.requests /\ Bytes(m + 1) <= Budget.bytes

LEMMA ChargedBytes ==
  ASSUME NEW m \in Nat
  PROVE  /\ Charged(Bytes(m)) = Bytes(m + 1)
         /\ Bytes(m) \in Nat
<1>1. BytesPerRequest \in Nat /\ ByteCap \in Nat
  BY BudgetAssumption
<1>2. PICK x, y : x = m * BytesPerRequest /\ y = (m + 1) * BytesPerRequest
  OBVIOUS
<1>3. x \in Nat /\ y = x + BytesPerRequest
  BY <1>1, <1>2
<1> QED
  BY <1>1, <1>2, <1>3 DEF Charged, Bytes

\* A decision after k of the rest: the first m were admitted and, when that is
\* not all of them, there was no room for one more.
TookFirst(d, safety, rest, k, m) ==
    /\ d.admitted = m /\ m <= Budget.requests
    /\ d.bytes = Bytes(m) /\ d.bytes <= Budget.bytes
    /\ IsList(d.requests) /\ Len(d.requests) = Len(safety) + m
    /\ \A i \in 1..Len(safety) : d.requests[i] = Request(safety[i])
    /\ \A i \in 1..m : d.requests[Len(safety) + i] = Request(rest[i])
    /\ IsList(d.dropped) /\ Len(d.dropped) = k - m
    /\ \A i \in 1..k - m : d.dropped[i] = DroppedEvent(rest[m + i])
    /\ m < k => ~Fits(m)

Took(d, events, safety, rest, k) ==
    /\ DOMAIN d = {"events", "dropped", "admitted", "bytes", "requests"}
    /\ d.events = events
    /\ \E m \in 0..k : TookFirst(d, safety, rest, k, m)

LEMMA TookNone ==
  ASSUME NEW events, NEW safety, safety = SafetyEvents(events), IsList(safety), NEW rest
  PROVE  Took(UploadDecision(events), events, safety, rest, 0)
<1>1. PICK d : d = UploadDecision(events)
  OBVIOUS
<1>2. /\ DOMAIN d = {"events", "dropped", "admitted", "bytes", "requests"}
      /\ d.events = events /\ d.dropped = <<>> /\ d.admitted = 0 /\ d.bytes = 0
      /\ d.requests = [i \in DOMAIN safety |-> Request(safety[i])]
  BY <1>1 DEF UploadDecision
<1>3. PICK n : n = Len(safety) /\ n \in Nat /\ DOMAIN safety = 1..n
  BY ListDomain
<1>4. PICK asked : asked = d.requests
  OBVIOUS
<1>5. asked = [i \in 1..n |-> Request(safety[i])]
  BY <1>2, <1>3, <1>4
<1>6. IsList(asked) /\ Len(asked) = n
  <2>1. PICK S : S = {Request(safety[i]) : i \in 1..n}
    OBVIOUS
  <2>2. \A i \in 1..n : Request(safety[i]) \in S
    BY <2>1
  <2>3. asked \in [1..n -> S]
    BY <1>5, <2>2
  <2>4. asked \in Seq(S) /\ Len(asked) = n
    BY <1>3, <2>3, ListOf
  <2> QED
    BY <2>4, ListIn
<1>7. \A i \in 1..n : asked[i] = Request(safety[i])
  BY <1>5
<1>8. IsList(<<>>) /\ Len(<<>>) = 0
  BY EmptySeq, ListIn
<1>9. Bytes(0) = 0 /\ 0 <= Budget.bytes /\ 0 <= Budget.requests
  BY BudgetAssumption DEF Bytes
<1>10. 0 \in 0..0 /\ \A i : i \notin 1..0
  OBVIOUS
<1>11. TookFirst(d, safety, rest, 0, 0)
  <2>1. Len(safety) + 0 = n /\ 0 - 0 = 0 /\ ~(0 < 0)
    BY <1>3
  <2> QED
    BY <1>2, <1>3, <1>4, <1>6, <1>7, <1>8, <1>9, <1>10, <2>1 DEF TookFirst
<1>12. Took(d, events, safety, rest, 0)
  BY <1>2, <1>10, <1>11 DEF Took
<1> QED
  BY <1>1, <1>12

LEMMA TookOneMore ==
  ASSUME NEW events, NEW safety, NEW rest, NEW k \in Nat, IsList(safety),
         NEW d, Took(d, events, safety, rest, k), NEW e, e = rest[k + 1]
  PROVE  Took(Admit(d, e), events, safety, rest, k + 1)
<1>1. PICK n : n = Len(safety) /\ n \in Nat
  BY ListDomain
<1>2. PICK m \in 0..k :
          /\ d.admitted = m /\ m <= Budget.requests
          /\ d.bytes = Bytes(m) /\ d.bytes <= Budget.bytes
          /\ IsList(d.requests) /\ Len(d.requests) = n + m
          /\ \A i \in 1..n : d.requests[i] = Request(safety[i])
          /\ \A i \in 1..m : d.requests[n + i] = Request(rest[i])
          /\ IsList(d.dropped) /\ Len(d.dropped) = k - m
          /\ \A i \in 1..k - m : d.dropped[i] = DroppedEvent(rest[m + i])
          /\ m < k => ~Fits(m)
  BY <1>1 DEF Took, TookFirst
<1>3. DOMAIN d = {"events", "dropped", "admitted", "bytes", "requests"} /\ d.events = events
  BY DEF Took
<1>4. Charged(d.bytes) = Bytes(m + 1) /\ m \in Nat /\ Budget.requests \in Nat
  <2>1. m \in Nat
    OBVIOUS
  <2>2. Charged(Bytes(m)) = Bytes(m + 1)
    BY <2>1, ChargedBytes
  <2> QED
    BY <1>2, <2>1, <2>2, BudgetAssumption
<1>5. PICK after : after = Admit(d, e)
  OBVIOUS
<1>6. CASE Fits(m)
  <2>1. m = k
    BY <1>2, <1>6
  <2>2. after = [d EXCEPT !.admitted = @ + 1, !.bytes = Charged(@), !.requests = Append(@, Request(e))]
    BY <1>2, <1>4, <1>5, <1>6 DEF Admit, Fits
  <2>3. /\ DOMAIN after = {"events", "dropped", "admitted", "bytes", "requests"}
        /\ after.events = events /\ after.dropped = d.dropped
        /\ after.admitted = m + 1 /\ after.bytes = Bytes(m + 1)
        /\ after.requests = Append(d.requests, Request(e))
    BY <1>2, <1>3, <1>4, <2>2
  <2>4. /\ IsList(after.requests) /\ Len(after.requests) = n + m + 1
        /\ \A i \in 1..n + m : after.requests[i] = d.requests[i]
        /\ after.requests[n + m + 1] = Request(e)
    BY <1>2, <2>3, ListAppend
  <2>5. \A i \in 1..n : after.requests[i] = Request(safety[i])
    <3>1. \A i \in 1..n : i \in 1..n + m
      BY <1>1, <1>4
    <3> QED
      BY <1>2, <2>4, <3>1
  <2>6. \A i \in 1..m + 1 : after.requests[n + i] = Request(rest[i])
    <3> TAKE i \in 1..m + 1
    <3>1. CASE i \in 1..m
      <4>1. n + i \in 1..n + m
        BY <1>1, <1>4, <3>1
      <4> QED
        BY <1>2, <2>4, <3>1, <4>1
    <3>2. CASE i = m + 1
      <4>1. n + i = n + m + 1
        BY <1>1, <1>4, <3>2
      <4> QED
        BY <2>1, <2>4, <3>2, <4>1
    <3> QED
      BY <1>4, <3>1, <3>2
  <2>7. m + 1 \in 0..k + 1 /\ m + 1 <= Budget.requests /\ Bytes(m + 1) <= Budget.bytes
        /\ k + 1 - (m + 1) = k - m /\ n + m + 1 = n + (m + 1) /\ ~(m + 1 < k + 1)
    BY <1>1, <1>4, <1>6, <2>1 DEF Fits
  <2>8. \A i \in 1..k + 1 - (m + 1) : after.dropped[i] = DroppedEvent(rest[m + 1 + i])
    BY <2>1
  <2>9. TookFirst(after, safety, rest, k + 1, m + 1)
    <3>1. /\ after.admitted = m + 1 /\ m + 1 <= Budget.requests
          /\ after.bytes = Bytes(m + 1) /\ after.bytes <= Budget.bytes
      BY <2>3, <2>7
    <3>2. IsList(after.requests) /\ Len(after.requests) = Len(safety) + (m + 1)
      BY <1>1, <2>4, <2>7
    <3>3. /\ \A i \in 1..Len(safety) : after.requests[i] = Request(safety[i])
          /\ \A i \in 1..m + 1 : after.requests[Len(safety) + i] = Request(rest[i])
      BY <1>1, <2>5, <2>6
    <3>4. IsList(after.dropped) /\ Len(after.dropped) = k + 1 - (m + 1)
      BY <1>2, <2>3, <2>7
    <3> QED
      BY <2>7, <2>8, <3>1, <3>2, <3>3, <3>4 DEF TookFirst
  <2>10. Took(after, events, safety, rest, k + 1)
    BY <2>3, <2>7, <2>9 DEF Took
  <2> QED
    BY <1>5, <2>10
<1>7. CASE ~Fits(m)
  <2>1. after = [d EXCEPT !.dropped = Append(@, DroppedEvent(e))]
    BY <1>2, <1>4, <1>5, <1>7 DEF Admit, Fits
  <2>2. /\ DOMAIN after = {"events", "dropped", "admitted", "bytes", "requests"}
        /\ after.events = events /\ after.requests = d.requests
        /\ after.admitted = m /\ after.bytes = d.bytes
        /\ after.dropped = Append(d.dropped, DroppedEvent(e))
    BY <1>2, <1>3, <2>1
  <2>3. PICK j : j = k - m /\ j \in Nat
    BY <1>2
  <2>4. /\ IsList(after.dropped) /\ Len(after.dropped) = j + 1
        /\ \A i \in 1..j : after.dropped[i] = d.dropped[i]
        /\ after.dropped[j + 1] = DroppedEvent(e)
    <3>1. PICK t, x : t = d.dropped /\ x = DroppedEvent(e)
      OBVIOUS
    <3>2. IsList(t) /\ Len(t) = j /\ after.dropped = Append(t, x)
      BY <1>2, <2>2, <2>3, <3>1
    <3> QED
      BY <3>1, <3>2, ListAppend
  <2>5. \A i \in 1..j + 1 : after.dropped[i] = DroppedEvent(rest[m + i])
    <3> TAKE i \in 1..j + 1
    <3>1. CASE i \in 1..j
      BY <1>2, <2>3, <2>4, <3>1
    <3>2. CASE i = j + 1
      <4>1. m + i = k + 1
        BY <1>4, <2>3, <3>2
      <4> QED
        BY <2>4, <3>2, <4>1
    <3> QED
      BY <2>3, <3>1, <3>2
  <2>6. m \in 0..k + 1 /\ k + 1 - m = j + 1
    BY <1>4, <2>3
  <2>7. TookFirst(after, safety, rest, k + 1, m)
    <3>1. /\ after.admitted = m /\ m <= Budget.requests
          /\ after.bytes = Bytes(m) /\ after.bytes <= Budget.bytes
      BY <1>2, <2>2
    <3>2. IsList(after.requests) /\ Len(after.requests) = Len(safety) + m
      BY <1>1, <1>2, <2>2
    <3>3. /\ \A i \in 1..Len(safety) : after.requests[i] = Request(safety[i])
          /\ \A i \in 1..m : after.requests[Len(safety) + i] = Request(rest[i])
      BY <1>1, <1>2, <2>2
    <3>4. IsList(after.dropped) /\ Len(after.dropped) = k + 1 - m
      BY <2>4, <2>6
    <3>5. \A i \in 1..k + 1 - m : after.dropped[i] = DroppedEvent(rest[m + i])
      BY <2>5, <2>6
    <3> QED
      BY <1>7, <3>1, <3>2, <3>3, <3>4, <3>5 DEF TookFirst
  <2>8. Took(after, events, safety, rest, k + 1)
    BY <2>2, <2>6, <2>7 DEF Took
  <2> QED
    BY <1>5, <2>8
<1> QED
  BY <1>6, <1>7

\* The broker goes through the rest one by one.
Runs(f, events, rest, n) ==
    f = [k \in 0..n |-> IF k = 0 THEN UploadDecision(events) ELSE Admit(f[k - 1], rest[k])]

LEMMA RunExists ==
  ASSUME NEW events, NEW rest, NEW n \in Nat
  PROVE  \E f : Runs(f, events, rest, n)
<1>1. PICK T : T = {k \in Nat : ~ \E f : Runs(f, events, rest, k)}
  OBVIOUS
<1>2. CASE T = {}
  BY <1>1, <1>2
<1>3. CASE T # {}
  <2>1. PICK x \in T : \A y \in T : x <= y
    BY <1>1, <1>3, LeastOf
  <2>2. x # 0
    <3>1. PICK f : f = [k \in 0..0 |-> UploadDecision(events)]
      OBVIOUS
    <3>2. Runs(f, events, rest, 0)
      BY <3>1 DEF Runs
    <3> QED
      BY <1>1, <2>1, <3>2
  <2>3. PICK w \in Nat : x = w + 1
    BY <1>1, <2>1, <2>2
  <2>4. w \notin T
    BY <2>1, <2>3
  <2>5. PICK f : Runs(f, events, rest, w)
    BY <1>1, <2>3, <2>4
  <2>6. PICK g : g = [k \in 0..w + 1 |-> IF k = w + 1 THEN Admit(f[w], rest[w + 1]) ELSE f[k]]
    OBVIOUS
  <2>7. \A k \in 0..w : k \in 0..w + 1 /\ k # w + 1 /\ g[k] = f[k]
    BY <2>3, <2>6
  <2>8. \A k \in 0..w + 1 : g[k] = IF k = 0 THEN UploadDecision(events) ELSE Admit(g[k - 1], rest[k])
    <3> TAKE k \in 0..w + 1
    <3>1. CASE k = w + 1
      <4>1. w \in 0..w /\ k # 0 /\ k - 1 = w
        BY <2>3, <3>1
      <4>2. g[k - 1] = f[w]
        BY <2>7, <4>1
      <4> QED
        BY <2>6, <3>1, <4>1, <4>2
    <3>2. CASE k = 0
      <4>1. 0 \in 0..w
        BY <2>3
      <4> QED
        BY <2>5, <2>7, <3>2, <4>1 DEF Runs
    <3>3. CASE k # 0 /\ k # w + 1
      <4>1. k \in 0..w /\ k - 1 \in 0..w
        BY <2>3, <3>3
      <4>2. f[k] = Admit(f[k - 1], rest[k])
        BY <2>5, <3>3, <4>1 DEF Runs
      <4> QED
        BY <2>7, <3>3, <4>1, <4>2
    <3> QED
      BY <3>1, <3>2, <3>3
  <2>9. Runs(g, events, rest, w + 1)
    BY <2>6, <2>8 DEF Runs
  <2> QED
    BY <1>1, <2>1, <2>3, <2>9
<1> QED
  BY <1>2, <1>3

LEMMA SelectTakes ==
  ASSUME NEW events, NEW safety, safety = SafetyEvents(events), IsList(safety),
         NEW rest, rest = Droppable(events), IsList(rest)
  PROVE  Took(Select(events), events, safety, rest, Len(rest))
<1>1. PICK n : n = Len(rest) /\ n \in Nat
  BY ListDomain
<1>2. PICK f : f = CHOOSE g : Runs(g, events, rest, n)
  OBVIOUS
<1>3. Runs(f, events, rest, n)
  BY <1>1, <1>2, RunExists
<1>4. Select(events) = f[n]
  BY <1>1, <1>2 DEF Select, Runs
<1>5. PICK T : T = {k \in 0..n : ~Took(f[k], events, safety, rest, k)}
  OBVIOUS
<1>6. CASE T # {}
  <2>1. PICK x \in T : \A y \in T : x <= y
    BY <1>5, <1>6, LeastOf
  <2>2. 0 \in 0..n
    BY <1>1
  <2>3. f[0] = UploadDecision(events)
    BY <1>3, <2>2 DEF Runs
  <2>4. x # 0
    BY <1>5, <2>1, <2>3, TookNone
  <2>5. PICK w \in Nat : x = w + 1 /\ w \in 0..n
    BY <1>1, <1>5, <2>1, <2>4
  <2>6. Took(f[w], events, safety, rest, w)
    BY <1>5, <2>1, <2>5
  <2>7. f[w + 1] = Admit(f[w], rest[w + 1])
    BY <1>1, <1>3, <1>5, <2>1, <2>5 DEF Runs
  <2>8. Took(f[w + 1], events, safety, rest, w + 1)
    BY <2>5, <2>6, <2>7, TookOneMore
  <2> QED
    BY <1>5, <2>1, <2>5, <2>8
<1> QED
  BY <1>1, <1>4, <1>5, <1>6

\* The parts of a decision: what was asked for without a budget, the m admitted
\* under it, and what was dropped.
LEMMA DecisionParts ==
  ASSUME NEW events, IsList(events), \A e \in Range(events) : IsEvent(e),
         NEW d, d = Select(events)
  PROVE  \E safety, rest : \E m \in 0..Len(rest) :
            /\ IsList(safety) /\ \A x : x \in Range(safety) <=> x \in Range(events) /\ IsSafety(x)
            /\ IsList(rest) /\ \A x : x \in Range(rest) <=> x \in Range(events) /\ ~IsSafety(x)
            /\ Len(safety) + Len(rest) = Len(events)
            /\ Descending(rest)
            /\ d.events = events /\ TookFirst(d, safety, rest, Len(rest), m)
<1>1. PICK safety, rest : safety = SafetyEvents(events) /\ rest = Droppable(events)
  OBVIOUS
<1>2. /\ IsList(safety) /\ \A x : x \in Range(safety) <=> x \in Range(events) /\ IsSafety(x)
      /\ IsList(rest) /\ \A x : x \in Range(rest) <=> x \in Range(events) /\ ~IsSafety(x)
      /\ Len(safety) + Len(rest) = Len(events)
      /\ Descending(rest)
  BY <1>1, Split
<1>3. Took(d, events, safety, rest, Len(rest))
  BY <1>1, <1>2, SelectTakes
<1>4. d.events = events /\ \E m \in 0..Len(rest) : TookFirst(d, safety, rest, Len(rest), m)
  BY <1>3 DEF Took
<1> QED
  BY <1>2, <1>4

Budgeted(d) == Picked(d.requests, {i \in DOMAIN d.requests : ~IsSafety(d.requests[i])})

LEMMA BudgetedRequests ==
  ASSUME NEW safety, IsList(safety), \A x \in Range(safety) : IsSafety(x),
         NEW rest, IsList(rest), \A x \in Range(rest) : ~IsSafety(x),
         NEW m \in 0..Len(rest), NEW d, TookFirst(d, safety, rest, Len(rest), m)
  PROVE  Len(Budgeted(d)) = m /\ \A x \in Range(Budgeted(d)) : \E i \in 1..m : x = Request(rest[i])
<1>1. PICK asked, n, l : asked = d.requests /\ n = Len(safety) /\ l = Len(rest)
  OBVIOUS
<1>2. n \in Nat /\ l \in Nat /\ m \in Nat /\ m <= l
  BY <1>1, ListDomain
<1>3. /\ IsList(asked) /\ Len(asked) = n + m
      /\ \A i \in 1..n : asked[i] = Request(safety[i])
      /\ \A i \in 1..m : asked[n + i] = Request(rest[i])
  BY <1>1 DEF TookFirst
<1>4. DOMAIN asked = 1..n + m
  BY <1>3, ListDomain
<1>5. \A i \in 1..n : IsSafety(asked[i])
  <2> TAKE i \in 1..n
  <2>1. IsSafety(safety[i])
    BY <1>1, ListDomain
  <2> QED
    BY <1>3, <2>1, Reported
<1>6. \A i \in 1..m : ~IsSafety(asked[n + i])
  <2> TAKE i \in 1..m
  <2>1. i \in 1..l
    BY <1>2
  <2>2. ~IsSafety(rest[i])
    BY <1>1, <2>1, ListDomain
  <2> QED
    BY <1>3, <2>2, Reported
<1>7. \A i \in 1..n + m : i \in 1..n \/ (i - n \in 1..m /\ n + (i - n) = i)
  BY <1>2
<1>8. PICK keep : keep = {i \in DOMAIN asked : ~IsSafety(asked[i])}
  OBVIOUS
<1>9. keep = n + 1..n + m
  <2>1. \A i \in n + 1..n + m : i \in 1..n + m /\ i - n \in 1..m /\ n + (i - n) = i
    BY <1>2
  <2>2. n + 1..n + m \subseteq keep
    BY <1>4, <1>6, <1>8, <2>1
  <2>3. \A i \in 1..n + m : i \notin 1..n => i \in n + 1..n + m
    BY <1>2
  <2>4. keep \subseteq n + 1..n + m
    BY <1>4, <1>5, <1>8, <2>3
  <2> QED
    BY <2>2, <2>4
<1>10. IsFiniteSet(keep) /\ Cardinality(keep) = m /\ keep \subseteq Int
  <2>1. PICK a, b : a = n + 1 /\ b = n + m /\ a \in Int /\ b \in Int
    BY <1>2
  <2>2. IsFiniteSet(a..b) /\ Cardinality(a..b) = IF a > b THEN 0 ELSE b - a + 1
    BY <2>1, FS_Interval
  <2>3. (IF a > b THEN 0 ELSE b - a + 1) = m
    BY <1>2, <2>1
  <2> QED
    BY <1>9, <2>1, <2>2, <2>3
<1>11. PICK t : t = Picked(asked, keep)
  OBVIOUS
<1>12. PICK at : Lists(t, asked, keep, at)
  BY <1>10, <1>11, PickedLists
<1>13. Len(t) = m /\ Range(t) = {asked[i] : i \in keep}
  BY <1>10, <1>12 DEF Lists
<1>14. ASSUME NEW x \in Range(t) PROVE \E i \in 1..m : x = Request(rest[i])
  <2>1. PICK i \in keep : x = asked[i]
    BY <1>13, <1>14
  <2>2. i - n \in 1..m /\ n + (i - n) = i
    BY <1>2, <1>9
  <2> QED
    BY <1>3, <2>1, <2>2
<1>15. t = Budgeted(d)
  BY <1>1, <1>8, <1>11 DEF Budgeted
<1> QED
  BY <1>13, <1>14, <1>15

\* What BudgetIsFair says of a decision.
Fair(d) ==
    LET budgeted == Budgeted(d)
    IN  /\ Len(d.requests) + Len(d.dropped) = Len(d.events)
        /\ \A e \in Range(d.events) : \/ Request(e) \in Range(d.requests)
                                      \/ DroppedEvent(e) \in Range(d.dropped)
        /\ \A e \in Range(d.dropped) : ~IsSafety(e)
        /\ Len(budgeted) <= Budget.requests
        /\ Len(budgeted) * BytesPerRequest <= Budget.bytes \/ Budget.bytes = ByteCap
        /\ d.dropped # <<>> => \/ Len(budgeted) = Budget.requests
                               \/ (Len(budgeted) + 1) * BytesPerRequest > Budget.bytes
        /\ \A e \in Range(d.dropped), f \in Range(budgeted) : f.priority >= e.priority

LEMMA SelectIsFair ==
  ASSUME NEW events, IsList(events), \A e \in Range(events) : IsEvent(e),
         NEW d, d = Select(events)
  PROVE  Fair(d)
<1>1. PICK safety, rest : \E m \in 0..Len(rest) :
            /\ IsList(safety) /\ \A x : x \in Range(safety) <=> x \in Range(events) /\ IsSafety(x)
            /\ IsList(rest) /\ \A x : x \in Range(rest) <=> x \in Range(events) /\ ~IsSafety(x)
            /\ Len(safety) + Len(rest) = Len(events)
            /\ Descending(rest)
            /\ d.events = events /\ TookFirst(d, safety, rest, Len(rest), m)
  BY DecisionParts
<1>2. PICK m \in 0..Len(rest) : TookFirst(d, safety, rest, Len(rest), m)
  BY <1>1
<1>3. /\ IsList(safety) /\ \A x : x \in Range(safety) <=> x \in Range(events) /\ IsSafety(x)
      /\ IsList(rest) /\ \A x : x \in Range(rest) <=> x \in Range(events) /\ ~IsSafety(x)
      /\ Len(safety) + Len(rest) = Len(events)
      /\ Descending(rest) /\ d.events = events
  BY <1>1
<1>4. PICK n, l : n = Len(safety) /\ l = Len(rest)
  OBVIOUS
<1>5. n \in Nat /\ l \in Nat /\ m \in Nat /\ m <= l /\ DOMAIN safety = 1..n /\ DOMAIN rest = 1..l
  BY <1>3, <1>4, ListDomain
<1>6. PICK asked, gone, budgeted : asked = d.requests /\ gone = d.dropped /\ budgeted = Budgeted(d)
  OBVIOUS
<1>7. Len(budgeted) = m /\ \A x \in Range(budgeted) : \E i \in 1..m : x = Request(rest[i])
  BY <1>2, <1>3, <1>6, BudgetedRequests
<1>8. /\ m <= Budget.requests /\ Bytes(m) <= Budget.bytes
      /\ IsList(asked) /\ Len(asked) = n + m
      /\ \A i \in 1..n : asked[i] = Request(safety[i])
      /\ \A i \in 1..m : asked[n + i] = Request(rest[i])
      /\ IsList(gone) /\ Len(gone) = l - m
      /\ \A i \in 1..l - m : gone[i] = DroppedEvent(rest[m + i])
      /\ m < l => ~Fits(m)
  BY <1>2, <1>4, <1>6 DEF TookFirst
<1>9. DOMAIN asked = 1..n + m /\ DOMAIN gone = 1..l - m
  BY <1>8, ListDomain
<1>10. Len(asked) + Len(gone) = Len(events)
  <2>1. n + l = Len(events)
    BY <1>3, <1>4
  <2>2. (n + m) + (l - m) = n + l
    BY <1>5
  <2> QED
    BY <1>8, <2>1, <2>2
<1>11. ASSUME NEW e \in Range(events)
       PROVE  Request(e) \in Range(asked) \/ DroppedEvent(e) \in Range(gone)
  <2>1. CASE IsSafety(e)
    <3>1. PICK i \in 1..n : e = safety[i]
      BY <1>3, <1>5, <2>1 DEF Range
    <3>2. i \in 1..n + m /\ asked[i] = Request(e)
      BY <1>5, <1>8, <3>1
    <3> QED
      BY <1>9, <3>2 DEF Range
  <2>2. CASE ~IsSafety(e)
    <3>1. PICK i \in 1..l : e = rest[i]
      BY <1>3, <1>5, <2>2 DEF Range
    <3>2. CASE i <= m
      <4>1. i \in 1..m /\ n + i \in 1..n + m
        BY <1>5, <3>2
      <4>2. asked[n + i] = Request(e)
        BY <1>8, <3>1, <4>1
      <4> QED
        BY <1>9, <4>1, <4>2 DEF Range
    <3>3. CASE ~(i <= m)
      <4>1. i - m \in 1..l - m /\ m + (i - m) = i
        BY <1>5, <3>3
      <4>2. gone[i - m] = DroppedEvent(e)
        BY <1>8, <3>1, <4>1
      <4> QED
        BY <1>9, <4>1, <4>2 DEF Range
    <3> QED
      BY <3>2, <3>3
  <2> QED
    BY <2>1, <2>2
<1>12. \A x \in Range(gone) : \E i \in 1..l : m < i /\ x = DroppedEvent(rest[i])
  <2> TAKE x \in Range(gone)
  <2>1. PICK j \in 1..l - m : x = gone[j]
    BY <1>9 DEF Range
  <2>2. m + j \in 1..l /\ m < m + j
    BY <1>5
  <2> QED
    BY <1>8, <2>1, <2>2
<1>13. \A x \in Range(gone) : ~IsSafety(x)
  <2> TAKE x \in Range(gone)
  <2>1. PICK i \in 1..l : x = DroppedEvent(rest[i])
    BY <1>12
  <2>2. rest[i] \in Range(rest)
    BY <1>5 DEF Range
  <2>3. ~IsSafety(rest[i])
    BY <1>3, <2>2
  <2> QED
    BY <2>1, <2>3, Reported
<1>14. PICK bytes, next : bytes = m * BytesPerRequest /\ next = (m + 1) * BytesPerRequest
  OBVIOUS
<1>15. bytes \in Nat /\ next \in Nat /\ ByteCap \in Nat /\ Budget.bytes \in Nat /\ Budget.bytes <= ByteCap
       /\ Budget.requests \in Nat
  BY <1>5, <1>14, BudgetAssumption
<1>16. m * BytesPerRequest <= Budget.bytes \/ Budget.bytes = ByteCap
  BY <1>8, <1>14, <1>15 DEF Bytes
<1>17. gone # <<>> => m = Budget.requests \/ (m + 1) * BytesPerRequest > Budget.bytes
  <2> HAVE gone # <<>>
  <2>1. m < l
    <3>1. l - m # 0
      <4>1. gone \in Seq(Range(gone))
        BY <1>8 DEF IsList
      <4>2. Len(gone) # 0
        BY <4>1, EmptySeq
      <4> QED
        BY <1>8, <4>2
    <3> QED
      BY <1>5, <3>1
  <2>2. ~(m < Budget.requests) \/ ~(Bytes(m + 1) <= Budget.bytes)
    BY <1>8, <2>1 DEF Fits
  <2>3. Bytes(m + 1) = IF next > ByteCap THEN ByteCap ELSE next
    BY <1>14 DEF Bytes
  <2>4. m = Budget.requests \/ next > Budget.bytes
    BY <1>5, <1>8, <1>15, <2>2, <2>3
  <2> QED
    BY <1>14, <2>4
<1>18. ASSUME NEW x \in Range(gone), NEW y \in Range(budgeted) PROVE y.priority >= x.priority
  <2>1. PICK i \in 1..l : m < i /\ x = DroppedEvent(rest[i])
    BY <1>12, <1>18
  <2>2. PICK j \in 1..m : y = Request(rest[j])
    BY <1>7, <1>18
  <2>3. j \in 1..l /\ j < i
    BY <1>5, <2>1
  <2>4. rest[j].priority >= rest[i].priority
    BY <1>3, <1>4, <2>3 DEF Descending
  <2> QED
    BY <2>1, <2>2, <2>4, Reported
<1> QED
  BY <1>3, <1>6, <1>7, <1>8, <1>10, <1>11, <1>13, <1>16, <1>17, <1>18 DEF Fair

LEMMA BudgetStart == Init => BudgetIsFair
<1> SUFFICES ASSUME Init PROVE BudgetIsFair
  OBVIOUS
<1>1. PICK d : d = decision.made /\ d = Select(<<>>)
  BY DEF Init, TriggerInit
<1>2. IsList(<<>>) /\ \A e \in Range(<<>>) : IsEvent(e)
  BY EmptyList
<1>3. Fair(d)
  BY <1>1, <1>2, SelectIsFair
<1> QED
  BY <1>1, <1>3 DEF BudgetIsFair, Fair, Budgeted

LEMMA BudgetStep ==
  ASSUME BudgetIsFair, [Next]_vars
  PROVE  BudgetIsFair'
<1>1. CASE decision' = decision
  BY <1>1 DEF BudgetIsFair
<1>2. CASE SelectUploads
  <2>1. PICK batch \in Batches, extra \in Flags :
           decision' = [calls |-> decision.calls + 1, made |-> Select(Detected(batch) \o extra)]
    BY <1>2 DEF SelectUploads
  <2>2. PICK events, d : events = Detected(batch) \o extra /\ d = decision'.made
    OBVIOUS
  <2>3. d = Select(events)
    BY <2>1, <2>2
  <2>4. IsList(events) /\ \A e \in Range(events) : IsEvent(e)
    BY <2>2, CallEvents
  <2>5. Fair(d)
    BY <2>3, <2>4, SelectIsFair
  <2> QED
    BY <2>2, <2>5 DEF BudgetIsFair, Fair, Budgeted
<1>3. decision' = decision \/ SelectUploads
  BY DEF Next, vars, triggerVars, Attribute, Label, Retract, AcceptLabel, Offer
<1> QED
  BY <1>1, <1>2, <1>3

\* Every event of a call is pulled or reported as dropped; safety events are
\* always pulled, the rest stays under both limits and leaves no room unused,
\* and nothing is dropped for the sake of an event of lower priority
\* (SelectiveUploadBroker::select).
THEOREM BudgetSafe == Spec => []BudgetIsFair
BY BudgetStart, BudgetStep, PTL DEF Spec

-----------------------------------------------------------------------------
(***************************************************************************)
(* What counts of a rollout, and what a compilation makes of it.           *)
(***************************************************************************)

\* Row j counts more than row k.
Overrules(table, j, k) ==
    \/ table[j].method = "manual" /\ table[k].method # "manual"
    \/ (table[j].method = "manual" <=> table[k].method = "manual") /\ j >= k

\* There is always exactly one row that counts, unless all are retracted.
LEMMA WinnerOverrules ==
  ASSUME NEW table, NEW n \in Nat, NEW rows, rows \subseteq 1..n, NEW w, w = WinningBinding(table, rows)
  PROVE  IF \A k \in rows : table[k].retracted THEN w = None
         ELSE /\ w # None /\ w \in rows /\ ~table[w].retracted
              /\ \A k \in rows : ~table[k].retracted => Overrules(table, w, k)
<1>1. PICK live : live = {k \in rows : ~table[k].retracted}
  OBVIOUS
<1>2. live \subseteq Nat /\ \A k \in live : k <= n
  <2>1. \A k \in 1..n : k \in Nat /\ k <= n
    OBVIOUS
  <2>2. live \subseteq 1..n
    BY <1>1
  <2> QED
    BY <2>1, <2>2
<1>3. CASE live = {}
  <2>1. w = None
    BY <1>1, <1>3 DEF WinningBinding
  <2> QED
    BY <1>1, <1>3, <2>1
<1>4. CASE live # {}
  <2>1. PICK manual : manual = {k \in live : table[k].method = "manual"}
    OBVIOUS
  <2>2. \E j \in live : \A k \in live : Overrules(table, j, k)
    <3>1. CASE manual = {}
      <4>1. PICK j \in live : \A k \in live : k <= j
        BY <1>2, <1>4, GreatestOf
      <4>2. \A k \in live : Overrules(table, j, k)
        BY <1>2, <2>1, <3>1, <4>1 DEF Overrules
      <4> QED
        BY <4>2
    <3>2. CASE manual # {}
      <4>1. manual \subseteq Nat /\ \A k \in manual : k <= n
        BY <1>2, <2>1
      <4>2. PICK j \in manual : \A k \in manual : k <= j
        BY <3>2, <4>1, GreatestOf
      <4>3. \A k \in live : Overrules(table, j, k)
        BY <2>1, <4>1, <4>2 DEF Overrules
      <4> QED
        BY <2>1, <4>3
    <3> QED
      BY <3>1, <3>2
  <2>3. w = CHOOSE j \in live : \A k \in live : Overrules(table, j, k)
    BY <1>1, <1>4 DEF WinningBinding, Overrules
  <2>4. w \in live /\ \A k \in live : Overrules(table, w, k)
    BY <2>2, <2>3
  <2>5. w # None
    BY <1>2, <2>4, NoneAssumption
  <2> QED
    BY <1>1, <2>4, <2>5
<1> QED
  BY <1>3, <1>4

LEMMA JudgeCases ==
  ASSUME NEW spec, NEW r, NEW j, j = Judge(spec, r), NEW w, w = WinningBinding(feedback, RowsOf(r.id))
  PROVE  \/ w = None /\ \E reason \in ReviewReasons : j = Review(r, None, reason)
         \/ w # None /\ j = Review(r, w, "BelowMinConfidence")
         \/ w # None /\ j = Filtered /\ (~Allows(spec.class, feedback[w].class) \/ ~InTsWindow(spec, feedback[w].ts))
         \/ w # None /\ j = Pin(r, w) /\ ~(feedback[w].confidence < spec.floor) /\ InTsWindow(spec, feedback[w].ts)
<1>1. CASE w = None
  <2>1. j = Review(r, None, IF RowsOf(r.id) = {} THEN "NoSurvivingBinding" ELSE "Retracted")
    BY <1>1 DEF Judge
  <2> QED
    BY <1>1, <2>1 DEF ReviewReasons
<1>2. CASE w # None
  <2>1. PICK row : row = feedback[w]
    OBVIOUS
  <2>2. j = IF row.confidence < spec.floor THEN Review(r, w, "BelowMinConfidence")
            ELSE IF ~Allows(spec.class, row.class) \/ ~InTsWindow(spec, row.ts) THEN Filtered
            ELSE Pin(r, w)
    BY <1>2, <2>1 DEF Judge
  <2> QED
    BY <1>2, <2>1, <2>2
<1> QED
  BY <1>1, <1>2

\* Every candidate has one fate.
JudgedOf(spec, rollouts) ==
    [i \in DOMAIN rollouts |-> IF Candidate(spec, rollouts[i]) THEN Judge(spec, rollouts[i]) ELSE Filtered]
Having(judged, out) == {i \in DOMAIN judged : judged[i].out = out}

LEMMA FateOf ==
  ASSUME NEW spec, NEW rollouts \in Inputs, NEW out \in {"item", "review"},
         NEW judged, judged = JudgedOf(spec, rollouts),
         NEW t, t = Sorted(judged, Having(judged, out), SmallerId)
  PROVE  /\ IsList(t)
         /\ \A x : x \in Range(t) <=>
                 \E r \in Range(rollouts) : Candidate(spec, r) /\ x = Judge(spec, r) /\ x.out = out
<1>1. PICK n, keep : n = Len(rollouts) /\ keep = Having(judged, out)
  OBVIOUS
<1>2. IsList(rollouts) /\ \A r \in Range(rollouts) : r.id \in Nat
  BY InputsAssumption
<1>3. n \in Nat /\ DOMAIN rollouts = 1..n /\ IsFiniteSet(1..n) /\ 1..n \subseteq Int
  BY <1>1, <1>2, ListDomain
<1>4. /\ DOMAIN judged = 1..n
      /\ \A i \in 1..n : judged[i] = IF Candidate(spec, rollouts[i]) THEN Judge(spec, rollouts[i]) ELSE Filtered
  BY <1>3 DEF JudgedOf
<1>5. \A i \in keep : i \in 1..n /\ judged[i].out = out
  BY <1>1, <1>4 DEF Having
<1>6. \A i \in keep : Candidate(spec, rollouts[i]) /\ judged[i] = Judge(spec, rollouts[i])
  BY <1>4, <1>5 DEF Filtered
<1>7. IsFiniteSet(keep) /\ keep \subseteq Int
  <2>1. keep \subseteq 1..n
    BY <1>5
  <2>2. IsFiniteSet(keep)
    BY <1>3, <2>1, FS_Subset
  <2> QED
    BY <1>3, <2>1, <2>2
<1>8. \A i \in keep : judged[i].rollout \in Nat
  <2> TAKE i \in keep
  <2>1. PICK r \in Range(rollouts) : r = rollouts[i]
    BY <1>2, <1>3, <1>5, ListDomain
  <2>2. PICK w : w = WinningBinding(feedback, RowsOf(r.id))
    OBVIOUS
  <2>3. PICK j : j = Judge(spec, r)
    OBVIOUS
  <2>4. j = judged[i] /\ j.out = out
    BY <1>5, <1>6, <2>1, <2>3
  <2>5. \/ j = Filtered
        \/ \E reason \in ReviewReasons : j = Review(r, None, reason)
        \/ j = Review(r, w, "BelowMinConfidence") \/ j = Pin(r, w)
    BY <2>2, <2>3, JudgeCases
  <2>6. j # Filtered
    BY <2>4 DEF Filtered
  <2>7. j.rollout = r.id
    BY <2>5, <2>6 DEF Review, Pin
  <2> QED
    BY <1>2, <2>1, <2>4, <2>7
<1>9. PICK less : less = Less(judged, keep, SmallerId)
  OBVIOUS
<1>10. \A i, j \in keep : <<i, j>> \in less <=> judged[i].rollout < judged[j].rollout
  BY <1>9 DEF Less, SmallerId
<1>11. WeakOrder(keep, less)
  BY <1>8, <1>10 DEF WeakOrder
<1>12. t = Arranged(judged, keep, Stable(keep, less))
  BY <1>1, <1>9 DEF Sorted
<1>13. PICK at : Lists(t, judged, keep, at)
  <2>1. PICK u : u = Arranged(judged, keep, Stable(keep, less))
    OBVIOUS
  <2>2. \E at : Lists(u, judged, keep, at)
    BY <1>7, <1>11, <2>1, SortedLists
  <2> QED
    BY <1>12, <2>1, <2>2
<1>14. IsList(t) /\ Range(t) = {judged[i] : i \in keep}
  BY <1>13, ListIn DEF Lists
<1>15. ASSUME NEW x \in Range(t)
       PROVE  \E r \in Range(rollouts) : Candidate(spec, r) /\ x = Judge(spec, r) /\ x.out = out
  <2>1. PICK i \in keep : x = judged[i]
    BY <1>14, <1>15
  <2>2. rollouts[i] \in Range(rollouts)
    BY <1>2, <1>3, <1>5, ListDomain
  <2> QED
    BY <1>5, <1>6, <2>1, <2>2
<1>16. ASSUME NEW r \in Range(rollouts), NEW x, Candidate(spec, r), x = Judge(spec, r), x.out = out
       PROVE  x \in Range(t)
  <2>1. PICK i \in 1..n : rollouts[i] = r
    BY <1>3 DEF Range
  <2>2. judged[i] = x
    BY <1>4, <1>16, <2>1
  <2>3. i \in keep
    BY <1>1, <1>4, <1>16, <2>2 DEF Having
  <2> QED
    BY <1>14, <2>2, <2>3
<1> QED
  BY <1>14, <1>15, <1>16

\* What a slice holds.
LEMMA SliceLists ==
  ASSUME NEW spec, NEW rollouts \in Inputs, NEW slice, slice = CompileSlice(spec, rollouts)
  PROVE  /\ slice.spec = spec /\ IsList(slice.items)
         /\ slice.episodes = {slice.items[i].episode : i \in DOMAIN slice.items}
         /\ \A x : x \in Range(slice.items) <=>
                 \E r \in Range(rollouts) : Candidate(spec, r) /\ x = Judge(spec, r) /\ x.out = "item"
         /\ \A x : x \in Range(slice.review) <=>
                 \E r \in Range(rollouts) : Candidate(spec, r) /\ x = Judge(spec, r) /\ x.out = "review"
<1>1. PICK judged : judged = JudgedOf(spec, rollouts)
  OBVIOUS
<1>2. PICK items, review : /\ items = Sorted(judged, Having(judged, "item"), SmallerId)
                           /\ review = Sorted(judged, Having(judged, "review"), SmallerId)
  OBVIOUS
<1>3. slice = ResolvedSlice(spec, rollouts, items, review)
  BY <1>1, <1>2 DEF CompileSlice, JudgedOf, Having
<1>4. /\ slice.spec = spec /\ slice.items = items /\ slice.review = review
      /\ slice.episodes = {items[i].episode : i \in DOMAIN items}
  <2>1. PICK u : u = ResolvedSlice(spec, rollouts, items, review)
    OBVIOUS
  <2>2. /\ u.spec = spec /\ u.items = items /\ u.review = review
        /\ u.episodes = {items[i].episode : i \in DOMAIN items}
    BY <2>1 DEF ResolvedSlice
  <2> QED
    BY <1>3, <2>1, <2>2
<1>5. /\ IsList(items)
      /\ \A x : x \in Range(items) <=>
              \E r \in Range(rollouts) : Candidate(spec, r) /\ x = Judge(spec, r) /\ x.out = "item"
  BY <1>1, <1>2, FateOf
<1>6. \A x : x \in Range(review) <=>
              \E r \in Range(rollouts) : Candidate(spec, r) /\ x = Judge(spec, r) /\ x.out = "review"
  BY <1>1, <1>2, FateOf
<1> QED
  BY <1>4, <1>5, <1>6

-----------------------------------------------------------------------------
(***************************************************************************)
(* A commit pins the rows that counted when it was sealed.                 *)
(***************************************************************************)

Alive(table, c, rollout) == {k \in 1..c.length : table[k].rollout = rollout /\ ~table[k].retracted}

\* What PinnedIsAuthoritative says of an item, and of a rollout, of a commit.
ItemIsBest(table, c, i) ==
    /\ i.row \in Alive(table, c, i.rollout)
    /\ table[i.row].confidence >= c.slice.spec.floor /\ InTsWindow(c.slice.spec, table[i.row].ts)
    /\ i.synthetic => c.slice.spec.synthetic
    /\ \A k \in Alive(table, c, i.rollout) \ {i.row} :
          \/ table[i.row].method = "manual" /\ table[k].method # "manual"
          \/ k < i.row /\ (table[k].method = "manual" => table[i.row].method = "manual")

FateIsTold(table, c, r) ==
    Candidate(c.slice.spec, r) /\ r.id \notin {i.rollout : i \in Range(c.slice.items)}
        => \/ \E x \in Range(c.slice.review) : x.rollout = r.id /\ x.reason \in ReviewReasons
                  /\ (x.row = None => Alive(table, c, r.id) = {})
           \/ \E k \in Alive(table, c, r.id) :
                  ~Allows(c.slice.spec.class, table[k].class) \/ ~InTsWindow(c.slice.spec, table[k].ts)

Pinned(table, c) ==
    /\ \A i \in Range(c.slice.items) : ItemIsBest(table, c, i)
    /\ \A r \in Range(c.rollouts) : FateIsTold(table, c, r)

\* What an export relies on.
Sealed(n, c) ==
    /\ c.id = c.slice.hash /\ c.rollouts \in Inputs /\ c.length \in 0..n
    /\ IsList(c.slice.items)
    /\ \A i \in Range(c.slice.items) : i.row \in 1..c.length /\ \E r \in Range(c.rollouts) : r.id = i.rollout
    /\ \A x \in Range(c.slice.items) : x.episode \in c.slice.episodes

CommitsInv == \A c \in commits : Sealed(Len(feedback), c) /\ Pinned(feedback, c)

\* A row that is appended later changes nothing that a commit pins.
LEMMA PinnedStays ==
  ASSUME NEW c, NEW t, NEW u, NEW n \in Nat, Sealed(n, c), \A k \in 1..n : u[k] = t[k], Pinned(t, c)
  PROVE  Pinned(u, c)
<1>1. PICK m : m = c.length /\ m \in Nat /\ m <= n
  BY DEF Sealed
<1>2. \A k \in 1..m : u[k] = t[k]
  <2>1. \A k \in 1..m : k \in 1..n
    BY <1>1
  <2> QED
    BY <2>1
<1>3. ASSUME NEW rollout PROVE Alive(u, c, rollout) = Alive(t, c, rollout) /\ Alive(t, c, rollout) \subseteq 1..m
  BY <1>1, <1>2 DEF Alive
<1>4. ASSUME NEW i \in Range(c.slice.items) PROVE ItemIsBest(u, c, i)
  <2>1. ItemIsBest(t, c, i)
    BY DEF Pinned
  <2>2. PICK alive : alive = Alive(t, c, i.rollout)
    OBVIOUS
  <2>3. alive = Alive(u, c, i.rollout) /\ \A k \in alive : u[k] = t[k]
    BY <1>2, <1>3, <2>2
  <2>4. i.row \in alive /\ u[i.row] = t[i.row]
    BY <2>1, <2>2, <2>3 DEF ItemIsBest
  <2> QED
    BY <2>1, <2>2, <2>3, <2>4 DEF ItemIsBest
<1>5. ASSUME NEW r \in Range(c.rollouts) PROVE FateIsTold(u, c, r)
  <2>1. FateIsTold(t, c, r)
    BY DEF Pinned
  <2>2. PICK alive : alive = Alive(t, c, r.id)
    OBVIOUS
  <2>3. alive = Alive(u, c, r.id) /\ \A k \in alive : u[k] = t[k]
    BY <1>2, <1>3, <2>2
  <2> QED
    BY <2>1, <2>2, <2>3 DEF FateIsTold
<1> QED
  BY <1>4, <1>5 DEF Pinned

\* What a compilation seals is the best there is in the table.
LEMMA CompilePins ==
  ASSUME RowsInv, NEW d \in Specs, NEW rollouts \in Inputs,
         NEW c, c = Seal(CompileSlice(DictToSliceSpec(d), rollouts), rollouts)
  PROVE  Sealed(Len(feedback), c) /\ Pinned(feedback, c)
<1>1. PICK spec, slice, n : spec = DictToSliceSpec(d) /\ slice = CompileSlice(spec, rollouts) /\ n = Len(feedback)
  OBVIOUS
<1>2. c.id = slice.hash /\ c.slice = slice /\ c.rollouts = rollouts /\ c.length = n
  BY <1>1 DEF Seal
<1>3. spec.floor \in Int
  <2>1. IsSliceSpec(spec)
    BY <1>1, SpecsAssumption
  <2>2. spec.floor \in 0..One
    BY <2>1 DEF IsSliceSpec
  <2> QED
    BY <2>2 DEF One
<1>4. n \in Nat /\ DOMAIN feedback = 1..n /\ \A k \in 1..n : feedback[k].confidence \in Int
  <2>1. n \in Nat /\ DOMAIN feedback = 1..n /\ \A k \in 1..n : feedback[k] \in FeedbackRows
    BY <1>1, LenProperties, ElementOfSeq DEF RowsInv
  <2>2. ASSUME NEW row \in FeedbackRows PROVE row.confidence \in Int
    BY DEF FeedbackRows, One
  <2> QED
    BY <2>1, <2>2
<1>5. /\ slice.spec = spec /\ IsList(slice.items)
      /\ slice.episodes = {slice.items[i].episode : i \in DOMAIN slice.items}
      /\ \A x : x \in Range(slice.items) <=>
              \E r \in Range(rollouts) : Candidate(spec, r) /\ x = Judge(spec, r) /\ x.out = "item"
      /\ \A x : x \in Range(slice.review) <=>
              \E r \in Range(rollouts) : Candidate(spec, r) /\ x = Judge(spec, r) /\ x.out = "review"
  BY SMTT(30), <1>1, SliceLists
<1>6. ASSUME NEW r, NEW w, w = WinningBinding(feedback, RowsOf(r.id))
      PROVE  IF Alive(feedback, c, r.id) = {} THEN w = None
             ELSE /\ w # None /\ w \in Alive(feedback, c, r.id)
                  /\ \A k \in Alive(feedback, c, r.id) : Overrules(feedback, w, k)
  <2>1. PICK rows : rows = RowsOf(r.id)
    OBVIOUS
  <2>2. rows = {k \in 1..n : feedback[k].rollout = r.id}
    BY <1>4, <2>1 DEF RowsOf
  <2>3. IF \A k \in rows : feedback[k].retracted THEN w = None
        ELSE /\ w # None /\ w \in rows /\ ~feedback[w].retracted
             /\ \A k \in rows : ~feedback[k].retracted => Overrules(feedback, w, k)
    <3>1. rows \subseteq 1..n
      BY <2>2
    <3> QED
      BY <1>4, <1>6, <2>1, <3>1, WinnerOverrules
  <2>4. \A k : k \in Alive(feedback, c, r.id) <=> k \in rows /\ ~feedback[k].retracted
    BY <1>2, <2>2 DEF Alive
  <2> QED
    BY <2>3, <2>4
<1>7. ASSUME NEW i \in Range(slice.items)
      PROVE  /\ ItemIsBest(feedback, c, i) /\ i.row \in 1..n
             /\ \E r \in Range(rollouts) : r.id = i.rollout
  <2>1. PICK r \in Range(rollouts) : Candidate(spec, r) /\ i = Judge(spec, r) /\ i.out = "item"
    BY <1>5, <1>7
  <2>2. PICK w : w = WinningBinding(feedback, RowsOf(r.id))
    OBVIOUS
  <2>3. /\ w # None /\ i = Pin(r, w) /\ ~(feedback[w].confidence < spec.floor)
        /\ InTsWindow(spec, feedback[w].ts)
    BY <2>1, <2>2, JudgeCases DEF Review, Filtered
  <2>4. i.row = w /\ i.rollout = r.id /\ i.synthetic = r.synthetic
    BY <2>3 DEF Pin
  <2>5. PICK alive : alive = Alive(feedback, c, r.id)
    OBVIOUS
  <2>6. w \in alive /\ \A k \in alive : Overrules(feedback, w, k)
    BY <1>6, <2>2, <2>3, <2>5
  <2>7. alive \subseteq 1..n
    BY <1>2, <2>5 DEF Alive
  <2>8. feedback[w].confidence >= spec.floor
    BY <1>3, <1>4, <2>3, <2>6, <2>7
  <2>9. i.synthetic => spec.synthetic
    BY <2>1, <2>4 DEF Candidate
  <2>10. \A k \in alive \ {w} : \/ feedback[w].method = "manual" /\ feedback[k].method # "manual"
                                \/ k < w /\ (feedback[k].method = "manual" => feedback[w].method = "manual")
    <3> TAKE k \in alive \ {w}
    <3>1. k \in 1..n /\ w \in 1..n /\ k # w /\ Overrules(feedback, w, k)
      BY <2>6, <2>7
    <3>2. w >= k => k < w
      BY <3>1
    <3> QED
      BY <3>1, <3>2 DEF Overrules
  <2>11. ItemIsBest(feedback, c, i)
    BY <1>2, <1>5, <2>3, <2>4, <2>5, <2>6, <2>8, <2>9, <2>10 DEF ItemIsBest
  <2> QED
    BY <2>1, <2>4, <2>6, <2>7, <2>11
<1>8. ASSUME NEW r \in Range(rollouts), Candidate(spec, r), r.id \notin {i.rollout : i \in Range(slice.items)}
      PROVE  \/ \E x \in Range(slice.review) : x.rollout = r.id /\ x.reason \in ReviewReasons
                   /\ (x.row = None => Alive(feedback, c, r.id) = {})
             \/ \E k \in Alive(feedback, c, r.id) :
                   ~Allows(spec.class, feedback[k].class) \/ ~InTsWindow(spec, feedback[k].ts)
  <2>1. PICK w, j : w = WinningBinding(feedback, RowsOf(r.id)) /\ j = Judge(spec, r)
    OBVIOUS
  <2>2. PICK alive : alive = Alive(feedback, c, r.id)
    OBVIOUS
  <2>3. IF alive = {} THEN w = None ELSE w # None /\ w \in alive
    BY <1>6, <2>1, <2>2
  <2>4. CASE w = None /\ \E reason \in ReviewReasons : j = Review(r, None, reason)
    <3>1. PICK reason \in ReviewReasons : j = Review(r, None, reason)
      BY <2>4
    <3>2. j.out = "review" /\ j.rollout = r.id /\ j.reason = reason
      BY <3>1 DEF Review
    <3>3. j \in Range(slice.review)
      BY <1>5, <1>8, <2>1, <3>2
    <3> QED
      BY <2>2, <2>3, <2>4, <3>2, <3>3
  <2>5. CASE w # None /\ j = Review(r, w, "BelowMinConfidence")
    <3>1. j.out = "review" /\ j.rollout = r.id /\ j.reason = "BelowMinConfidence" /\ j.row = w
      BY <2>5 DEF Review
    <3>2. j \in Range(slice.review)
      BY <1>5, <1>8, <2>1, <3>1
    <3>3. j.reason \in ReviewReasons /\ j.row # None
      BY <2>5, <3>1 DEF ReviewReasons
    <3> QED
      BY <3>1, <3>2, <3>3
  <2>6. CASE w # None /\ (~Allows(spec.class, feedback[w].class) \/ ~InTsWindow(spec, feedback[w].ts))
    BY <2>2, <2>3, <2>6
  <2>7. CASE w # None /\ j = Pin(r, w)
    <3>1. j.out = "item" /\ j.rollout = r.id
      BY <2>7 DEF Pin
    <3>2. j \in Range(slice.items)
      BY <1>5, <1>8, <2>1, <3>1
    <3> QED
      BY <1>8, <3>1, <3>2
  <2> QED
    BY <2>1, <2>4, <2>5, <2>6, <2>7, JudgeCases
<1>9. \A r \in Range(rollouts) : FateIsTold(feedback, c, r)
  BY <1>2, <1>5, <1>8 DEF FateIsTold
<1>10. Pinned(feedback, c)
  BY <1>2, <1>7, <1>9 DEF Pinned
<1>11. \A x \in Range(slice.items) : x.episode \in slice.episodes
  BY <1>5 DEF Range
<1>12. Sealed(n, c)
  BY <1>2, <1>4, <1>5, <1>7, <1>11 DEF Sealed
<1> QED
  BY <1>1, <1>10, <1>12

LEMMA CommitsStep ==
  ASSUME EventsInv, QueueInv, RowsInv, CommitsInv, [Next]_vars
  PROVE  CommitsInv'
<1>1. PICK n, m : n = Len(feedback) /\ m = Len(feedback')
  OBVIOUS
<1>2. /\ n \in Nat /\ m \in Nat /\ n <= m
      /\ \A k \in 1..n : feedback'[k] = feedback[k]
  BY <1>1, FeedbackGrows, GrownTable
<1>3. ASSUME NEW c \in commits PROVE Sealed(m, c) /\ Pinned(feedback', c)
  <2>1. Sealed(n, c) /\ Pinned(feedback, c)
    BY <1>1 DEF CommitsInv
  <2>2. Pinned(feedback', c)
    BY <1>2, <2>1, PinnedStays
  <2>3. Sealed(m, c)
    <3>1. 0..n \subseteq 0..m
      BY <1>2
    <3> QED
      BY <2>1, <3>1 DEF Sealed
  <2> QED
    BY <2>2, <2>3
<1>4. CASE commits' = commits
  BY <1>1, <1>3, <1>4 DEF CommitsInv
<1>5. CASE Compile
  <2>1. PICK d \in Specs, rollouts \in Inputs :
           commits' = commits \cup {Seal(CompileSlice(DictToSliceSpec(d), rollouts), rollouts)}
    BY <1>5 DEF Compile
  <2>2. PICK c : c = Seal(CompileSlice(DictToSliceSpec(d), rollouts), rollouts)
    OBVIOUS
  <2>3. Sealed(n, c) /\ Pinned(feedback, c)
    BY <1>1, <2>2, CompilePins
  <2>4. feedback' = feedback /\ m = n
    BY <1>1, <1>5 DEF Compile
  <2>5. commits' = commits \cup {c}
    BY <2>1, <2>2
  <2>6. \A x \in commits' : Sealed(m, x) /\ Pinned(feedback', x)
    BY <1>3, <2>3, <2>4, <2>5
  <2> QED
    BY <1>1, <2>6 DEF CommitsInv
<1>6. commits' = commits \/ Compile
  BY DEF Next, vars, datasetVars, Attribute, Label, Retract, Appended, RecordCommit, RecordTrainedFrom
<1> QED
  BY <1>4, <1>5, <1>6

LEMMA CommitsStart == Init => CommitsInv
BY DEF Init, DatasetInit, CommitsInv

LEMMA PinnedHolds == CommitsInv => PinnedIsAuthoritative
<1> SUFFICES ASSUME CommitsInv PROVE PinnedIsAuthoritative
  OBVIOUS
<1>1. ASSUME NEW c \in commits
      PROVE  Pinned(feedback, c)
  BY DEF CommitsInv
<1> QED
  BY <1>1 DEF PinnedIsAuthoritative, Pinned, ItemIsBest, FateIsTold, Alive

\* What a commit pins counted when it was sealed: not retracted, above the
\* floor, inside the window, overruled by no other row of its rollout; and no
\* candidate vanished without a reason (compile_slice).
THEOREM PinnedSafe == Spec => []PinnedIsAuthoritative
BY Start, Step, CommitsStart, CommitsStep, PinnedHolds, PTL DEF Spec, IInv

-----------------------------------------------------------------------------
(***************************************************************************)
(* The export has one frame per item whose row is supplied.                *)
(***************************************************************************)

Supplied(c, ids) == {i \in DOMAIN c.slice.items : c.slice.items[i].row \in ids}

\* An item that is supplied has its rollout, so each of them gives a frame.
LEMMA FramesOfItems ==
  ASSUME NEW n, NEW c, Sealed(n, c), NEW ids,
         NEW its, its = Picked(c.slice.items, Supplied(c, ids)),
         NEW frames, frames = Frames(c.slice, c.rollouts, ids)
  PROVE  /\ IsList(its) /\ Range(its) \subseteq Range(c.slice.items)
         /\ DOMAIN frames = 1..Len(its)
         /\ \A k \in 1..Len(its) : \E r : r \in Range(c.rollouts) /\ frames[k] = Frame(its[k], r)
<1>1. PICK items, keep : items = c.slice.items /\ keep = Supplied(c, ids)
  OBVIOUS
<1>2. IsList(items) /\ \A i \in Range(items) : \E r \in Range(c.rollouts) : r.id = i.rollout
  BY <1>1 DEF Sealed
<1>3. IsFiniteSet(DOMAIN items) /\ DOMAIN items \subseteq Int /\ \A i \in DOMAIN items : items[i] \in Range(items)
  BY <1>2, ListDomain
<1>4. keep \subseteq DOMAIN items /\ keep = {i \in DOMAIN items : items[i].row \in ids}
  BY <1>1 DEF Supplied
<1>5. IsFiniteSet(keep) /\ keep \subseteq Int
  BY <1>3, <1>4, FS_Subset
<1>6. PICK at : Lists(its, items, keep, at)
  <2>1. PICK t : t = Picked(items, keep)
    OBVIOUS
  <2>2. \E at : Lists(t, items, keep, at)
    BY <1>5, <2>1, PickedLists
  <2> QED
    BY <1>1, <2>1, <2>2
<1>7. PICK m : m = Len(its)
  OBVIOUS
<1>8. IsList(its) /\ DOMAIN its = 1..m /\ Range(its) = {items[i] : i \in keep}
  BY <1>6, <1>7, ListIn DEF Lists
<1>9. Range(its) \subseteq Range(items)
  BY <1>3, <1>4, <1>8
<1>10. keep = {i \in DOMAIN items : /\ items[i].row \in ids
                                    /\ \E r \in Range(c.rollouts) : r.id = items[i].rollout}
  BY <1>2, <1>3, <1>4
<1>11. its = Picked(items, {i \in DOMAIN items : /\ items[i].row \in ids
                                                 /\ \E r \in Range(c.rollouts) : r.id = items[i].rollout})
  BY <1>1, <1>10
<1>12. frames = [k \in DOMAIN its |-> Frame(its[k], CHOOSE r \in Range(c.rollouts) : r.id = its[k].rollout)]
  BY SMTT(30), <1>1, <1>11 DEF Frames
<1>13. ASSUME NEW k \in 1..m PROVE \E r : r \in Range(c.rollouts) /\ frames[k] = Frame(its[k], r)
  <2>1. PICK i : i = its[k] /\ i \in Range(items)
    BY <1>8, <1>9 DEF Range
  <2>2. PICK r : r = CHOOSE x \in Range(c.rollouts) : x.id = i.rollout
    OBVIOUS
  <2>3. r \in Range(c.rollouts)
    BY <1>2, <2>1, <2>2
  <2>4. frames[k] = Frame(i, r)
    BY <1>8, <1>12, <2>1, <2>2
  <2> QED
    BY <2>1, <2>3, <2>4
<1> QED
  BY <1>1, <1>7, <1>8, <1>9, <1>12, <1>13

\* The frames of an episode, by step.
LEMMA EpisodeFrames ==
  ASSUME NEW m \in Nat, NEW frames, DOMAIN frames = 1..m, \A k \in 1..m : frames[k].step \in Nat,
         NEW e, NEW t, t = Sorted(frames, FramesOf(frames, e), SmallerStep)
  PROVE  /\ DOMAIN t = 1..Cardinality(FramesOf(frames, e))
         /\ Range(t) = {frames[k] : k \in FramesOf(frames, e)}
         /\ \A i, j \in DOMAIN t : i < j => t[i].step <= t[j].step
<1>1. PICK keep, n : keep = FramesOf(frames, e) /\ n = Cardinality(keep)
  OBVIOUS
<1>2. keep \subseteq 1..m
  BY <1>1 DEF FramesOf
<1>3. IsFiniteSet(keep) /\ keep \subseteq Int
  <2>1. 1 \in Int /\ m \in Int /\ 1..m \subseteq Int
    OBVIOUS
  <2>2. IsFiniteSet(1..m)
    BY <2>1, FS_Interval
  <2>3. IsFiniteSet(keep)
    BY <1>2, <2>2, FS_Subset
  <2> QED
    BY <1>2, <2>1, <2>3
<1>4. PICK less : less = Less(frames, keep, SmallerStep)
  OBVIOUS
<1>5. \A i, j \in keep : <<i, j>> \in less <=> frames[i].step < frames[j].step
  BY <1>4 DEF Less, SmallerStep
<1>6. \A i \in keep : frames[i].step \in Nat
  BY <1>2
<1>7. WeakOrder(keep, less)
  BY SMTT(30), <1>5, <1>6 DEF WeakOrder
<1>8. t = Arranged(frames, keep, Stable(keep, less))
  BY <1>1, <1>4 DEF Sorted
<1>9. PICK at : Lists(t, frames, keep, at) /\ \A k, l \in 1..n : k < l => <<at[l], at[k]>> \notin less
  <2>1. PICK u : u = Arranged(frames, keep, Stable(keep, less))
    OBVIOUS
  <2>2. \E at : Lists(u, frames, keep, at) /\ \A k, l \in 1..n : k < l => <<at[l], at[k]>> \notin less
    BY <1>1, <1>3, <1>7, <2>1, SortedLists
  <2> QED
    BY <1>8, <2>1, <2>2
<1>10. /\ DOMAIN t = 1..n /\ Range(t) = {frames[k] : k \in keep} /\ at \in [1..n -> keep]
       /\ \A k \in 1..n : t[k] = frames[at[k]]
  BY <1>1, <1>9 DEF Lists
<1>11. ASSUME NEW i \in 1..n, NEW j \in 1..n, i < j PROVE t[i].step <= t[j].step
  <2>1. at[i] \in keep /\ at[j] \in keep /\ <<at[j], at[i]>> \notin less
    BY <1>9, <1>10, <1>11
  <2> QED
    BY <1>5, <1>6, <1>10, <2>1
<1> QED
  BY <1>1, <1>10, <1>11

\* What the frame of an item says.
LEMMA FrameSays ==
  ASSUME NEW i, NEW r
  PROVE  /\ Frame(i, r).episode = i.episode /\ Frame(i, r).step = r.step /\ Frame(i, r).row = i.row
         /\ Frame(i, r).label.type = "failure_class" <=> feedback[i.row].class \in FailureClasses
<1>1. PICK label : label = FrameLabel(feedback[i.row].class)
  OBVIOUS
<1>2. label.type = "failure_class" <=> feedback[i.row].class \in FailureClasses
  BY <1>1 DEF FrameLabel
<1>3. /\ Frame(i, r).episode = i.episode /\ Frame(i, r).step = r.step /\ Frame(i, r).row = i.row
      /\ Frame(i, r).label = label
  BY <1>1 DEF Frame
<1> QED
  BY <1>2, <1>3

\* What ExportIsComplete says of an export.
Complete(c, its, manifest) ==
    /\ manifest.source = c.id /\ FrameCount(manifest) = Len(its)
    /\ \A i \in Range(its) : \E f \in Range(manifest.episodes[i.episode]) :
          f.row = i.row /\ (f.label.type = "failure_class" <=> feedback[i.row].class \in FailureClasses)
    /\ \A e \in DOMAIN manifest.episodes : \A i, j \in DOMAIN manifest.episodes[e] :
          i < j => manifest.episodes[e][i].step <= manifest.episodes[e][j].step

LEMMA ExportOf ==
  ASSUME NEW n, NEW c, Sealed(n, c), NEW ids,
         NEW its, its = Picked(c.slice.items, Supplied(c, ids)),
         NEW manifest, manifest = ToManifest(c.slice, c.rollouts, ids)
  PROVE  Complete(c, its, manifest)
<1>1. PICK frames : frames = Frames(c.slice, c.rollouts, ids)
  OBVIOUS
<1>2. PICK m : m = Len(its)
  OBVIOUS
<1>3. /\ IsList(its) /\ DOMAIN frames = 1..m
      /\ \A k \in 1..m : \E r : r \in Range(c.rollouts) /\ frames[k] = Frame(its[k], r)
  BY <1>1, <1>2, FramesOfItems
<1>4. m \in Nat /\ DOMAIN its = 1..m
  BY <1>2, <1>3, ListDomain
<1>5. \A r \in Range(c.rollouts) : r.step \in Nat
  BY InputsAssumption DEF Sealed
<1>6. \A k \in 1..m : /\ frames[k].episode = its[k].episode /\ frames[k].step \in Nat /\ frames[k].row = its[k].row
                      /\ frames[k].label.type = "failure_class" <=> feedback[its[k].row].class \in FailureClasses
  <2> TAKE k \in 1..m
  <2>1. PICK r : r \in Range(c.rollouts) /\ frames[k] = Frame(its[k], r)
    BY <1>3
  <2> QED
    BY <1>5, <2>1, FrameSays
<1>7. PICK E, T : /\ E = {f.episode : f \in Range(frames)}
                  /\ T = [e \in E |-> Sorted(frames, FramesOf(frames, e), SmallerStep)]
  OBVIOUS
<1>8. manifest.source = c.slice.hash /\ manifest.episodes = T
  <2>1. manifest = Manifest(c.slice, T)
    BY <1>1, <1>7 DEF ToManifest
  <2> QED
    BY <2>1 DEF Manifest
<1>9. manifest.source = c.id
  BY <1>8 DEF Sealed
<1>10. DOMAIN T = E /\ \A k \in 1..m : frames[k].episode \in E
  BY <1>3, <1>7 DEF Range
<1>11. ASSUME NEW e \in E
       PROVE  /\ DOMAIN T[e] = 1..Cardinality(FramesOf(frames, e))
              /\ Range(T[e]) = {frames[k] : k \in FramesOf(frames, e)}
              /\ \A i, j \in DOMAIN T[e] : i < j => T[e][i].step <= T[e][j].step
  <2>1. PICK t : t = T[e]
    OBVIOUS
  <2>2. t = Sorted(frames, FramesOf(frames, e), SmallerStep)
    BY <1>7, <2>1
  <2>3. /\ DOMAIN t = 1..Cardinality(FramesOf(frames, e))
        /\ Range(t) = {frames[k] : k \in FramesOf(frames, e)}
        /\ \A i, j \in DOMAIN t : i < j => t[i].step <= t[j].step
    BY <1>3, <1>4, <1>6, <2>2, EpisodeFrames
  <2> QED
    BY <2>1, <2>3
<1>12. ASSUME NEW i \in Range(its)
       PROVE  \E f \in Range(T[i.episode]) :
                 f.row = i.row /\ (f.label.type = "failure_class" <=> feedback[i.row].class \in FailureClasses)
  <2>1. PICK k \in 1..m : its[k] = i
    BY <1>4 DEF Range
  <2>2. PICK f : f = frames[k]
    OBVIOUS
  <2>3. /\ f.episode = i.episode /\ f.row = i.row /\ f.episode \in E
        /\ f.label.type = "failure_class" <=> feedback[i.row].class \in FailureClasses
    BY <1>6, <1>10, <2>1, <2>2
  <2>4. k \in FramesOf(frames, i.episode)
    BY <1>3, <2>2, <2>3 DEF FramesOf
  <2>5. f \in Range(T[i.episode])
    BY <1>11, <2>2, <2>3, <2>4
  <2> QED
    BY <2>3, <2>5
<1>13. FrameCount(manifest) = m
  <2>1. PICK group, size : /\ group = [e \in E |-> FramesOf(frames, e)]
                           /\ size = [e \in E |-> Cardinality(FramesOf(frames, e))]
    OBVIOUS
  <2>2. \A e \in E : group[e] = {k \in 1..m : frames[k].episode = e} /\ size[e] = Cardinality(group[e])
    BY <1>3, <2>1 DEF FramesOf
  <2>3. Grouped(m, E, group, size)
    BY <1>10, <2>2 DEF Grouped
  <2>4. Cardinality(UNION {{e} \X (1..size[e]) : e \in E}) = m
    BY <1>4, <2>3, GroupedCount
  <2>5. \A e \in E : DOMAIN T[e] = 1..size[e]
    BY <1>11, <2>1
  <2>6. UNION {{e} \X DOMAIN T[e] : e \in E} = UNION {{e} \X (1..size[e]) : e \in E}
    BY <2>5
  <2>7. FrameCount(manifest) = Cardinality(UNION {{e} \X DOMAIN T[e] : e \in E})
    BY <1>8, <1>10 DEF FrameCount
  <2> QED
    BY <2>4, <2>6, <2>7
<1> QED
  BY <1>2, <1>8, <1>9, <1>10, <1>11, <1>12, <1>13 DEF Complete

LEMMA ExportHolds == CommitsInv => ExportIsComplete
<1> SUFFICES ASSUME CommitsInv PROVE ExportIsComplete
  OBVIOUS
<1>1. ASSUME NEW c \in commits, NEW ids
      PROVE  Complete(c, Picked(c.slice.items, Supplied(c, ids)), ToManifest(c.slice, c.rollouts, ids))
  <2>1. PICK n : n = Len(feedback)
    OBVIOUS
  <2>2. Sealed(n, c)
    BY <2>1 DEF CommitsInv
  <2> QED
    BY <2>2, ExportOf
<1> QED
  BY <1>1 DEF ExportIsComplete, Supplied, Complete

\* An export has one frame per pinned item whose row was supplied, no more and
\* no fewer, each in the episode it was pinned with and in time order, whatever
\* happened to the rows since (to_lerobot_manifest).
THEOREM ExportSafe == Spec => []ExportIsComplete
BY Start, Step, CommitsStart, CommitsStep, ExportHolds, PTL DEF Spec, IInv
=============================================================================
