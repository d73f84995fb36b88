---------------------------- MODULE IntakeProofs -----------------------------
(***************************************************************************)
(* What is proved of Intake, for any texts, mappings, recordings and calls *)
(* of the gateway: a text is loaded alike whatever order its hash maps are *)
(* walked in, and an import makes one event of each message that has a     *)
(* role, by the clock of its mapping.                                      *)
(***************************************************************************)
EXTENDS Intake, ListsProofs

\* The smallest and the largest of a set, as FiniteSetsExt chooses them.
LEMMA MinIs ==
  ASSUME NEW S, S \subseteq Nat, S # {}
  PROVE  Min(S) \in S /\ \A y \in S : Min(S) <= y
BY LeastOf DEF Min

LEMMA MaxIs ==
  ASSUME NEW S, IsFiniteSet(S), S \subseteq Int, S # {}
  PROVE  Max(S) \in S /\ \A y \in S : y <= Max(S)
<1>1. \E x \in S : \A y \in S : x >= y
  BY BoundsOf
<1>2. Max(S) \in S /\ \A y \in S : Max(S) >= y
  BY <1>1 DEF Max
<1> QED
  BY <1>2

(***************************************************************************)
(* The loader: whether something is wrong with a text does not depend on   *)
(* the order in which the loader meets the names, and neither does what is *)
(* loaded when nothing is wrong.                                           *)
(***************************************************************************)

\* order names every key of a table once.
Walks(order, D) ==
    /\ \E n \in Nat : DOMAIN order = 1..n
    /\ \A i \in DOMAIN order : order[i] \in D
    /\ \A i, j \in DOMAIN order : order[i] = order[j] => i = j
    /\ \A d \in D : \E i \in DOMAIN order : order[i] = d

LEMMA OrdersWalk ==
  ASSUME NEW table, IsFiniteSet(DOMAIN table), NEW order \in Orders(table)
  PROVE  Walks(order, DOMAIN table)
<1> DEFINE D == DOMAIN table
           n == Cardinality(D)
<1>1. n \in Nat /\ IsFiniteSet(1..n) /\ Cardinality(1..n) = n
  BY FS_CardinalityType, FS_Interval
<1>2. order \in [1..n -> D] /\ IsInjective(order)
  BY DEF Orders
<1>3. order \in Injection(1..n, D)
  BY <1>2 DEF Injection
<1>4. order \in Surjection(1..n, D)
  BY <1>1, <1>3, FS_Injection
<1>5. \A d \in D : \E i \in 1..n : order[i] = d
  BY <1>4 DEF Surjection
<1> QED
  BY <1>1, <1>2, <1>5 DEF Walks, IsInjective

\* No two names of a table fold to the same, and no entry is wrong.
Apart(D) == \A a, b \in D : Fold[a] = Fold[b] => a = b
Clean(D, errors) == Apart(D) /\ \A d \in D : errors[d] = {}

LEMMA WalkDomain ==
  ASSUME NEW D, NEW order, Walks(order, D)
  PROVE  /\ DOMAIN order \subseteq Nat /\ IsFiniteSet(DOMAIN order)
         /\ \A i \in DOMAIN order : \A j \in 1..(i - 1) : j \in DOMAIN order /\ j # i
         /\ \A i, j \in DOMAIN order : i < j => i \in 1..(j - 1)
BY FS_Interval DEF Walks

LEMMA TableErrorsOf ==
  ASSUME NEW D, NEW order, Walks(order, D), NEW errors, \A d \in D : Ok \notin errors[d]
  PROVE  /\ Clean(D, errors) => TableErrors(order, errors) = {Ok}
         /\ Ok \in TableErrors(order, errors) => Clean(D, errors)
<1> DEFINE bad == {i \in DOMAIN order : i \in Clashes(order) \/ errors[order[i]] # {}}
<1>1. bad \subseteq Nat
  BY WalkDomain
<1>2. ASSUME Clean(D, errors)
      PROVE  TableErrors(order, errors) = {Ok}
  <2>1. \A i \in DOMAIN order : i \notin Clashes(order)
    <3>1. SUFFICES ASSUME NEW i \in DOMAIN order, NEW j \in 1..(i - 1), j \in DOMAIN order, Fold[order[j]] = Fold[order[i]]
                   PROVE  FALSE
      BY WalkDomain DEF Clashes
    <3>2. order[i] = order[j] /\ i # j
      BY <1>2, <3>1, WalkDomain DEF Clean, Apart, Walks
    <3> QED
      BY <3>1, <3>2 DEF Walks
  <2>2. bad = {}
    BY <1>2, <2>1 DEF Clean, Walks
  <2> QED
    BY <2>2 DEF TableErrors
<1>3. ASSUME Ok \in TableErrors(order, errors)
      PROVE  Clean(D, errors)
  <2>1. bad = {}
    <3>1. SUFFICES ASSUME bad # {}
                   PROVE  FALSE
      OBVIOUS
    <3>2. Min(bad) \in bad
      BY <1>1, <3>1, MinIs
    <3>3. Ok \notin errors[order[Min(bad)]]
      BY <3>2 DEF Walks
    <3>4. Ok \notin {"DuplicateName"}
      BY DEF Ok
    <3> QED
      BY <1>3, <3>1, <3>3, <3>4 DEF TableErrors
  <2>2. \A d \in D : errors[d] = {}
    BY <2>1 DEF Walks
  <2>3. Apart(D)
    <3>1. SUFFICES ASSUME NEW i \in DOMAIN order, NEW j \in DOMAIN order, i < j, Fold[order[i]] = Fold[order[j]]
                   PROVE  FALSE
      <4>1. ASSUME NEW a \in D, NEW b \in D, Fold[a] = Fold[b], a # b
            PROVE  FALSE
        <5>1. PICK i \in DOMAIN order : order[i] = a
          BY DEF Walks
        <5>2. PICK j \in DOMAIN order : order[j] = b
          BY DEF Walks
        <5>3. i \in Nat /\ j \in Nat /\ i # j
          BY <4>1, <5>1, <5>2, WalkDomain
        <5> QED
          BY <4>1, <5>1, <5>2, <5>3, <3>1
      <4> QED
        BY <4>1 DEF Apart
    <3>2. i \in 1..(j - 1)
      BY <3>1, WalkDomain
    <3>3. j \in Clashes(order)
      BY <3>1, <3>2 DEF Clashes
    <3> QED
      BY <2>1, <3>1, <3>3
  <2> QED
    BY <2>2, <2>3 DEF Clean
<1> QED
  BY <1>2, <1>3

\* A clean table is loaded alike in every order.
Keyed(D, entries) == [key \in {Fold[d] : d \in D} |-> entries[CHOOSE d \in D : Fold[d] = key]]

LEMMA LoadedOf ==
  ASSUME NEW D, NEW order, Walks(order, D), Apart(D), NEW entries
  PROVE  Loaded(order, entries) = Keyed(D, entries)
<1>1. {Fold[order[i]] : i \in DOMAIN order} = {Fold[d] : d \in D}
  BY DEF Walks
<1>2. ASSUME NEW key \in {Fold[d] : d \in D}
      PROVE  order[Max({i \in DOMAIN order : Fold[order[i]] = key})] = CHOOSE d \in D : Fold[d] = key
  <2> DEFINE at == {i \in DOMAIN order : Fold[order[i]] = key}
  <2>1. at # {} /\ at \subseteq Int
    BY <1>1, WalkDomain
  <2>2. IsFiniteSet(at)
    BY WalkDomain, FS_Subset
  <2>3. Max(at) \in at
    BY <2>1, <2>2, MaxIs
  <2>4. order[Max(at)] \in D /\ Fold[order[Max(at)]] = key
    BY <2>3 DEF Walks
  <2>5. \A d \in D : Fold[d] = key => d = order[Max(at)]
    BY <2>4 DEF Apart
  <2> QED
    BY <2>4, <2>5
<1> QED
  BY ZenonT(30), <1>1, <1>2 DEF Loaded, Keyed

\* Every entry of each section is clean.
CleanText(t) ==
    /\ Clean(DOMAIN t.embodiments, [n \in DOMAIN t.embodiments |-> EmbodimentErrors(t.embodiments[n])])
    /\ Clean(DOMAIN t.metrics, [n \in DOMAIN t.metrics |-> MetricErrors(n, t.metrics[n])])
    /\ Clean(DOMAIN t.labels, [n \in DOMAIN t.labels |-> LabelErrors(t.labels[n])])
    /\ CalibrationErrors(t.calibration) = {}

FiniteTables(t) ==
    IsFiniteSet(DOMAIN t.embodiments) /\ IsFiniteSet(DOMAIN t.metrics) /\ IsFiniteSet(DOMAIN t.labels)

LEMMA ConfigErrorsOf ==
  ASSUME NEW t, FiniteTables(t), NEW order \in LoadOrders(t)
  PROVE  /\ CleanText(t) => ConfigErrors(t, order) = {Ok}
         /\ Ok \in ConfigErrors(t, order) => CleanText(t)
<1> DEFINE e == [n \in DOMAIN t.embodiments |-> EmbodimentErrors(t.embodiments[n])]
           m == [n \in DOMAIN t.metrics |-> MetricErrors(n, t.metrics[n])]
           l == [n \in DOMAIN t.labels |-> LabelErrors(t.labels[n])]
           c == CalibrationErrors(t.calibration)
<1>1. /\ order.embodiments \in Orders(t.embodiments) /\ order.metrics \in Orders(t.metrics)
      /\ order.labels \in Orders(t.labels)
  BY DEF LoadOrders
<1>2. /\ Walks(order.embodiments, DOMAIN t.embodiments) /\ Walks(order.metrics, DOMAIN t.metrics)
      /\ Walks(order.labels, DOMAIN t.labels)
  BY <1>1, OrdersWalk DEF FiniteTables
<1>3. /\ \A n \in DOMAIN t.embodiments : Ok \notin e[n]
      /\ \A n \in DOMAIN t.metrics : Ok \notin m[n]
      /\ \A n \in DOMAIN t.labels : Ok \notin l[n]
      /\ Ok \notin c
  BY DEF Ok, EmbodimentErrors, MetricErrors, LabelErrors, CalibrationErrors, When
<1> HIDE DEF e, m, l, c
<1>4. /\ Clean(DOMAIN t.embodiments, e) => TableErrors(order.embodiments, e) = {Ok}
      /\ Ok \in TableErrors(order.embodiments, e) => Clean(DOMAIN t.embodiments, e)
  BY <1>2, <1>3, TableErrorsOf
<1>5. /\ Clean(DOMAIN t.metrics, m) => TableErrors(order.metrics, m) = {Ok}
      /\ Ok \in TableErrors(order.metrics, m) => Clean(DOMAIN t.metrics, m)
  BY <1>2, <1>3, TableErrorsOf
<1>6. /\ Clean(DOMAIN t.labels, l) => TableErrors(order.labels, l) = {Ok}
      /\ Ok \in TableErrors(order.labels, l) => Clean(DOMAIN t.labels, l)
  BY <1>2, <1>3, TableErrorsOf
<1>7. CleanText(t) <=> /\ Clean(DOMAIN t.embodiments, e) /\ Clean(DOMAIN t.metrics, m)
                       /\ Clean(DOMAIN t.labels, l) /\ c = {}
  BY DEF CleanText, e, m, l, c
<1>8. ConfigErrors(t, order) =
        IF TableErrors(order.embodiments, e) # {Ok} THEN TableErrors(order.embodiments, e)
        ELSE IF TableErrors(order.metrics, m) # {Ok} THEN TableErrors(order.metrics, m)
        ELSE IF TableErrors(order.labels, l) # {Ok} THEN TableErrors(order.labels, l)
        ELSE IF c # {} THEN c ELSE {Ok}
  BY DEF ConfigErrors, e, m, l, c
<1>9. ASSUME CleanText(t)
      PROVE  ConfigErrors(t, order) = {Ok}
  BY <1>4, <1>5, <1>6, <1>7, <1>8, <1>9
<1>10. ASSUME Ok \in ConfigErrors(t, order)
       PROVE  CleanText(t)
  <2>1. Ok \in TableErrors(order.embodiments, e) /\ TableErrors(order.embodiments, e) = {Ok}
    BY <1>4, <1>8, <1>10
  <2>2. Ok \in TableErrors(order.metrics, m) /\ TableErrors(order.metrics, m) = {Ok}
    BY <1>5, <1>8, <1>10, <2>1
  <2>3. Ok \in TableErrors(order.labels, l) /\ TableErrors(order.labels, l) = {Ok}
    BY <1>6, <1>8, <1>10, <2>1, <2>2
  <2>4. c = {}
    BY <1>3, <1>8, <1>10, <2>1, <2>2, <2>3
  <2> QED
    BY <1>4, <1>5, <1>6, <1>7, <2>1, <2>2, <2>3, <2>4
<1> QED
  BY <1>9, <1>10

\* What a clean text is loaded as.
LoadedText(t) ==
    [embodiments |-> Keyed(DOMAIN t.embodiments, [n \in DOMAIN t.embodiments |-> LoadEmbodiment(n, t.embodiments[n])]),
     metrics |-> Keyed(DOMAIN t.metrics, [n \in DOMAIN t.metrics |-> LoadMetric(n, t.metrics[n])]),
     labels |-> Keyed(DOMAIN t.labels, [n \in DOMAIN t.labels |-> LoadLabel(n, t.labels[n])]),
     calibration |-> t.calibration]

LEMMA LoadedConfigOf ==
  ASSUME NEW t, FiniteTables(t), CleanText(t), NEW order \in LoadOrders(t)
  PROVE  LoadedConfig(t, order) = LoadedText(t)
<1>1. /\ order.embodiments \in Orders(t.embodiments) /\ order.metrics \in Orders(t.metrics)
      /\ order.labels \in Orders(t.labels)
  BY DEF LoadOrders
<1>2. /\ Walks(order.embodiments, DOMAIN t.embodiments) /\ Walks(order.metrics, DOMAIN t.metrics)
      /\ Walks(order.labels, DOMAIN t.labels)
  BY <1>1, OrdersWalk DEF FiniteTables
<1>3. Apart(DOMAIN t.embodiments) /\ Apart(DOMAIN t.metrics) /\ Apart(DOMAIN t.labels)
  BY DEF CleanText, Clean
<1>4. \A entries : /\ Loaded(order.embodiments, entries) = Keyed(DOMAIN t.embodiments, entries)
                   /\ Loaded(order.metrics, entries) = Keyed(DOMAIN t.metrics, entries)
                   /\ Loaded(order.labels, entries) = Keyed(DOMAIN t.labels, entries)
  BY <1>2, <1>3, LoadedOf
<1> QED
  BY <1>4 DEF LoadedConfig, LoadedText

\* One call of the loader has one result.
Result(t) == IF Deserializes(t) /\ CleanText(t) THEN LoadedText(t) ELSE Failed

LEMMA LoadsTo ==
  ASSUME text \in Texts, NEW result, FromTomlStr(result)
  PROVE  result = Result(text)
<1>1. CASE ~Deserializes(text)
  BY <1>1 DEF FromTomlStr, Result
<1>2. CASE Deserializes(text)
  <2>1. FiniteTables(text)
    BY <1>2, FilesAssumption DEF FiniteTables
  <2>2. PICK order \in LoadOrders(text) : \E e \in ConfigErrors(text, order) :
           result = IF e = Ok THEN LoadedConfig(text, order) ELSE Failed
    BY <1>2 DEF FromTomlStr
  <2>3. PICK e \in ConfigErrors(text, order) : result = IF e = Ok THEN LoadedConfig(text, order) ELSE Failed
    BY <2>2
  <2>4. e = Ok <=> CleanText(text)
    BY <2>1, <2>3, ConfigErrorsOf
  <2>5. CleanText(text) => LoadedConfig(text, order) = LoadedText(text)
    BY <2>1, LoadedConfigOf
  <2> QED
    BY <1>2, <2>3, <2>4, <2>5 DEF Result
<1> QED
  BY <1>1, <1>2

(***************************************************************************)
(* What is known of the files and of the last load.                        *)
(***************************************************************************)

FilesInv ==
    /\ text \in Texts /\ mapping \in Mappings
    /\ IsList(recording) /\ Range(recording) \subseteq Messages
    /\ config \in {None, Result(text)}

LEMMA FilesInit == Init => FilesInv
BY EmptyList DEF Init, FilesInv

LEMMA FilesStep == FilesInv /\ [Next]_vars => FilesInv'
<1> SUFFICES ASSUME FilesInv, [Next]_vars
             PROVE  FilesInv'
  OBVIOUS
<1>1. CASE EditConfig
  BY <1>1 DEF EditConfig, FilesInv
<1>2. CASE EditMapping
  BY <1>2 DEF EditMapping, FilesInv
<1>3. CASE Record
  <2>1. PICK m \in Messages : recording' = Append(recording, m)
    BY <1>3 DEF Record
  <2>2. IsList(recording') /\ Range(recording') \subseteq Messages
    BY <2>1, ListAppend DEF FilesInv
  <2> QED
    BY <1>3, <2>2 DEF Record, FilesInv
<1>4. ASSUME FromTomlStr(config'), UNCHANGED files
      PROVE  FilesInv'
  <2>1. PICK result : result = config'
    OBVIOUS
  <2>2. result = Result(text)
    BY <1>4, <2>1, LoadsTo DEF FilesInv
  <2> QED
    BY <1>4, <2>1, <2>2 DEF files, FilesInv
<1>5. CASE LoadConfig
  BY <1>4, <1>5 DEF LoadConfig
<1>6. CASE Doctor
  BY <1>6 DEF Doctor, files, FilesInv
<1>7. CASE AttributeMcap
  BY <1>4, <1>7 DEF AttributeMcap
<1>8. CASE Receive /\ events' = None /\ UNCHANGED <<files, config, diagnosis>>
  BY <1>8 DEF files, FilesInv
<1>9. CASE UNCHANGED vars
  BY <1>9 DEF vars, files, FilesInv
<1> QED
  BY <1>1, <1>2, <1>3, <1>5, <1>6, <1>7, <1>8, <1>9 DEF Next

\* The same text always loads to the same configuration, or always fails,
\* whatever order its hash maps are walked in (config lib.rs); which of its
\* errors is reported may depend on that order.
THEOREM StableLoad == Spec => LoadIsStable
<1>1. FilesInv /\ FilesInv' /\ [Next]_vars => [text' = text /\ config # None => config' = config]_vars
  <2> SUFFICES ASSUME FilesInv, FilesInv', [Next]_vars, text' = text, config # None
               PROVE  config' = config
    OBVIOUS
  <2>1. config' = None => FALSE
    <3>1. CASE EditConfig
      BY <3>1 DEF EditConfig
    <3>2. CASE LoadConfig \/ AttributeMcap
      <4>1. PICK result : result = config'
        OBVIOUS
      <4>2. FromTomlStr(result)
        BY <3>2, <4>1 DEF LoadConfig, AttributeMcap
      <4>3. result = Result(text)
        BY <4>2, LoadsTo DEF FilesInv
      <4> QED
        BY <4>1, <4>3 DEF FilesInv
    <3>3. CASE UNCHANGED config
      BY <3>3
    <3> QED
      BY <3>1, <3>2, <3>3 DEF Next, EditMapping, Record, Doctor, vars
  <2> QED
    BY <2>1 DEF FilesInv
<1> QED
  BY <1>1, FilesInit, FilesStep, PTL DEF Spec, LoadIsStable

(***************************************************************************)
(* The import.                                                             *)
(***************************************************************************)

\* The messages of a file that are decisions under a mapping.
DecisionsOf(file, map) == {i \in DOMAIN file : RoleOf(map, file[i].topic) = "Decision"}

\* at names the message of each rollout: every decision once, in clock order.
ImportedBy(rollouts, file, map, at) ==
    LET n == Cardinality(DecisionsOf(file, map)) IN
    /\ n \in Nat /\ DOMAIN rollouts = 1..n /\ Len(rollouts) = n
    /\ at \in [1..n -> DecisionsOf(file, map)]
    /\ \A k, l \in 1..n : at[k] = at[l] => k = l
    /\ \A i \in DecisionsOf(file, map) : \E k \in 1..n : at[k] = i
    /\ \A k \in 1..n : rollouts[k] = ImportedRollout(map, k - 1, Stamp(map, file[at[k]]))
    /\ \A k, l \in 1..n : k < l => Stamp(map, file[at[k]]) <= Stamp(map, file[at[l]])

LEMMA StampsAreNat ==
  ASSUME NEW map, NEW m \in Messages
  PROVE  Stamp(map, m) \in Nat
BY FilesAssumption DEF Stamp

LEMMA RolloutsOf ==
  ASSUME NEW map, NEW file, IsList(file), Range(file) \subseteq Messages
  PROVE  \E at : ImportedBy(ImportMcap(file, map).rollouts, file, map, at)
<1> DEFINE keep == DecisionsOf(file, map)
           n == Cardinality(keep)
           decisions == Picked(file, keep)
           given == [i \in DOMAIN decisions |-> Stamp(map, decisions[i])]
           less == Less(given, DOMAIN given, SmallerStamp)
           stamps == InClockOrder(given)
           rollouts == [i \in DOMAIN stamps |-> ImportedRollout(map, i - 1, stamps[i])]
<1>1. keep \subseteq DOMAIN file /\ IsFiniteSet(keep) /\ keep \subseteq Int
  BY ListDomain, FS_Subset DEF DecisionsOf
<1>2. PICK picked : Lists(decisions, file, keep, picked)
  BY <1>1, PickedLists
<1>3. DOMAIN given = 1..n /\ n \in Nat /\ IsFiniteSet(1..n) /\ Cardinality(1..n) = n
  BY <1>2, FS_Interval DEF Lists
<1>4. \A k \in 1..n : picked[k] \in keep /\ given[k] = Stamp(map, file[picked[k]])
  BY <1>2, <1>3 DEF Lists
<1>5. \A i \in keep : file[i] \in Messages
  BY <1>1, ListDomain
<1>6. \A k \in 1..n : given[k] \in Nat
  BY <1>4, <1>5, StampsAreNat
<1> HIDE DEF given
<1>7. \A k, l \in 1..n : <<k, l>> \in less <=> given[k] < given[l]
  BY <1>3 DEF Less, SmallerStamp
<1>8. WeakOrder(1..n, less)
  <2>1. \A i, j \in 1..n : given[i] < given[j] => ~(given[j] < given[i])
    BY <1>6
  <2>2. \A i, j, k \in 1..n : given[i] < given[j] => given[i] < given[k] \/ given[k] < given[j]
    BY <1>6
  <2> HIDE DEF less
  <2> QED
    BY <1>7, <2>1, <2>2 DEF WeakOrder
<1>9. stamps = Arranged(given, 1..n, Stable(1..n, less))
  BY <1>3 DEF InClockOrder, Sorted
<1> HIDE DEF less, stamps
<1>10. PICK order : /\ Lists(stamps, given, 1..n, order)
                    /\ \A k, l \in 1..n : k < l => <<order[l], order[k]>> \notin less
  <2>1. 1..n \subseteq Int
    BY <1>3
  <2> QED
    BY <1>3, <1>8, <1>9, <2>1, SortedLists
<1> DEFINE at == [k \in 1..n |-> picked[order[k]]]
<1>11. /\ DOMAIN stamps = 1..n /\ order \in [1..n -> 1..n]
       /\ \A i \in 1..n : \E k \in 1..n : order[k] = i
       /\ \A k, l \in 1..n : order[k] = order[l] => k = l
       /\ \A k \in 1..n : stamps[k] = given[order[k]]
  BY <1>3, <1>10 DEF Lists
<1>12. at \in [1..n -> keep]
  BY <1>4, <1>11
<1>13. \A k, l \in 1..n : at[k] = at[l] => k = l
  <2>1. \A k, l \in 1..n : picked[k] = picked[l] => k = l
    BY <1>2 DEF Lists
  <2>2. \A k \in 1..n : at[k] = picked[order[k]] /\ order[k] \in 1..n
    BY <1>11
  <2>3. \A k, l \in 1..n : order[k] = order[l] => k = l
    BY <1>11
  <2> HIDE DEF at, n, keep
  <2> SUFFICES ASSUME NEW k \in 1..n, NEW l \in 1..n, at[k] = at[l]
               PROVE  k = l
    OBVIOUS
  <2>4. picked[order[k]] = picked[order[l]] /\ order[k] \in 1..n /\ order[l] \in 1..n
    BY <2>2
  <2>5. order[k] = order[l]
    BY <2>1, <2>4
  <2> QED
    BY <2>3, <2>5
<1>14. \A i \in keep : \E k \in 1..n : at[k] = i
  <2>1. \A i \in keep : \E k \in 1..n : picked[k] = i
    BY <1>2 DEF Lists
  <2> QED
    BY <1>11, <2>1
<1>15. \A k \in 1..n : stamps[k] = Stamp(map, file[at[k]])
  BY <1>4, <1>11
<1>16. \A k, l \in 1..n : k < l => stamps[k] <= stamps[l]
  <2> SUFFICES ASSUME NEW k \in 1..n, NEW l \in 1..n, k < l
               PROVE  stamps[k] <= stamps[l]
    OBVIOUS
  <2>1. ~(given[order[l]] < given[order[k]])
    BY <1>7, <1>10, <1>11
  <2>2. given[order[k]] \in Nat /\ given[order[l]] \in Nat
    BY <1>6, <1>11
  <2>3. stamps[k] = given[order[k]] /\ stamps[l] = given[order[l]]
    BY <1>11
  <2> QED
    BY ONLY <2>1, <2>2, <2>3
<1>17. rollouts \in Seq({rollouts[k] : k \in 1..n}) /\ Len(rollouts) = n /\ DOMAIN rollouts = 1..n
  <2>1. DOMAIN rollouts = 1..n /\ rollouts \in [1..n -> {rollouts[k] : k \in 1..n}]
    BY <1>11
  <2> QED
    BY <1>3, <2>1, ListOf
<1>18. ImportMcap(file, map).rollouts = rollouts
  <2> DEFINE role == [i \in DOMAIN file |-> RoleOf(map, file[i].topic)]
             chosen == {i \in DOMAIN file : role[i] = "Decision"}
             found == Picked(file, chosen)
             sorted == InClockOrder([i \in DOMAIN found |-> Stamp(map, found[i])])
  <2>1. chosen = keep
    BY DEF DecisionsOf
  <2>2. ImportMcap(file, map).rollouts = [i \in DOMAIN sorted |-> ImportedRollout(map, i - 1, sorted[i])]
    BY DEF ImportMcap
  <2> HIDE DEF chosen
  <2>3. sorted = stamps
    BY <2>1 DEF given, stamps
  <2> HIDE DEF sorted
  <2> QED
    BY <2>2, <2>3
<1>19. \A k \in 1..n : rollouts[k] = ImportedRollout(map, k - 1, Stamp(map, file[at[k]]))
  BY <1>11, <1>15
<1>20. \A k, l \in 1..n : k < l => Stamp(map, file[at[k]]) <= Stamp(map, file[at[l]])
  BY <1>15, <1>16
<1> HIDE DEF rollouts, at, keep
<1>21. ImportedBy(rollouts, file, map, at)
  BY <1>3, <1>12, <1>13, <1>14, <1>17, <1>19, <1>20 DEF ImportedBy, keep
<1> QED
  BY <1>18, <1>21

\* at names each of keep once, so what it names can be counted by its index.
Enumerated(at, n, keep) ==
    /\ n \in Nat /\ at \in [1..n -> keep]
    /\ \A k, l \in 1..n : at[k] = at[l] => k = l
    /\ \A i \in keep : \E k \in 1..n : at[k] = i

\* The indices in A are those of the elements in B.
Indexes(at, n, keep, A, B) ==
    /\ Enumerated(at, n, keep) /\ A \subseteq 1..n /\ B \subseteq keep
    /\ \A k \in 1..n : k \in A <=> at[k] \in B

LEMMA IndexedCount ==
  ASSUME NEW at, NEW n, NEW keep, NEW A, NEW B, Indexes(at, n, keep, A, B)
  PROVE  Cardinality(A) = Cardinality(B)
<1> DEFINE c == [k \in A |-> at[k]]
<1>1. c \in [A -> B] /\ \A k, l \in A : c[k] = c[l] => k = l
  BY DEF Indexes, Enumerated
<1>2. \A i \in B : \E k \in A : c[k] = i
  BY DEF Indexes, Enumerated
<1>3. c \in Bijection(A, B)
  BY <1>1, <1>2, Fun_IsBij
<1>4. ExistsBijection(A, B)
  BY <1>3 DEF ExistsBijection
<1>5. IsFiniteSet(A)
  <2>1. n \in Nat /\ A \subseteq 1..n
    BY DEF Indexes, Enumerated
  <2>2. IsFiniteSet(1..n)
    BY <2>1, FS_Interval
  <2> QED
    BY <2>1, <2>2, FS_Subset
<1> QED
  BY <1>4, <1>5, FS_Bijection

(***************************************************************************)
(* What the last import and the doctor's last word are about.              *)
(***************************************************************************)

Imported == /\ MappingErrors(mapping) = {} /\ Deserializes(text) /\ CleanText(text)
            /\ events = Routed(LoadedText(text), ImportMcap(recording, mapping))
Diagnosed == /\ MappingErrors(mapping) = {}
             /\ \E threshold \in Thresholds : diagnosis = Diagnose(recording, mapping, threshold)

WordsInv == /\ events \notin {None, Failed} => Imported
            /\ diagnosis \notin {None, Failed} => Diagnosed

LEMMA WordsInit == Init => WordsInv
BY DEF Init, WordsInv

LEMMA WordsStep == FilesInv /\ WordsInv /\ [Next]_vars => WordsInv'
<1> SUFFICES ASSUME FilesInv, WordsInv, [Next]_vars
             PROVE  WordsInv'
  OBVIOUS
<1>1. ASSUME UNCHANGED <<mapping, recording, diagnosis>>
      PROVE  (diagnosis \notin {None, Failed} => Diagnosed)'
  BY <1>1 DEF WordsInv, Diagnosed
<1>2. CASE EditConfig
  BY <1>1, <1>2 DEF EditConfig, WordsInv
<1>3. CASE EditMapping \/ Record
  BY <1>3 DEF EditMapping, Record, WordsInv
<1>4. CASE LoadConfig
  BY <1>1, <1>4 DEF LoadConfig, files, WordsInv
<1>5. CASE Doctor
  <2>1. PICK threshold \in Thresholds :
           diagnosis' = IF MappingErrors(mapping) # {} THEN Failed ELSE Diagnose(recording, mapping, threshold)
    BY <1>5 DEF Doctor
  <2>2. events' = None /\ mapping' = mapping /\ recording' = recording
    BY <1>5 DEF Doctor, files
  <2> QED
    BY <2>1, <2>2 DEF WordsInv, Diagnosed
<1>6. CASE AttributeMcap
  <2>1. UNCHANGED <<text, mapping, recording, diagnosis>>
    BY <1>6 DEF AttributeMcap, files
  <2>2. ASSUME events' \notin {None, Failed}
        PROVE  Imported'
    <3>1. /\ config' # Failed /\ ImportErrors(mapping) = {}
          /\ events' = Routed(config', ImportMcap(recording, mapping))
      BY <1>6, <2>2 DEF AttributeMcap
    <3>2. PICK result : result = config'
      OBVIOUS
    <3>3. result = Result(text)
      BY <1>6, <3>2, LoadsTo DEF AttributeMcap, FilesInv
    <3>4. Deserializes(text) /\ CleanText(text) /\ result = LoadedText(text)
      BY <3>1, <3>2, <3>3 DEF Result
    <3>5. events' = Routed(LoadedText(text), ImportMcap(recording, mapping))
      BY <3>1, <3>2, <3>4
    <3>6. MappingErrors(mapping) = {}
      BY <3>1 DEF ImportErrors
    <3>7. text' = text /\ mapping' = mapping /\ recording' = recording
      BY <2>1
    <3> HIDE DEF CleanText
    <3>8. Deserializes(text') /\ CleanText(text') /\ MappingErrors(mapping') = {}
      BY <3>4, <3>6, <3>7
    <3>9. events' = Routed(LoadedText(text), ImportMcap(recording, mapping))'
      BY <3>5, <3>7 DEF Routed
    <3> QED
      BY <3>8, <3>9 DEF Imported
  <2> QED
    BY <1>1, <2>1, <2>2 DEF WordsInv
<1>7. CASE Receive /\ events' = None /\ UNCHANGED <<files, config, diagnosis>>
  BY <1>1, <1>7 DEF files, WordsInv
<1>8. CASE UNCHANGED vars
  <2>1. UNCHANGED <<text, mapping, recording>> /\ UNCHANGED diagnosis /\ UNCHANGED events
    BY <1>8 DEF vars, files
  <2>2. Imported => Imported'
    BY <2>1 DEF Imported, Routed
  <2> QED
    BY <1>1, <2>1, <2>2 DEF WordsInv
<1> QED
  BY <1>2, <1>3, <1>4, <1>5, <1>6, <1>7, <1>8 DEF Next

(***************************************************************************)
(* An import that was made.                                                *)
(***************************************************************************)

LEMMA RoutedRollouts ==
  ASSUME FilesInv, Imported
  PROVE  \E at : ImportedBy(events.rollouts, recording, mapping, at)
<1>1. events.rollouts = ImportMcap(recording, mapping).rollouts
  BY DEF Imported, Routed
<1> QED
  BY <1>1, RolloutsOf DEF FilesInv

\* One rollout of each decision message, numbered in the order of the clock.
LEMMA DecisionsMade ==
  ASSUME FilesInv, Imported
  PROVE  \E n, at : /\ Enumerated(at, n, DecisionsOf(recording, mapping)) /\ DOMAIN events.rollouts = 1..n
                    /\ \A k \in 1..n : events.rollouts[k].step = k - 1 /\ events.rollouts[k].stamp = Time(at[k])
                    /\ \A k, l \in 1..n : k < l => events.rollouts[k].stamp <= events.rollouts[l].stamp
<1>1. PICK at : ImportedBy(events.rollouts, recording, mapping, at)
  BY RoutedRollouts
<1>2. PICK rollouts, n : rollouts = events.rollouts /\ n = Cardinality(DecisionsOf(recording, mapping))
  OBVIOUS
<1>3. /\ n \in Nat /\ DOMAIN rollouts = 1..n /\ Enumerated(at, n, DecisionsOf(recording, mapping))
      /\ \A k \in 1..n : rollouts[k] = ImportedRollout(mapping, k - 1, Stamp(mapping, recording[at[k]]))
      /\ \A k, l \in 1..n : k < l => Stamp(mapping, recording[at[k]]) <= Stamp(mapping, recording[at[l]])
  BY <1>1, <1>2 DEF ImportedBy, Enumerated
<1>4. \A k \in 1..n : rollouts[k].step = k - 1 /\ rollouts[k].stamp = Stamp(mapping, recording[at[k]])
  BY <1>3 DEF ImportedRollout
<1>5. \A k, l \in 1..n : k < l => rollouts[k].stamp <= rollouts[l].stamp
  BY <1>3, <1>4
<1> QED
  BY <1>2, <1>3, <1>4, <1>5 DEF Time

LEMMA ImportNumbers ==
  ASSUME FilesInv, Imported
  PROVE  NumberedByClock
BY DecisionsMade DEF NumberedByClock

\* The outcomes of the import, before they are routed: one of each message
\* whose topic has an outcome's role.
OutcomesOf(file, map) == {i \in DOMAIN file : RoleOf(map, file[i].topic) \notin {"Decision", "Unmapped"}}

LEMMA ImportedOutcomes ==
  ASSUME FilesInv, NEW outcomes, outcomes = ImportMcap(recording, mapping).outcomes
  PROVE  \E n, at : /\ Enumerated(at, n, OutcomesOf(recording, mapping)) /\ DOMAIN outcomes = 1..n
                    /\ \A k \in 1..n : outcomes[k].kind = Role(at[k]) /\ outcomes[k].stamp = Time(at[k])
<1> DEFINE keep == OutcomesOf(recording, mapping)
           n == Cardinality(keep)
           picked == Picked(recording, keep)
<1>1. IsFiniteSet(keep) /\ keep \subseteq Int
  BY ListDomain, FS_Subset DEF OutcomesOf, FilesInv
<1>2. PICK at : Lists(picked, recording, keep, at)
  BY <1>1, PickedLists
<1>3. Enumerated(at, n, keep) /\ DOMAIN picked = 1..n /\ \A k \in 1..n : picked[k] = recording[at[k]]
  BY <1>2 DEF Lists, Enumerated
<1>4. outcomes = [k \in DOMAIN picked |-> ImportedOutcome(mapping, picked[k])]
  <2> DEFINE role == [i \in DOMAIN recording |-> RoleOf(mapping, recording[i].topic)]
             chosen == {i \in DOMAIN recording : role[i] \notin {"Decision", "Unmapped"}}
             found == Picked(recording, chosen)
  <2>1. chosen = keep
    BY DEF OutcomesOf
  <2>2. ImportMcap(recording, mapping).outcomes = [k \in DOMAIN found |-> ImportedOutcome(mapping, found[k])]
    BY DEF ImportMcap
  <2> HIDE DEF chosen, keep
  <2> QED
    BY <2>1, <2>2
<1> HIDE DEF picked, keep, n
<1>5. \A k \in 1..n : outcomes[k].kind = Role(at[k]) /\ outcomes[k].stamp = Time(at[k])
  BY <1>3, <1>4 DEF ImportedOutcome, Role, Time
<1>6. DOMAIN outcomes = 1..n
  BY <1>3, <1>4
<1> QED
  BY <1>3, <1>5, <1>6 DEF keep

\* Routing drops none of them.
LEMMA PickedOutcomes ==
  ASSUME FilesInv, NEW outcomes, outcomes = ImportMcap(recording, mapping).outcomes,
         NEW keep, keep \subseteq DOMAIN outcomes, NEW out, out = Picked(outcomes, keep)
  PROVE  /\ \A k \in DOMAIN out : \E j \in keep : out[k] = outcomes[j]
         /\ \A k \in DOMAIN out : out[k].kind \notin {"Decision", "Unmapped"}
         /\ \A role, stamp :
              (\A j \in DOMAIN outcomes : outcomes[j].kind = role => j \in keep) /\ role \notin {"Decision", "Unmapped"} =>
                Cardinality({k \in DOMAIN out : out[k].kind = role /\ out[k].stamp = stamp}) = Cardinality(Said(role, stamp))
<1>1. PICK n, at : /\ Enumerated(at, n, OutcomesOf(recording, mapping)) /\ DOMAIN outcomes = 1..n
                   /\ \A k \in 1..n : outcomes[k].kind = Role(at[k]) /\ outcomes[k].stamp = Time(at[k])
  BY ImportedOutcomes
<1>2. n \in Nat /\ \A k \in 1..n : at[k] \in OutcomesOf(recording, mapping)
  BY <1>1 DEF Enumerated
<1>3. IsFiniteSet(keep) /\ keep \subseteq Int
  BY <1>1, <1>2, FS_Interval, FS_Subset
<1>4. PICK of : Lists(out, outcomes, keep, of)
  BY <1>3, PickedLists
<1> DEFINE m == Cardinality(keep)
<1>5. Enumerated(of, m, keep) /\ DOMAIN out = 1..m /\ \A k \in 1..m : of[k] \in keep /\ out[k] = outcomes[of[k]]
  BY <1>4 DEF Lists, Enumerated
<1> HIDE DEF m
<1>6. \A k \in DOMAIN out : \E j \in keep : out[k] = outcomes[j]
  BY <1>5
<1>7. \A k \in DOMAIN out : out[k].kind \notin {"Decision", "Unmapped"}
  BY <1>1, <1>2, <1>5 DEF OutcomesOf, Role
<1>8. ASSUME NEW role, NEW stamp, \A j \in DOMAIN outcomes : outcomes[j].kind = role => j \in keep,
             role \notin {"Decision", "Unmapped"}
      PROVE  Cardinality({k \in DOMAIN out : out[k].kind = role /\ out[k].stamp = stamp}) = Cardinality(Said(role, stamp))
  <2> DEFINE A == {k \in 1..m : out[k].kind = role /\ out[k].stamp = stamp}
             B == {j \in 1..n : outcomes[j].kind = role /\ outcomes[j].stamp = stamp}
  <2>1. B \subseteq keep /\ A \subseteq 1..m /\ \A k \in 1..m : k \in A <=> of[k] \in B
    BY <1>1, <1>5, <1>8
  <2>2. Cardinality(A) = Cardinality(B)
    <3> HIDE DEF A, B
    <3>1. Indexes(of, m, keep, A, B)
      BY <1>5, <2>1 DEF Indexes
    <3> QED
      BY <3>1, IndexedCount
  <2>3. Said(role, stamp) \subseteq OutcomesOf(recording, mapping)
    BY <1>8 DEF Said, OutcomesOf, Role
  <2>4. B \subseteq 1..n /\ \A k \in 1..n : k \in B <=> at[k] \in Said(role, stamp)
    BY <1>1, <1>2 DEF Said, OutcomesOf
  <2>5. Cardinality(B) = Cardinality(Said(role, stamp))
    <3> HIDE DEF B
    <3>1. Indexes(at, n, OutcomesOf(recording, mapping), B, Said(role, stamp))
      BY <1>1, <2>3, <2>4 DEF Indexes
    <3> QED
      BY <3>1, IndexedCount
  <2> QED
    BY <1>5, <2>2, <2>5
<1> QED
  BY <1>6, <1>7, <1>8

LEMMA EventsMade ==
  ASSUME FilesInv, Imported
  PROVE  /\ \A role, stamp : role # "Unmapped" => Cardinality(Made(role, stamp)) = Cardinality(Said(role, stamp))
         /\ \A e \in Bound : e[1] # "Unmapped"
<1> DEFINE imported == ImportMcap(recording, mapping)
           beats == {i \in DOMAIN imported.outcomes : imported.outcomes[i].kind = "Heartbeat"}
           failures == Picked(imported.outcomes, DOMAIN imported.outcomes \ beats)
<1>1. PICK outcomes : outcomes = ImportMcap(recording, mapping).outcomes
  OBVIOUS
<1>2. PICK others : others = Picked(outcomes, {i \in DOMAIN outcomes : outcomes[i].kind # "Heartbeat"})
  OBVIOUS
<1>3. PICK heard : heard = Picked(outcomes, {i \in DOMAIN outcomes : outcomes[i].kind = "Heartbeat"})
  OBVIOUS
<1>4. /\ events.heartbeats = heard
      /\ DOMAIN events.outcomes = DOMAIN others /\ \A k \in DOMAIN others : events.outcomes[k].o = others[k]
  <2>1. DOMAIN imported.outcomes \ beats = {i \in DOMAIN imported.outcomes : imported.outcomes[i].kind # "Heartbeat"}
    OBVIOUS
  <2>2. failures = others
    BY <1>1, <1>2, <2>1
  <2>3. events.outcomes = [k \in DOMAIN failures |->
           [o |-> failures[k], window |-> WindowOf(LoadedText(text), mapping.embodiment, failures[k].kind, None)]]
    BY DEF Imported, Routed
  <2>4. events.heartbeats = Picked(imported.outcomes, beats)
    BY DEF Imported, Routed
  <2> HIDE DEF failures
  <2>5. DOMAIN events.outcomes = DOMAIN others /\ \A k \in DOMAIN others : events.outcomes[k].o = others[k]
    BY <2>2, <2>3
  <2> QED
    BY <1>1, <1>3, <2>4, <2>5
<1> HIDE DEF beats, failures
<1>5. /\ \A k \in DOMAIN heard : heard[k].kind = "Heartbeat" /\ heard[k].kind # "Unmapped"
      /\ \A stamp : Cardinality({k \in DOMAIN heard : heard[k].kind = "Heartbeat" /\ heard[k].stamp = stamp})
                      = Cardinality(Said("Heartbeat", stamp))
  <2> DEFINE keep == {i \in DOMAIN outcomes : outcomes[i].kind = "Heartbeat"}
  <2>1. keep \subseteq DOMAIN outcomes /\ heard = Picked(outcomes, keep)
    BY <1>3
  <2>2. \A j \in DOMAIN outcomes : outcomes[j].kind = "Heartbeat" <=> j \in keep
    OBVIOUS
  <2> HIDE DEF keep
  <2> QED
    BY <1>1, <2>1, <2>2, PickedOutcomes
<1>6. /\ \A k \in DOMAIN others : others[k].kind # "Unmapped"
      /\ \A role, stamp : role \notin {"Decision", "Heartbeat", "Unmapped"} =>
           Cardinality({k \in DOMAIN others : others[k].kind = role /\ others[k].stamp = stamp}) = Cardinality(Said(role, stamp))
  <2> DEFINE keep == {i \in DOMAIN outcomes : outcomes[i].kind # "Heartbeat"}
  <2>1. keep \subseteq DOMAIN outcomes /\ others = Picked(outcomes, keep)
    BY <1>2
  <2>2. \A role : role # "Heartbeat" => \A j \in DOMAIN outcomes : outcomes[j].kind = role => j \in keep
    OBVIOUS
  <2> HIDE DEF keep
  <2> QED
    BY <1>1, <2>1, <2>2, PickedOutcomes
<1>7. ASSUME NEW stamp
      PROVE  Cardinality({k \in DOMAIN events.rollouts : events.rollouts[k].stamp = stamp}) = Cardinality(Said("Decision", stamp))
  <2> DEFINE A == {k \in DOMAIN events.rollouts : events.rollouts[k].stamp = stamp}
  <2>1. PICK n, at : /\ Enumerated(at, n, DecisionsOf(recording, mapping)) /\ DOMAIN events.rollouts = 1..n
                     /\ \A k \in 1..n : events.rollouts[k].stamp = Time(at[k])
    BY DecisionsMade
  <2>2. \A k \in 1..n : at[k] \in DecisionsOf(recording, mapping)
    BY <2>1 DEF Enumerated
  <2>3. \A i : i \in DecisionsOf(recording, mapping) <=> i \in DOMAIN recording /\ Role(i) = "Decision"
    BY DEF DecisionsOf, Role
  <2>4. /\ Said("Decision", stamp) \subseteq DecisionsOf(recording, mapping) /\ A \subseteq 1..n
        /\ \A k \in 1..n : k \in A <=> at[k] \in Said("Decision", stamp)
    BY <2>1, <2>2, <2>3 DEF Said
  <2> HIDE DEF A
  <2>5. Indexes(at, n, DecisionsOf(recording, mapping), A, Said("Decision", stamp))
    BY <2>1, <2>4 DEF Indexes
  <2> QED
    BY <2>5, IndexedCount DEF A
<1>8. ASSUME NEW role, NEW stamp, role # "Unmapped"
      PROVE  Cardinality(Made(role, stamp)) = Cardinality(Said(role, stamp))
  <2>1. CASE role = "Decision"
    BY <1>7, <2>1 DEF Made
  <2>2. CASE role = "Heartbeat"
    BY <1>4, <1>5, <2>2 DEF Made
  <2>3. CASE role \notin {"Decision", "Heartbeat"}
    <3>1. Made(role, stamp) = {k \in DOMAIN others : others[k].kind = role /\ others[k].stamp = stamp}
      BY <1>4, <2>3 DEF Made
    <3> QED
      BY <1>6, <1>8, <2>3, <3>1
  <2> QED
    BY <2>1, <2>2, <2>3
<1>9. ASSUME NEW e \in Bound
      PROVE  e[1] # "Unmapped"
  BY <1>4, <1>5, <1>6 DEF Bound, ToSet
<1> QED
  BY <1>8, <1>9

LEMMA EventsOnce ==
  ASSUME FilesInv, Imported
  PROVE  OneEventEach
BY EventsMade DEF OneEventEach

\* A collision that is given a window is given one on the boot's clock.
LEMMA CollisionsColocated ==
  ASSUME FilesInv, Imported, NEW x \in ToSet(events.outcomes), x.o.kind = "Collision", x.window # None
  PROVE  x.window.colocated
<1> DEFINE imported == ImportMcap(recording, mapping)
           beats == {i \in DOMAIN imported.outcomes : imported.outcomes[i].kind = "Heartbeat"}
           failures == Picked(imported.outcomes, DOMAIN imported.outcomes \ beats)
           name == Fold[mapping.embodiment]
           D == DOMAIN text.embodiments
           entries == [n \in D |-> LoadEmbodiment(n, text.embodiments[n])]
<1>1. PICK i \in DOMAIN failures : x = [o |-> failures[i], window |-> WindowOf(LoadedText(text), mapping.embodiment, failures[i].kind, None)]
  BY DEF Imported, Routed, ToSet
<1>2. x.window = WindowOf(LoadedText(text), mapping.embodiment, "Collision", None)
  BY <1>1
<1>3. LoadedText(text).embodiments = Keyed(D, entries)
  BY DEF LoadedText
<1>4. /\ name \in DOMAIN Keyed(D, entries)
      /\ "Collision" \in DOMAIN Keyed(D, entries)[name].attribution
      /\ x.window = Keyed(D, entries)[name].attribution["Collision"]
  BY <1>2, <1>3 DEF WindowOf
<1>5. PICK d \in D : Keyed(D, entries)[name] = LoadEmbodiment(d, text.embodiments[d])
  <2>1. name \in {Fold[d] : d \in D} /\ Keyed(D, entries)[name] = entries[CHOOSE d \in D : Fold[d] = name]
    BY <1>4 DEF Keyed
  <2>2. (CHOOSE d \in D : Fold[d] = name) \in D
    BY <2>1
  <2> QED
    BY <2>1, <2>2
<1>6. PICK raw : raw = text.embodiments[d].attribution
  OBVIOUS
<1>7. /\ "Collision" \in {KindSpelling[k] : k \in DOMAIN raw}
      /\ x.window = raw[CHOOSE k \in DOMAIN raw : KindSpelling[k] = "Collision"]
  <2>1. LoadEmbodiment(d, text.embodiments[d]).attribution
          = [kind \in {KindSpelling[k] : k \in DOMAIN raw} |-> raw[CHOOSE k \in DOMAIN raw : KindSpelling[k] = kind]]
    BY <1>6 DEF LoadEmbodiment
  <2> QED
    BY SMTT(30), <1>4, <1>5, <2>1
<1>8. EmbodimentErrors(text.embodiments[d]) = {}
  BY DEF Imported, CleanText, Clean
<1>9. DOMAIN raw \subseteq DOMAIN KindSpelling /\ \A k \in DOMAIN raw : k = "collision" => raw[k].colocated
  BY <1>6, <1>8 DEF EmbodimentErrors, When
<1>10. \A k \in DOMAIN KindSpelling : KindSpelling[k] = "Collision" => k = "collision"
  BY DEF KindSpelling
<1> QED
  BY <1>7, <1>9, <1>10

(***************************************************************************)
(* What a doctor who finds no problem vouches for.                         *)
(***************************************************************************)

LEMMA Distance ==
  ASSUME NEW a \in Nat, NEW b \in Nat
  PROVE  Max({a, b}) - Min({a, b}) = Max({a - b, b - a}) /\ Max({a - b, b - a}) \in Nat
<1>1. Max({a, b}) = IF a >= b THEN a ELSE b
  BY DEF Max
<1>2. Min({a, b}) = IF a >= b THEN b ELSE a
  BY DEF Min
<1>3. Max({a - b, b - a}) = IF a >= b THEN a - b ELSE b - a
  BY DEF Max
<1> QED
  BY <1>1, <1>2, <1>3

LEMMA SkewOf ==
  ASSUME NEW m \in Messages
  PROVE  /\ Skew(m) \in Nat
         /\ m.publish # 0 => Max({m.publish, m.log}) - Min({m.publish, m.log}) = Skew(m)
<1>1. m.log \in Nat /\ m.publish \in Nat
  BY FilesAssumption
<1>2. {m.publish - m.log, m.log - m.publish} = {m.log - m.publish, m.publish - m.log}
  OBVIOUS
<1> QED
  BY <1>1, <1>2, Distance DEF Skew

LEMMA NoProblems ==
  ASSUME FilesInv, diagnosis \notin {None, Failed}, Diagnosed, ~HasProblems(diagnosis)
  PROVE  /\ diagnosis.threshold \in Nat
         /\ \A i \in DOMAIN recording : Skew(recording[i]) <= diagnosis.threshold
         /\ \A c \in ToSet(Claims(mapping)) : \E i \in DOMAIN recording : recording[i].topic = c.topic
<1>1. PICK threshold \in Thresholds : diagnosis = Diagnose(recording, mapping, threshold)
  BY DEF Diagnosed
<1>2. threshold \in Nat /\ diagnosis.threshold = threshold
  BY <1>1, FilesAssumption DEF Diagnose
<1> DEFINE present == {m.topic : m \in ToSet(recording)}
           on(t) == {i \in DOMAIN recording : recording[i].topic = t}
           skews(t) == {Skew(recording[i]) : i \in on(t)}
<1>3. /\ {c.topic : c \in ToSet(Claims(mapping))} \subseteq present
      /\ \A t \in present : ~(Max(skews(t)) > threshold)
  <2>1. diagnosis.missing = {} /\ diagnosis.skewed = {}
    BY DEF HasProblems
  <2>2. diagnosis.missing = {c.topic : c \in ToSet(Claims(mapping))} \ present
    BY <1>1 DEF Diagnose
  <2>3. diagnosis.skewed = {t \in present : TopicReport(recording, mapping, t).skew > threshold}
    BY <1>1 DEF Diagnose
  <2>4. \A t \in present : TopicReport(recording, mapping, t).skew = Max(skews(t))
    BY DEF TopicReport
  <2> HIDE DEF present, skews
  <2> QED
    BY <2>1, <2>2, <2>3, <2>4
<1>4. IsFiniteSet(DOMAIN recording) /\ \A i \in DOMAIN recording : recording[i] \in Messages
  BY ListDomain DEF FilesInv
<1>5. ASSUME NEW i \in DOMAIN recording
      PROVE  Skew(recording[i]) <= threshold
  <2> DEFINE t == recording[i].topic
  <2>1. t \in present /\ Skew(recording[i]) \in skews(t)
    BY DEF ToSet
  <2>2. IsFiniteSet(on(t))
    BY <1>4, FS_Subset
  <2>3. IsFiniteSet(skews(t))
    <3> DEFINE skew == [j \in on(t) |-> Skew(recording[j])]
    <3>1. skew \in [on(t) -> skews(t)] /\ \A z \in skews(t) : \E j \in on(t) : skew[j] = z
      OBVIOUS
    <3> HIDE DEF skew, skews, on
    <3>2. skew \in Surjection(on(t), skews(t))
      BY <3>1, Fun_IsSurj
    <3> QED
      BY <2>2, <3>2, FS_Surjection
  <2>4. skews(t) \subseteq Nat
    BY <1>4, SkewOf
  <2> HIDE DEF skews, present
  <2>5. Max(skews(t)) \in skews(t) /\ Skew(recording[i]) <= Max(skews(t))
    BY <2>1, <2>3, <2>4, MaxIs
  <2>6. Skew(recording[i]) \in Nat /\ Max(skews(t)) \in Nat
    BY <2>1, <2>4, <2>5
  <2> QED
    BY <1>2, <1>3, <2>1, <2>5, <2>6
<1>6. ASSUME NEW c \in ToSet(Claims(mapping))
      PROVE  \E i \in DOMAIN recording : recording[i].topic = c.topic
  BY <1>3 DEF ToSet
<1> QED
  BY <1>2, <1>5, <1>6

\* The stamps agree with the recorder's clock.
LEMMA VouchedStamps ==
  ASSUME FilesInv, Imported, diagnosis \notin {None, Failed}, Diagnosed, ~HasProblems(diagnosis)
  PROVE  WithinThreshold
<1>1. SUFFICES ASSUME NEW e \in Bound, NEW i \in Said(e[1], e[2]),
                      ~(mapping.source = "PublishTime" /\ recording[i].publish = 0)
               PROVE  Max({e[2], recording[i].log}) - Min({e[2], recording[i].log}) <= diagnosis.threshold
  BY DEF WithinThreshold
<1>2. PICK m, stamp : m = recording[i] /\ stamp = e[2]
  OBVIOUS
<1>3. i \in DOMAIN recording /\ stamp = Stamp(mapping, m) /\ m \in Messages
  BY <1>1, <1>2, ListDomain DEF Said, Time, FilesInv
<1>4. m.log \in Nat /\ m.publish \in Nat /\ Skew(m) <= diagnosis.threshold /\ diagnosis.threshold \in Nat
  BY <1>2, <1>3, NoProblems, FilesAssumption
<1>5. CASE mapping.source = "PublishTime"
  BY <1>1, <1>2, <1>3, <1>4, <1>5, SkewOf DEF Stamp
<1>6. CASE mapping.source # "PublishTime"
  <2>1. stamp = m.log
    BY <1>3, <1>6 DEF Stamp
  <2>2. Max({stamp, m.log}) = m.log /\ Min({stamp, m.log}) = m.log
    BY <1>4, <2>1 DEF Max, Min
  <2>3. Max({stamp, m.log}) - Min({stamp, m.log}) <= diagnosis.threshold
    BY <1>4, <2>2
  <2> QED
    BY <1>2, <2>3
<1> QED
  BY <1>5, <1>6

\* A mapping without errors gives every topic the one role it is declared with.
LEMMA RolesDeclared ==
  ASSUME FilesInv, MappingErrors(mapping) = {}, NEW c \in ToSet(Claims(mapping))
  PROVE  RoleOf(mapping, c.topic) = c.role /\ c.role # "Unmapped"
<1> DEFINE topics == mapping.decisions
           claims == Claims(mapping)
           first == [i \in DOMAIN topics |-> [topic |-> topics[i], role |-> "Decision"]]
<1>1. /\ IsList(topics) /\ IsList(mapping.outcomes)
      /\ \A i \in DOMAIN mapping.outcomes : mapping.outcomes[i].role \in Range(KindSpelling)
  BY MappingsAssumption DEF FilesInv, IsMapping
<1>2. IsList(first)
  <2>1. DOMAIN topics = 1..Len(topics) /\ Len(topics) \in Nat
    BY <1>1, ListDomain
  <2>2. first \in [1..Len(topics) -> Range(first)]
    BY <2>1 DEF Range
  <2> HIDE DEF first
  <2> QED
    BY <2>1, <2>2, ListOf DEF IsList
<1>3. claims = first \o mapping.outcomes
  BY DEF Claims
<1>4. \A x \in Range(first) : x.role = "Decision"
  <2>1. \A i \in DOMAIN first : first[i].role = "Decision"
    OBVIOUS
  <2> HIDE DEF first
  <2> QED
    BY <2>1 DEF Range
<1> HIDE DEF first
<1>5. IsList(claims) /\ \A x : x \in Range(claims) <=> x \in Range(first) \/ x \in Range(mapping.outcomes)
  BY <1>1, <1>2, <1>3, ListConcat
<1> HIDE DEF claims
<1>6. c \in Range(claims) /\ \A x \in Range(claims) : \E i \in DOMAIN claims : x = claims[i]
  BY DEF claims, ToSet, Range
<1>7. c.role # "Unmapped"
  <2>1. \A k \in DOMAIN KindSpelling : KindSpelling[k] # "Unmapped"
    BY DEF KindSpelling
  <2>2. c \in Range(mapping.outcomes) => c.role \in Range(KindSpelling)
    BY <1>1 DEF Range
  <2> QED
    BY <1>4, <1>5, <1>6, <2>1, <2>2 DEF Range
<1>8. \A i, j \in DOMAIN claims : claims[i].topic = claims[j].topic => i = j
  <2>1. \A i \in DOMAIN claims : ~ \E j \in 1..(i - 1) : claims[j].topic = claims[i].topic
    BY DEF MappingErrors, claims
  <2>2. DOMAIN claims = 1..Len(claims) /\ Len(claims) \in Nat
    BY <1>5, ListDomain
  <2>3. SUFFICES ASSUME NEW i \in DOMAIN claims, NEW j \in DOMAIN claims, i < j, claims[i].topic = claims[j].topic
                 PROVE  FALSE
    BY <2>2
  <2>4. i \in 1..(j - 1)
    BY <2>2, <2>3
  <2> QED
    BY <2>1, <2>3, <2>4
<1>9. RoleOf(mapping, c.topic) = c.role
  <2> DEFINE of == {d \in ToSet(claims) : d.topic = c.topic}
  <2>1. of = {c}
    BY <1>6, <1>8 DEF ToSet, Range
  <2>2. RoleOf(mapping, c.topic) = IF of = {} THEN "Unmapped" ELSE (CHOOSE d \in of : TRUE).role
    BY DEF RoleOf, claims
  <2> HIDE DEF of
  <2> QED
    BY <2>1, <2>2
<1> QED
  BY <1>7, <1>9

\* Every topic that was declared gave at least one event of its role.
LEMMA VouchedTopics ==
  ASSUME FilesInv, Imported, diagnosis \notin {None, Failed}, Diagnosed, ~HasProblems(diagnosis)
  PROVE  NothingMissing
<1>1. SUFFICES ASSUME NEW c \in ToSet(Claims(mapping))
               PROVE  \E i \in DOMAIN recording : recording[i].topic = c.topic /\ Made(c.role, Time(i)) # {}
  BY DEF NothingMissing
<1>2. PICK i \in DOMAIN recording : recording[i].topic = c.topic
  BY NoProblems
<1>3. Role(i) = c.role /\ c.role # "Unmapped"
  BY <1>2, RolesDeclared DEF Role, Imported
<1>4. PICK role, stamp : role = c.role /\ stamp = Time(i)
  OBVIOUS
<1>5. i \in Said(role, stamp) /\ IsFiniteSet(Said(role, stamp))
  <2>1. IsFiniteSet(DOMAIN recording)
    BY ListDomain DEF FilesInv
  <2> QED
    BY <1>3, <1>4, <2>1, FS_Subset DEF Said
<1>6. Cardinality(Said(role, stamp)) # 0
  BY <1>5, FS_EmptySet
<1>7. Cardinality(Made(role, stamp)) # 0
  BY <1>3, <1>4, <1>6, EventsMade
<1>8. Made(role, stamp) # {}
  BY <1>7, FS_EmptySet
<1> QED
  BY <1>2, <1>4, <1>8

(***************************************************************************)
(* An import makes one event of each message whose topic has a role, at    *)
(* the stamp of the mapping's clock and no others, and numbers the         *)
(* decisions by that clock, whatever order the file has them in; after a   *)
(* doctor who found no problem every declared topic gave an event and, but *)
(* for publish times that are not known, every stamp is within his         *)
(* threshold of the recorder's clock; and a collision is never given a     *)
(* window that may match on wall-clock time (import lib.rs, doctor.rs,     *)
(* config embodiment.rs).                                                  *)
(***************************************************************************)
THEOREM ImportSafe == Spec => []ImportKeepsTheClock
<1>1. FilesInv /\ WordsInv => ImportKeepsTheClock
  <2> SUFFICES ASSUME FilesInv, WordsInv, events \notin {None, Failed}
               PROVE  /\ OneEventEach
                      /\ NumberedByClock
                      /\ \A x \in ToSet(events.outcomes) : x.o.kind = "Collision" /\ x.window # None => x.window.colocated
                      /\ diagnosis \notin {None, Failed} /\ ~HasProblems(diagnosis) => WithinThreshold /\ NothingMissing
    BY DEF ImportKeepsTheClock
  <2>1. Imported /\ (diagnosis \notin {None, Failed} => Diagnosed)
    BY DEF WordsInv
  <2>2. OneEventEach
    BY <2>1, EventsOnce
  <2>3. NumberedByClock
    BY <2>1, ImportNumbers
  <2>4. \A x \in ToSet(events.outcomes) : x.o.kind = "Collision" /\ x.window # None => x.window.colocated
    BY <2>1, CollisionsColocated
  <2>5. diagnosis \notin {None, Failed} /\ ~HasProblems(diagnosis) => WithinThreshold
    BY <2>1, VouchedStamps
  <2>6. diagnosis \notin {None, Failed} /\ ~HasProblems(diagnosis) => NothingMissing
    BY <2>1, VouchedTopics
  <2> QED
    BY <2>2, <2>3, <2>4, <2>5, <2>6
<1> QED
  BY <1>1, FilesInit, FilesStep, WordsInit, WordsStep, PTL DEF Spec
=============================================================================
