-------------------------- MODULE QueryCache_proofs --------------------------
(***************************************************************************)
(* That the query cache keeps its promises for any workspaces, lists,      *)
(* requests, switches and changes.  Only that nothing crosses a switch     *)
(* needs the answer to a switch to arrive.                                 *)
(***************************************************************************)
EXTENDS QueryCache, FiniteSetTheorems, TLAPS

Places     == {"free", "out", "data", "pending", "required", "error"}
ReadType   == [at : Places, key : Keys, data : Data \cup {NoData},
               callers : SUBSET (Readers \cup {"link"})]
ResultType == [epoch : 0..MaxEpoch, kind : {"none", "data", "pending", "error"},
               data : Data \cup {NoData}]
ReaderType == [mounted : BOOLEAN, due : BOOLEAN, fresh : BOOLEAN, asked : 0..MaxReads,
               waits : BOOLEAN, result : ResultType]

Shape ==
  /\ session \in Workspaces \cup {NoWorkspace}
  /\ version \in [Workspaces -> 0..MaxChanges] /\ removals \in 0..MaxRemovals
  /\ epoch \in 0..MaxEpoch /\ active \in Workspaces \cup {NoWorkspace, Unknown}
  /\ answers \in [Keys -> [data : Data \cup {NoData}, age : 0..MaxAnswers]]
  /\ inflight \in [Keys -> 0..MaxReads]
  /\ reads \in [ReadIds -> ReadType]
  /\ readers \in [Readers -> ReaderType]
  /\ switch \in [at : {"none", "out", "served"}, to : Workspaces \cup {NoWorkspace}]
  /\ change \in {"none", "out"} \cup Workspaces
  /\ shownChange \in [Workspaces -> 0..MaxChanges]
  /\ switch.at # "none" => epoch < MaxEpoch

\* Nobody's answer is of nobody's workspace, but the session's.
Proper(k, d) == d \in Data /\ (k[2] # "session" => d.ws \in Workspaces)

ReadsOK ==
  \A q \in ReadIds :
    /\ reads[q].at = "data" => Proper(reads[q].key, reads[q].data)
    /\ reads[q].at # "free" => reads[q].key[1] <= epoch

\* The request that may be joined is out, and for that key.
InflightOK ==
  \A k \in Keys : inflight[k] # 0 => reads[inflight[k]].at # "free" /\ reads[inflight[k]].key = k

\* The answers have an order.
Map       == [Keys -> [data : Data \cup {NoData}, age : 0..MaxAnswers]]
Aged(m)   == \A j, k \in Keys : Cached(m, j) /\ Cached(m, k) /\ j # k => m[j].age # m[k].age
AnswersOK == /\ Aged(answers)
             /\ \A k \in Keys : Cached(answers, k) => Proper(k, answers[k].data)

\* A reader listens to a request for what it reads, of this epoch unless it will ask again.
AskedFits(r) ==
  readers[r].asked # 0 =>
    /\ reads[readers[r].asked].at # "free" /\ reads[readers[r].asked].key[2] = PartOf(r)
    /\ readers[r].due \/ reads[readers[r].asked].key[1] = epoch
ResultFits(r) ==
  /\ ~readers[r].mounted => readers[r] = Absent
  /\ readers[r].result.epoch <= epoch
  /\ readers[r].result.kind = "data" => Proper(<<0, PartOf(r)>>, readers[r].result.data)
  /\ readers[r].waits => r = "report" /\ (readers[r].due \/ readers[r].result.epoch = epoch)
Idle(r) == readers[r].mounted /\ ~blocked(r) /\ ~readers[r].due /\ readers[r].asked = 0
IdleFits(r) == Idle(r) => settled(r) /\ (readers[r].result.kind = "pending" => readers[r].waits)
ReaderOK(r) == AskedFits(r) /\ ResultFits(r) /\ IdleFits(r)
ReadersOK   == readers["guard"].mounted /\ \A r \in Readers : ReaderOK(r)

\* The workspaces that what is read now tells of: there is one, but for the time between
\* the moment the API has switched and the moment the page knows.
TellsOf(w) ==
  \/ w = session
  \/ w = active
  \/ \E q \in ReadIds : reads[q].at = "data" /\ reads[q].key[1] = epoch /\ reads[q].data.ws = w
  \/ Cached(answers, <<epoch, "health">>) /\ answers[<<epoch, "health">>].data.ws = w
  \/ \E r \in Readers : /\ r # "guard" /\ Idle(r) /\ settled(r)
                        /\ readers[r].result.kind = "data" /\ readers[r].result.data.ws = w
SpaceOK ==
  ~AnswersMayBeLost =>
    /\ switch.at = "served" => session = switch.to
    /\ switch.at # "served" => \A v, w \in Workspaces : TellsOf(v) /\ TellsOf(w) => v = w

\* Nothing that a list shows, or is about to, is older than what a list was told of.
Recent(d)   == d.ws \in Workspaces => shownChange[d.ws] <= d.v
Wanted(q)   == \/ inflight[<<epoch, "projects">>] = q
               \/ \E r \in ListReaders : readers[r].asked = q
ReadRecent(q) == reads[q].at = "data" /\ reads[q].key = <<epoch, "projects">> /\ Wanted(q) =>
                   Recent(reads[q].data)
ListRecent(r) == settled(r) /\ readers[r].result.kind = "data" => Recent(readers[r].result.data)
ChangesOK ==
  /\ \A w \in Workspaces : shownChange[w] <= version[w]
  /\ Cached(answers, <<epoch, "projects">>) => Recent(answers[<<epoch, "projects">>].data)
  /\ \A r \in ListReaders : ListRecent(r)
  /\ \A q \in ReadIds : ReadRecent(q)

Inv == Shape /\ ReadsOK /\ InflightOK /\ AnswersOK /\ ReadersOK /\ SpaceOK /\ ChangesOK

-----------------------------------------------------------------------------
(***************************************************************************)
(* The map of answers.                                                     *)
(***************************************************************************)
LEMMA KeysFinite == IsFiniteSet(Keys)
<1>1. IsFiniteSet(0..MaxEpoch)
  BY FS_Interval, QueryAssumption
<1>2. IsFiniteSet(Requested)
  <2>1. IsFiniteSet({}) BY FS_EmptySet
  <2>2. IsFiniteSet({} \cup {"session"}) BY <2>1, FS_AddElement
  <2>3. IsFiniteSet({"session"} \cup {"projects"}) BY <2>2, FS_AddElement
  <2>4. IsFiniteSet(({"session"} \cup {"projects"}) \cup {"health"}) BY <2>3, FS_AddElement
  <2> QED BY <2>4, Zenon DEF Requested
<1> QED
  BY <1>1, <1>2, FS_Product DEF Keys

younger(m, keys, k) == {j \in Keys \ keys : m[j].age < m[k].age}

LEMMA YoungerFinite ==
  ASSUME NEW m, NEW keys, NEW k
  PROVE  IsFiniteSet(younger(m, keys, k)) /\ Cardinality(younger(m, keys, k)) \in Nat
<1>1. younger(m, keys, k) \in SUBSET Keys
  BY DEF younger
<1> QED
  BY <1>1, KeysFinite, FS_Subset, FS_CardinalityType

\* An answer has no more younger ones than its age says.
LEMMA YoungerFew ==
  ASSUME NEW m \in Map, Aged(m), NEW keys, NEW k \in Keys, Cached(m, k)
  PROVE  Cardinality(younger(m, keys, k)) \in 0..m[k].age
<1> USE QueryAssumption
<1> DEFINE S == younger(m, keys, k)
           T == 0..(m[k].age - 1)
           f == [j \in S |-> m[j].age]
<1>1. m[k].age \in Nat /\ \A j \in Keys : m[j].age \in Nat
  BY DEF Map
<1>2. IsFiniteSet(T) /\ Cardinality(T) = m[k].age
  BY <1>1, FS_Interval
<1>3. f \in [S -> T]
  BY <1>1 DEF younger
<1>4. ASSUME NEW i \in S, NEW j \in S, f[i] = f[j] PROVE i = j
  BY <1>1, <1>4 DEF Aged, Cached, Map, younger
<1>5. f \in Injection(S, T)
  BY <1>3, <1>4, Zenon DEF Injection, IsInjective
<1>6. Cardinality(S) <= Cardinality(T)
  <2> HIDE DEF f, S, T
  <2> QED BY <1>2, <1>5, FS_Injection
<1> QED
  BY <1>1, <1>2, <1>6, YoungerFinite

LEMMA YoungerOrdered ==
  ASSUME NEW m \in Map, NEW keys, NEW j \in Keys \ keys, NEW k \in Keys, m[j].age < m[k].age
  PROVE  Cardinality(younger(m, keys, j)) < Cardinality(younger(m, keys, k))
<1> USE QueryAssumption
<1>1. m[k].age \in Nat /\ \A i \in Keys : m[i].age \in Nat
  BY DEF Map
<1>2. younger(m, keys, j) \in SUBSET younger(m, keys, k)
  BY <1>1 DEF younger
<1>3. j \in younger(m, keys, k) /\ j \notin younger(m, keys, j)
  BY <1>1 DEF younger
<1> QED
  BY <1>2, <1>3, YoungerFinite, FS_Subset

\* What is left when some keys are forgotten.
LEMMA WithoutIs ==
  ASSUME NEW m \in Map, Aged(m), NEW keys
  PROVE  /\ without(m, keys) \in Map /\ Aged(without(m, keys))
         /\ \A k \in Keys : Cached(without(m, keys), k) =>
              k \notin keys /\ Cached(m, k) /\ without(m, keys)[k].data = m[k].data
<1> USE QueryAssumption
<1> DEFINE n == without(m, keys)
           Slot == [data : Data \cup {NoData}, age : 0..MaxAnswers]
           rank(k) == Cardinality(younger(m, keys, k))
           Kept(k) == k \notin keys /\ Cached(m, k)
<1>1. ASSUME NEW k \in Keys, ~Kept(k)
      PROVE  n[k] \in Slot /\ ~Cached(n, k)
  <2>1. n[k] = NotCached
    BY <1>1 DEF without
  <2>2. NotCached \in Slot /\ NotCached.age = MaxAnswers
    BY DEF NotCached
  <2>3. ~(MaxAnswers < MaxAnswers)
    OBVIOUS
  <2> QED BY <2>1, <2>2, <2>3 DEF Cached
<1>2. ASSUME NEW k \in Keys, Kept(k)
      PROVE  n[k] \in Slot /\ n[k].data = m[k].data /\ n[k].age = rank(k)
  <2>1. m[k] \in Slot
    BY DEF Map
  <2>2. rank(k) \in 0..m[k].age
    BY <1>2, YoungerFew
  <2>3. n[k] = [m[k] EXCEPT !.age = rank(k)]
    BY <1>2 DEF without, younger
  <2>4. rank(k) \in 0..MaxAnswers
    <3> HIDE DEF rank
    <3> QED BY <2>1, <2>2
  <2> HIDE DEF rank, n
  <2> QED
    BY <2>1, <2>3, <2>4
<1>3. n = [k \in Keys |-> n[k]]
  BY DEF without
<1>4. ASSUME NEW j \in Keys, NEW k \in Keys, Kept(j), Kept(k), j # k
      PROVE  rank(j) # rank(k)
  <2>1. m[j].age \in Nat /\ m[k].age \in Nat /\ m[j].age # m[k].age
    BY <1>4 DEF Map, Aged
  <2>2. rank(j) \in Nat /\ rank(k) \in Nat
    BY YoungerFinite
  <2>3. m[j].age < m[k].age => rank(j) < rank(k)
    BY <1>4, YoungerOrdered
  <2>4. m[k].age < m[j].age => rank(k) < rank(j)
    BY <1>4, YoungerOrdered
  <2> HIDE DEF rank
  <2> QED BY <2>1, <2>2, <2>3, <2>4
<1> HIDE DEF n, rank, Kept
<1>5. n \in Map
  BY <1>1, <1>2, <1>3 DEF Map
<1>6. \A k \in Keys : Cached(n, k) => Kept(k) /\ n[k].data = m[k].data /\ n[k].age = rank(k)
  BY <1>1, <1>2
<1>7. Aged(n)
  BY <1>4, <1>6 DEF Aged
<1> QED
  <2>1. \A k \in Keys : Cached(n, k) => k \notin keys /\ Cached(m, k) /\ n[k].data = m[k].data
    BY <1>6 DEF Kept
  <2> QED BY <1>5, <1>7, <2>1 DEF n

\* What is there when an answer has been put in.
LEMMA RememberIs ==
  ASSUME NEW m \in Map, Aged(m), NEW key \in Keys, NEW data \in Data \cup {NoData}
  PROVE  /\ remember(m, key, data) \in Map /\ Aged(remember(m, key, data))
         /\ \A k \in Keys : Cached(remember(m, key, data), k) =>
              IF k = key THEN remember(m, key, data)[k].data = data
              ELSE Cached(m, k) /\ remember(m, key, data)[k].data = m[k].data
<1> USE QueryAssumption
<1> DEFINE n == remember(m, key, data)
           Slot == [data : Data \cup {NoData}, age : 0..MaxAnswers]
<1>1. \A k \in Keys : m[k] \in Slot
  BY DEF Map
<1>2. n[key] = [data |-> data, age |-> 0]
  BY DEF remember
<1>3. ASSUME NEW k \in Keys, k # key
      PROVE  /\ n[k] \in Slot
             /\ Cached(n, k) =>
                  /\ Cached(m, k) /\ n[k].data = m[k].data /\ m[k].age # m[key].age
                  /\ n[k].age = IF m[k].age < m[key].age THEN m[k].age + 1 ELSE m[k].age
                  /\ n[k].age # 0
  <2>1. m[k] \in Slot /\ m[k].age \in 0..MaxAnswers /\ m[key].age \in 0..MaxAnswers
    BY <1>1
  <2>2. n[k] = IF m[k].age >= m[key].age THEN m[k]
               ELSE IF m[k].age + 1 = MaxAnswers THEN NotCached
               ELSE [m[k] EXCEPT !.age = m[k].age + 1]
    BY <1>3 DEF remember
  <2>3. m[k].age = m[key].age => ~Cached(m, k)
    BY <1>3 DEF Aged, Cached
  <2> HIDE DEF n
  <2>4. CASE m[k].age >= m[key].age
    BY <2>1, <2>2, <2>3, <2>4 DEF Cached
  <2>5. CASE m[k].age < m[key].age /\ m[k].age + 1 = MaxAnswers
    <3>1. n[k] = NotCached
      BY <2>1, <2>2, <2>5
    <3>2. NotCached \in Slot /\ NotCached.age = MaxAnswers
      BY DEF NotCached
    <3> QED BY <3>1, <3>2 DEF Cached
  <2>6. CASE m[k].age < m[key].age /\ m[k].age + 1 # MaxAnswers
    <3>1. n[k] = [m[k] EXCEPT !.age = m[k].age + 1]
      BY <2>1, <2>2, <2>6
    <3>2. n[k] \in Slot /\ n[k].data = m[k].data /\ n[k].age = m[k].age + 1
      BY <2>1, <2>6, <3>1
    <3> QED BY <2>1, <2>6, <3>2 DEF Cached
  <2> QED BY <2>1, <2>4, <2>5, <2>6
<1>4. n[key] \in Slot /\ n[key].data = data /\ n[key].age = 0
  BY <1>2
<1>5. n = [k \in Keys |-> n[k]]
  BY DEF remember
<1> HIDE DEF n
<1>6. n \in Map
  BY <1>3, <1>4, <1>5 DEF Map
<1>7. ASSUME NEW j \in Keys, NEW k \in Keys, Cached(n, j), Cached(n, k), j # k,
             n[j].age = n[k].age
      PROVE  FALSE
  <2>1. m[k].age \in 0..MaxAnswers /\ m[key].age \in 0..MaxAnswers /\ m[j].age \in 0..MaxAnswers
    BY <1>1
  <2>2. CASE j = key
    BY <1>3, <1>4, <1>7, <2>2
  <2>3. CASE k = key
    BY <1>3, <1>4, <1>7, <2>3
  <2>4. CASE j # key /\ k # key
    <3>1. /\ Cached(m, j) /\ m[j].age # m[key].age
          /\ n[j].age = IF m[j].age < m[key].age THEN m[j].age + 1 ELSE m[j].age
      BY <1>3, <1>7, <2>4
    <3>2. /\ Cached(m, k) /\ m[k].age # m[key].age
          /\ n[k].age = IF m[k].age < m[key].age THEN m[k].age + 1 ELSE m[k].age
      BY <1>3, <1>7, <2>4
    <3>3. m[j].age # m[k].age
      BY <1>7, <3>1, <3>2 DEF Aged
    <3>4. \A x, y, z \in 0..MaxAnswers : x # z /\ y # z /\ x # y =>
            (IF x < z THEN x + 1 ELSE x) # (IF y < z THEN y + 1 ELSE y)
      OBVIOUS
    <3> QED BY <1>7, <2>1, <3>1, <3>2, <3>3, <3>4
  <2> QED BY <2>2, <2>3, <2>4
<1>8. Aged(n)
  BY <1>7 DEF Aged
<1>9. \A k \in Keys : Cached(n, k) =>
          IF k = key THEN n[k].data = data ELSE Cached(m, k) /\ n[k].data = m[k].data
  BY <1>3, <1>4
<1> QED
  BY <1>6, <1>8, <1>9 DEF n

\* The cache keeps its bound.
LEMMA CacheBounded ==
  ASSUME NEW m \in Map, Aged(m)
  PROVE  Cardinality({k \in Keys : Cached(m, k)}) <= MaxAnswers
<1> USE QueryAssumption
<1> DEFINE S == {k \in Keys : Cached(m, k)}
           T == 0..(MaxAnswers - 1)
           f == [k \in S |-> m[k].age]
<1>1. IsFiniteSet(T) /\ Cardinality(T) = MaxAnswers
  BY FS_Interval
<1>2. f \in [S -> T]
  BY DEF Map, Cached
<1>3. ASSUME NEW i \in S, NEW j \in S, f[i] = f[j] PROVE i = j
  BY <1>3 DEF Aged
<1>4. f \in Injection(S, T)
  BY <1>2, <1>3, Zenon DEF Injection, IsInjective
<1> HIDE DEF S, T, f
<1>5. Cardinality(S) <= Cardinality(T)
  BY <1>1, <1>4, FS_Injection
<1> QED
  BY <1>1, <1>5 DEF S

-----------------------------------------------------------------------------
(***************************************************************************)
(* Types of the parts.                                                     *)
(***************************************************************************)
LEMMA Parts ==
  /\ 0 \in 0..MaxEpoch /\ 0 \in 0..MaxReads /\ 0 \in 0..MaxChanges
  /\ NoData \in Data \cup {NoData} /\ NoResult \in ResultType /\ Absent \in ReaderType
  /\ <<0, "session">> \in Keys /\ Free \in ReadType
  /\ \A r \in Readers : PartOf(r) \in Requested
  /\ \A r \in ListReaders : r \in Readers /\ PartOf(r) = "projects" /\ r # "guard" /\ r # "report"
  /\ "guard" \in Readers /\ PartOf("guard") = "session"
  /\ "report" \in Readers /\ PartOf("report") = "health"
<1> USE QueryAssumption
<1>1. 0 \in 0..MaxEpoch /\ 0 \in 0..MaxReads /\ 0 \in 0..MaxChanges
  OBVIOUS
<1>2. NoResult \in ResultType
  BY <1>1 DEF NoResult, ResultType
<1>3. Absent \in ReaderType
  BY <1>1, <1>2 DEF Absent, ReaderType
<1>4. <<0, "session">> \in Keys
  BY <1>1 DEF Keys, Requested
<1>5. Free \in ReadType
  BY <1>4 DEF Free, ReadType, Places
<1>6. \A r \in Readers : PartOf(r) \in Requested
  BY DEF PartOf, Requested
<1>7. \A r \in ListReaders : r # "guard" /\ r # "report"
  OBVIOUS
<1>8. \A r \in ListReaders : r \in Readers /\ PartOf(r) = "projects"
  BY <1>7 DEF Readers, PartOf
<1>9. /\ "guard" \in Readers /\ PartOf("guard") = "session"
      /\ "report" \in Readers /\ PartOf("report") = "health"
  BY DEF Readers, PartOf
<1> QED
  BY <1>1, <1>2, <1>3, <1>4, <1>5, <1>6, <1>7, <1>8, <1>9

LEMMA KeyIs ==
  ASSUME NEW e \in 0..MaxEpoch, NEW part \in Requested
  PROVE  <<e, part>> \in Keys /\ <<e, part>>[1] = e /\ <<e, part>>[2] = part
BY DEF Keys

\* A reader, field by field.
LEMMA ReaderFields ==
  ASSUME Shape, NEW r \in Readers
  PROVE  /\ readers[r] \in ReaderType
         /\ readers[r].mounted \in BOOLEAN /\ readers[r].due \in BOOLEAN
         /\ readers[r].fresh \in BOOLEAN /\ readers[r].waits \in BOOLEAN
         /\ readers[r].asked \in 0..MaxReads
         /\ readers[r].result \in ResultType
         /\ readers[r].result.epoch \in 0..MaxEpoch
         /\ readers[r].result.data \in Data \cup {NoData}
         /\ DOMAIN readers = Readers
BY DEF Shape, ReaderType, ResultType

LEMMA ReadFields ==
  ASSUME Shape, NEW q \in ReadIds
  PROVE  /\ reads[q] \in ReadType /\ reads[q].at \in Places /\ reads[q].key \in Keys
         /\ reads[q].key[1] \in 0..MaxEpoch /\ reads[q].key[2] \in Requested
         /\ reads[q].key = <<reads[q].key[1], reads[q].key[2]>>
         /\ reads[q].data \in Data \cup {NoData}
         /\ DOMAIN reads = ReadIds
BY DEF Shape, ReadType, Keys

\* What a request, sent or joined, comes to.
LEMMA FetchIs ==
  ASSUME Shape, InflightOK, NEW r \in Readers \cup {"link"}, NEW key \in Keys, NEW fresh,
         fetchShared(r, key, fresh)
  PROVE  /\ reads' \in [ReadIds -> ReadType] /\ inflight' \in [Keys -> 0..MaxReads]
         /\ inflight'[key] \in ReadIds /\ reads'[inflight'[key]].at # "free"
         /\ reads'[inflight'[key]].key = key
         /\ \A k \in Keys \ {key} : inflight'[k] = inflight[k]
         /\ \A q \in ReadIds :
              \/ /\ reads'[q].at = reads[q].at /\ reads'[q].key = reads[q].key
                 /\ reads'[q].data = reads[q].data /\ (q = inflight'[key] => q = inflight[key])
              \/ reads[q].at = "free" /\ reads'[q].at = "out" /\ reads'[q].key = key
                 /\ inflight'[key] = q
<1> USE QueryAssumption DEF ReadIds
<1>1. CASE ~fresh /\ inflight[key] # 0
  <2>1. inflight[key] \in ReadIds /\ reads[inflight[key]].at # "free"
        /\ reads[inflight[key]].key = key
    BY <1>1 DEF Shape, InflightOK
  <2>2. inflight' = inflight
        /\ reads' = [reads EXCEPT ![inflight[key]].callers = @ \cup {r}]
    BY <1>1 DEF fetchShared
  <2>3. ASSUME NEW q \in ReadIds
        PROVE  /\ reads'[q] \in ReadType /\ reads'[q].at = reads[q].at
               /\ reads'[q].key = reads[q].key /\ reads'[q].data = reads[q].data
    BY <2>2, ReadFields DEF ReadType
  <2>4. reads' \in [ReadIds -> ReadType]
    BY <2>2, <2>3 DEF Shape
  <2> QED
    BY <2>1, <2>2, <2>3, <2>4 DEF Shape
<1>2. CASE ~(~fresh /\ inflight[key] # 0)
  <2>1. PICK q \in ReadIds :
          /\ \A p \in 1..q : (reads[p] = Free) = (p = q)
          /\ reads' = [reads EXCEPT ![q] = [at |-> "out", key |-> key, data |-> NoData,
                                            callers |-> {r}]]
          /\ inflight' = [inflight EXCEPT ![key] = q]
    BY <1>2 DEF fetchShared
  <2>2. reads[q].at = "free"
    BY <2>1 DEF Free
  <2>3. [at |-> "out", key |-> key, data |-> NoData, callers |-> {r}] \in ReadType
    <3>1. NoData \in Data \cup {NoData} /\ "out" \in Places /\ {r} \in SUBSET (Readers \cup {"link"})
      BY DEF Places
    <3> QED BY <3>1 DEF ReadType
  <2>4. /\ reads' \in [ReadIds -> ReadType] /\ inflight' \in [Keys -> 0..MaxReads]
        /\ inflight'[key] = q /\ \A k \in Keys \ {key} : inflight'[k] = inflight[k]
        /\ reads'[q].at = "out" /\ reads'[q].key = key
        /\ \A p \in ReadIds \ {q} : reads'[p] = reads[p]
    BY <2>1, <2>3 DEF Shape
  <2> QED
    BY <2>2, <2>4
<1> QED
  BY <1>1, <1>2

-----------------------------------------------------------------------------
(***************************************************************************)
(* Steps of the API and of readers that do not touch a request.            *)
(***************************************************************************)
\* A reader that is given up, asks again or waits behind its gate.
Rests(r) ==
  /\ readers'[r].result \in {NoResult, readers[r].result}
  /\ readers'[r].asked = 0 \/ (readers'[r].asked = readers[r].asked /\ readers'[r].due)
  /\ readers'[r].waits => readers[r].waits /\ readers'[r].due
  /\ readers'[r].mounted \/ readers'[r] = Absent
  /\ readers'[r].due \/ ~readers'[r].mounted \/ blocked(r)

LEMMA RestsFits ==
  ASSUME Shape, ReadsOK, NEW r \in Readers, ReaderOK(r),
         UNCHANGED <<reads, epoch, active>>,
         readers'[r] = readers[r] \/ Rests(r)
  PROVE  ReaderOK(r)'
<1>1. CASE readers'[r] = readers[r]
  BY <1>1 DEF ReaderOK, AskedFits, ResultFits, IdleFits, Idle, settled, blocked
<1>2. CASE Rests(r)
  <2>1. AskedFits(r)'
    BY <1>2 DEF ReaderOK, AskedFits, Rests
  <2>2. ResultFits(r)'
    <3>1. NoResult.epoch = 0 /\ NoResult.kind = "none"
      BY DEF NoResult
    <3>2. 0 <= epoch
      BY QueryAssumption DEF Shape
    <3>3. /\ readers'[r].result.epoch <= epoch
          /\ readers'[r].result.kind = "data" => Proper(<<0, PartOf(r)>>, readers'[r].result.data)
      BY <1>2, <3>1, <3>2 DEF ReaderOK, ResultFits, Rests
    <3> QED
      BY <1>2, <3>3 DEF ReaderOK, ResultFits, Rests
  <2>3. ~Idle(r)'
    BY <1>2 DEF Rests, Idle, blocked
  <2> QED
    BY <2>1, <2>2, <2>3 DEF ReaderOK, IdleFits
<1> QED
  BY <1>1, <1>2

\* What holds after a step that only forgets: no reader shows or awaits anything new.
LEMMA Forgetting ==
  ASSUME Shape, ReadsOK, InflightOK, AnswersOK, ReadersOK, ChangesOK, Shape',
         UNCHANGED <<reads, epoch, active, shownChange>>,
         \A k \in Keys : inflight'[k] \in {0, inflight[k]},
         Aged(answers'),
         \A k \in Keys : Cached(answers', k) =>
           Cached(answers, k) /\ answers'[k].data = answers[k].data,
         \A w \in Workspaces : version[w] <= version'[w],
         readers'["guard"].mounted,
         \A r \in Readers : readers'[r] = readers[r] \/ Rests(r)
  PROVE  /\ ReadsOK' /\ InflightOK' /\ AnswersOK' /\ ReadersOK' /\ ChangesOK'
         /\ \A w \in Workspaces : TellsOf(w)' => TellsOf(w) \/ w = session'
<1>1. ReadsOK'
  BY DEF ReadsOK
<1>2. InflightOK'
  BY DEF InflightOK
<1>3. AnswersOK'
  BY DEF AnswersOK
<1>4. ReadersOK'
  BY RestsFits DEF ReadersOK
<1>5. <<epoch, "projects">> \in Keys /\ <<epoch, "health">> \in Keys
  BY KeyIs DEF Shape, Requested
<1>6. ChangesOK'
  <2>1. \A w \in Workspaces : shownChange[w] <= version'[w]
    BY DEF ChangesOK, Shape
  <2>2. Cached(answers', <<epoch, "projects">>) => Recent(answers'[<<epoch, "projects">>].data)
    BY <1>5 DEF ChangesOK
  <2>3. ASSUME NEW r \in ListReaders PROVE ListRecent(r)'
    <3>1. NoResult.kind = "none"
      BY DEF NoResult
    <3>2. readers'[r].result \in {NoResult, readers[r].result}
      BY Parts DEF Rests
    <3> QED
      BY <3>1, <3>2 DEF ChangesOK, ListRecent, settled, Recent
  <2>4. ASSUME NEW q \in ReadIds PROVE ReadRecent(q)'
    <3>1. q # 0
      BY DEF ReadIds
    <3>2. \A r \in ListReaders : readers'[r].asked \in {0, readers[r].asked}
      BY Parts DEF Rests
    <3>3. Wanted(q)' => Wanted(q)
      BY <1>5, <3>1, <3>2 DEF Wanted
    <3> QED
      BY <3>3 DEF ChangesOK, ReadRecent, Recent
  <2> QED
    BY <2>1, <2>2, <2>3, <2>4 DEF ChangesOK, Recent
<1>7. ASSUME NEW w \in Workspaces, TellsOf(w)' PROVE TellsOf(w) \/ w = session'
  <2>1. ASSUME NEW r \in Readers, Idle(r)' PROVE readers'[r] = readers[r] /\ Idle(r)
    BY <2>1 DEF Rests, Idle, blocked
  <2>2. (\E r \in Readers : /\ r # "guard" /\ Idle(r) /\ settled(r)
                            /\ readers[r].result.kind = "data" /\ readers[r].result.data.ws = w)'
          => \E r \in Readers : /\ r # "guard" /\ Idle(r) /\ settled(r)
                                /\ readers[r].result.kind = "data" /\ readers[r].result.data.ws = w
    BY <2>1 DEF settled
  <2> QED
    BY <1>5, <1>7, <2>2 DEF TellsOf
<1> QED
  BY <1>1, <1>2, <1>3, <1>4, <1>6, <1>7

\* The page tells of no workspace that it did not tell of before.
LEMMA SpaceKept ==
  ASSUME SpaceOK, switch'.at = switch.at,
         switch.at = "served" => session' = switch'.to,
         switch.at # "served" => \A w \in Workspaces : TellsOf(w)' => TellsOf(w)
  PROVE  SpaceOK'
BY DEF SpaceOK

\* Nothing that is read changes: the API, and calls that are on their way.
Quiet == UNCHANGED <<screen, epochVars, cacheVars, reads, readers, shownChange>>

LEMMA QuietForgets ==
  ASSUME Inv, Quiet, Shape', \A w \in Workspaces : version[w] <= version'[w]
  PROVE  /\ ReadsOK' /\ InflightOK' /\ AnswersOK' /\ ReadersOK' /\ ChangesOK'
         /\ \A w \in Workspaces : TellsOf(w)' => TellsOf(w) \/ w = session'
<1>1. UNCHANGED <<reads, epoch, active, shownChange, answers, inflight, readers>>
  BY DEF Quiet, epochVars, cacheVars
<1>2. \A k \in Keys : inflight'[k] \in {0, inflight[k]}
  BY <1>1
<1>3. Aged(answers') /\ \A k \in Keys : Cached(answers', k) =>
        Cached(answers, k) /\ answers'[k].data = answers[k].data
  BY <1>1 DEF Inv, AnswersOK
<1>4. readers'["guard"].mounted /\ \A r \in Readers : readers'[r] = readers[r] \/ Rests(r)
  BY <1>1 DEF Inv, ReadersOK
<1> QED
  BY <1>1, <1>2, <1>3, <1>4, Forgetting DEF Inv

LEMMA ApiKeeps ==
  ASSUME Inv, RemovedByAdmin \/ ServeChange
  PROVE  Inv'
<1> USE QueryAssumption
<1>1. CASE RemovedByAdmin
  <2>1. Quiet /\ version' = version /\ UNCHANGED <<switch, change>>
        /\ session' = NoWorkspace /\ switch = NoSwitch
    BY <1>1 DEF RemovedByAdmin, Quiet, userVars, epochVars, cacheVars
  <2>2. Shape'
    <3>1. removals' \in 0..MaxRemovals
      BY <1>1 DEF RemovedByAdmin, Inv, Shape
    <3> QED
      BY <2>1, <3>1 DEF Inv, Shape, Quiet, epochVars, cacheVars
  <2>3. \A w \in Workspaces : version[w] <= version'[w]
    BY <2>1 DEF Inv, Shape
  <2>4. SpaceOK'
    <3>1. switch.at # "served" /\ switch' = switch
      BY <2>1 DEF NoSwitch
    <3>2. \A w \in Workspaces : w # session'
      BY <2>1 DEF NoWorkspace
    <3>3. \A w \in Workspaces : TellsOf(w)' => TellsOf(w)
      BY <2>1, <2>2, <2>3, <3>2, QuietForgets
    <3> QED BY <3>1, <3>3, SpaceKept DEF Inv
  <2> QED
    BY <2>1, <2>2, <2>3, <2>4, QuietForgets DEF Inv
<1>2. CASE ServeChange
  <2>1. Quiet /\ session' = session /\ removals' = removals /\ switch' = switch
    BY <1>2 DEF ServeChange, Quiet, epochVars, cacheVars
  <2>2. \/ /\ session \in Workspaces /\ version[session] < MaxChanges
           /\ version' = [version EXCEPT ![session] = version[session] + 1] /\ change' = session
        \/ change' = "none" /\ version' = version
    BY <1>2 DEF ServeChange
  <2>3. /\ version' \in [Workspaces -> 0..MaxChanges]
        /\ \A w \in Workspaces : version[w] <= version'[w]
        /\ change' \in {"none", "out"} \cup Workspaces
    BY <2>2 DEF Inv, Shape
  <2>4. Shape'
    BY <2>1, <2>3 DEF Inv, Shape, Quiet, epochVars, cacheVars
  <2>5. SpaceOK'
    <3>1. \A w \in Workspaces : TellsOf(w)' => TellsOf(w)
      BY <2>1, <2>3, <2>4, QuietForgets DEF TellsOf
    <3> QED BY <2>1, <3>1, SpaceKept DEF Inv, SpaceOK
  <2> QED
    BY <2>1, <2>3, <2>4, <2>5, QuietForgets DEF Inv
<1> QED
  BY <1>1, <1>2

LEMMA CallsKeep ==
  ASSUME Inv,
         AskChange \/ (\E w \in Workspaces \cup {NoWorkspace} : switchTo(w)) \/ ServeSwitch
           \/ SwitchFails \/ UNCHANGED queryVars
  PROVE  Inv'
<1> USE QueryAssumption
<1>1. Quiet /\ UNCHANGED <<version, removals>>
  BY DEF AskChange, switchTo, ServeSwitch, SwitchFails, Quiet, epochVars, cacheVars, apiVars,
         userVars, queryVars
<1>2. Shape'
  <2>1. switch' \in [at : {"none", "out", "served"}, to : Workspaces \cup {NoWorkspace}]
    BY DEF AskChange, switchTo, ServeSwitch, SwitchFails, queryVars, userVars, Inv, Shape, NoSwitch
  <2>2. session' \in Workspaces \cup {NoWorkspace}
    BY DEF AskChange, switchTo, ServeSwitch, SwitchFails, queryVars, apiVars, Inv, Shape
  <2>3. change' \in {"none", "out"} \cup Workspaces
    BY DEF AskChange, switchTo, ServeSwitch, SwitchFails, queryVars, userVars, Inv, Shape
  <2>4. switch'.at # "none" => epoch < MaxEpoch
    BY DEF AskChange, switchTo, ServeSwitch, SwitchFails, queryVars, userVars, Inv, Shape, NoSwitch
  <2> QED
    BY <1>1, <2>1, <2>2, <2>3, <2>4 DEF Inv, Shape, Quiet, epochVars, cacheVars
<1>3. \A w \in Workspaces : version[w] <= version'[w]
  BY <1>1 DEF Inv, Shape
<1>4. ASSUME session' = session PROVE \A w \in Workspaces : TellsOf(w)' => TellsOf(w)
  BY <1>1, <1>2, <1>3, <1>4, QuietForgets DEF TellsOf
<1>5. SpaceOK'
  <2>1. CASE AskChange \/ UNCHANGED queryVars
    <3>1. session' = session /\ switch' = switch
      BY <2>1 DEF AskChange, queryVars, apiVars, userVars
    <3> QED BY <1>4, <3>1, SpaceKept DEF Inv, SpaceOK
  <2>2. CASE \E w \in Workspaces \cup {NoWorkspace} : switchTo(w)
    <3>1. session' = session /\ switch.at = "none" /\ switch'.at = "out"
      BY <2>2 DEF switchTo, apiVars, NoSwitch
    <3> QED BY <1>4, <3>1 DEF Inv, SpaceOK
  <2>3. CASE ServeSwitch
    <3>1. switch'.at = "served" /\ session' = switch'.to
      BY <2>3 DEF ServeSwitch, Inv, Shape
    <3> QED BY <3>1 DEF SpaceOK
  <2>4. CASE SwitchFails
    <3>1. /\ session' = session /\ switch'.at = "none"
          /\ switch.at = "out" \/ AnswersMayBeLost
      BY <2>4 DEF SwitchFails, apiVars, NoSwitch
    <3> QED BY <1>4, <3>1 DEF Inv, SpaceOK
  <2> QED BY <2>1, <2>2, <2>3, <2>4
<1> QED
  BY <1>1, <1>2, <1>3, <1>5, QuietForgets DEF Inv

LEMMA Starts ==
  LET new == [Absent EXCEPT !.mounted = TRUE, !.due = TRUE] IN
  /\ new \in ReaderType /\ new.mounted /\ new.due /\ ~new.waits /\ new.asked = 0
  /\ new.result = NoResult
  /\ Absent.result = NoResult /\ Absent.asked = 0 /\ ~Absent.waits /\ ~Absent.mounted
<1>1. /\ Absent.result = NoResult /\ Absent.asked = 0 /\ ~Absent.waits /\ ~Absent.mounted
  BY DEF Absent
<1> QED
  BY <1>1, Parts DEF ReaderType

\* Some readers change, and come to rest.
LEMMA RestersKeep ==
  ASSUME Inv, UNCHANGED <<reads, epoch, active, shownChange, session, version, removals,
                          switch, change>>,
         NEW keys,
         \/ UNCHANGED <<answers, inflight>>
         \/ answers' = without(answers, keys) /\ inflight' = joinable(inflight, keys),
         readers' \in [Readers -> ReaderType], readers'["guard"].mounted,
         \A r \in Readers : readers'[r] = readers[r] \/ Rests(r)
  PROVE  Inv'
<1> USE QueryAssumption
<1>1. /\ answers' \in Map /\ Aged(answers')
      /\ \A k \in Keys : Cached(answers', k) =>
           Cached(answers, k) /\ answers'[k].data = answers[k].data
  <2>1. answers \in Map /\ Aged(answers)
    BY DEF Inv, Shape, AnswersOK, Map
  <2>2. CASE answers' = answers
    BY <2>1, <2>2
  <2>3. CASE answers' = without(answers, keys)
    BY <2>1, <2>3, WithoutIs
  <2> QED BY <2>2, <2>3
<1>2. inflight' \in [Keys -> 0..MaxReads] /\ \A k \in Keys : inflight'[k] \in {0, inflight[k]}
  BY DEF Inv, Shape, joinable
<1>3. Shape'
  BY <1>1, <1>2 DEF Inv, Shape, Map
<1>4. \A w \in Workspaces : version[w] <= version'[w]
  BY DEF Inv, Shape
<1>5. /\ ReadsOK' /\ InflightOK' /\ AnswersOK' /\ ReadersOK' /\ ChangesOK'
      /\ \A w \in Workspaces : TellsOf(w)' => TellsOf(w) \/ w = session'
  BY <1>1, <1>2, <1>3, <1>4, Forgetting DEF Inv
<1>6. SpaceOK'
  BY <1>5, SpaceKept DEF Inv, SpaceOK, TellsOf
<1> QED
  BY <1>3, <1>5, <1>6 DEF Inv

\* A component comes, goes, is told to ask again, or has nothing to ask.
LEMMA ReadersKeep ==
  ASSUME Inv,
         \/ \E r \in Readers : Mount(r) \/ Unmount(r) \/ refetch(r) \/ (RunEffect(r) /\ blocked(r))
         \/ onSettingsChanged
  PROVE  Inv'
<1> USE QueryAssumption
<1>0. Shape /\ readers["guard"].mounted /\ "guard" \in Readers
  BY Parts DEF Inv, ReadersOK
<1>1. ASSUME NEW r \in Readers, Mount(r) PROVE Inv'
  <2>1. readers' = [readers EXCEPT ![r] = [Absent EXCEPT !.mounted = TRUE, !.due = TRUE]]
    BY <1>1 DEF Mount
  <2>2. Rests(r) /\ readers'[r].mounted
    BY <2>1, <1>0, Starts DEF Shape, Rests
  <2>3. readers' \in [Readers -> ReaderType]
    BY <2>1, <1>0, Starts DEF Shape
  <2>4. \A x \in Readers \ {r} : readers'[x] = readers[x]
    BY <2>1, <1>0 DEF Shape
  <2>5. readers'["guard"].mounted
    BY <1>0, <2>2, <2>4
  <2> QED
    BY <1>1, <2>2, <2>3, <2>4, <2>5, RestersKeep DEF Mount, apiVars, epochVars, cacheVars, userVars
<1>2. ASSUME NEW r \in Readers, Unmount(r) PROVE Inv'
  <2>1. readers' = [readers EXCEPT ![r] = Absent] /\ r # "guard"
    BY <1>2 DEF Unmount
  <2>2. Rests(r)
    BY <2>1, <1>0, Starts DEF Shape, Rests
  <2>3. readers' \in [Readers -> ReaderType]
    BY <2>1, <1>0, Parts DEF Shape
  <2>4. \A x \in Readers \ {r} : readers'[x] = readers[x]
    BY <2>1, <1>0 DEF Shape
  <2>5. readers'["guard"].mounted
    BY <1>0, <2>1, <2>4
  <2> QED
    BY <1>2, <2>2, <2>3, <2>4, <2>5, RestersKeep DEF Unmount, apiVars, epochVars, cacheVars, userVars
<1>3. ASSUME NEW r \in Readers, refetch(r) PROVE Inv'
  <2>1. /\ readers' = [readers EXCEPT ![r].due = TRUE, ![r].fresh = TRUE, ![r].result = NoResult]
        /\ settled(r)
    BY <1>3 DEF refetch
  <2>2. readers[r].mounted
    <3>1. Absent.result.kind = "none"
      BY DEF Absent, NoResult
    <3> QED BY <2>1, <3>1 DEF Inv, ReadersOK, ReaderOK, ResultFits, settled
  <2>3. /\ readers'[r].result = NoResult /\ readers'[r].due /\ readers'[r].mounted
        /\ readers'[r].asked = readers[r].asked /\ readers'[r].waits = readers[r].waits
        /\ readers'[r] \in ReaderType
    BY <1>0, <2>1, <2>2, ReaderFields, Parts DEF ReaderType
  <2>4. Rests(r)
    BY <2>3 DEF Rests
  <2>5. \A x \in Readers \ {r} : readers'[x] = readers[x]
    BY <2>1, <1>0 DEF Shape
  <2>6. readers' \in [Readers -> ReaderType]
    <3>1. DOMAIN readers' = Readers /\ readers' = [x \in Readers |-> readers'[x]]
      BY <2>1, <1>0 DEF Shape
    <3> QED BY <1>0, <2>3, <2>5, <3>1 DEF Shape
  <2>7. readers'["guard"].mounted
    BY <1>0, <2>3, <2>5
  <2> QED
    BY <1>3, <2>4, <2>5, <2>6, <2>7, RestersKeep
       DEF refetch, forgetQueries, apiVars, epochVars, cacheVars, userVars
<1>4. ASSUME NEW r \in Readers, RunEffect(r), blocked(r) PROVE Inv'
  <2>1. readers' = [readers EXCEPT ![r] = [readers[r] EXCEPT !.due = FALSE, !.asked = 0,
                                                             !.waits = FALSE]]
        /\ UNCHANGED <<reads, inflight>>
    BY <1>4 DEF RunEffect
  <2>2. readers[r].due /\ r # "guard"
    BY <1>4 DEF RunEffect, blocked
  <2>3. readers[r].mounted
    <3>1. ~Absent.due
      BY DEF Absent
    <3> QED BY <2>2, <3>1 DEF Inv, ReadersOK, ReaderOK, ResultFits
  <2>4. /\ readers'[r].result = readers[r].result /\ readers'[r].mounted
        /\ readers'[r].asked = 0 /\ ~readers'[r].waits /\ readers'[r] \in ReaderType
    BY <1>0, <2>1, <2>3, ReaderFields, Parts DEF ReaderType
  <2>5. Rests(r)
    BY <1>4, <2>4 DEF Rests
  <2>6. \A x \in Readers \ {r} : readers'[x] = readers[x]
    BY <2>1, <1>0 DEF Shape
  <2>7. readers' \in [Readers -> ReaderType]
    <3>1. DOMAIN readers' = Readers /\ readers' = [x \in Readers |-> readers'[x]]
      BY <2>1, <1>0 DEF Shape
    <3> QED BY <1>0, <2>4, <2>6, <3>1 DEF Shape
  <2> QED
    BY <1>0, <1>4, <2>1, <2>2, <2>5, <2>6, <2>7, RestersKeep
       DEF RunEffect, apiVars, epochVars, cacheVars, userVars
<1>5. ASSUME onSettingsChanged PROVE Inv'
  <2>1. \A r \in Readers :
          readers'[r] = IF r \in ListReaders /\ readers[r].mounted
                          THEN [readers[r] EXCEPT !.due = TRUE, !.fresh = TRUE] ELSE readers[r]
    BY <1>5 DEF onSettingsChanged
  <2>2. ASSUME NEW r \in Readers
        PROVE  readers'[r] \in ReaderType /\ (readers'[r] = readers[r] \/ Rests(r))
               /\ readers'[r].mounted = readers[r].mounted
    <3>1. CASE r \in ListReaders /\ readers[r].mounted
      <4>1. readers'[r] = [readers[r] EXCEPT !.due = TRUE, !.fresh = TRUE]
        BY <2>1, <3>1
      <4>2. /\ readers'[r].result = readers[r].result /\ readers'[r].mounted /\ readers'[r].due
            /\ readers'[r].asked = readers[r].asked /\ readers'[r].waits = readers[r].waits
            /\ readers'[r] \in ReaderType
        BY <1>0, <3>1, <4>1, ReaderFields DEF ReaderType
      <4> QED BY <3>1, <4>2 DEF Rests
    <3>2. CASE ~(r \in ListReaders /\ readers[r].mounted)
      BY <1>0, <2>1, <3>2, ReaderFields
    <3> QED BY <3>1, <3>2
  <2>3. readers' \in [Readers -> ReaderType]
    <3>1. readers' = [r \in Readers |-> readers'[r]]
      BY <1>5 DEF onSettingsChanged
    <3> QED BY <2>2, <3>1
  <2>4. readers'["guard"].mounted
    BY <1>0, <2>2
  <2> QED
    BY <1>5, <2>2, <2>3, <2>4, RestersKeep
       DEF onSettingsChanged, apiVars, epochVars, cacheVars, userVars
<1> QED
  BY <1>1, <1>2, <1>3, <1>4, <1>5

-----------------------------------------------------------------------------
(***************************************************************************)
(* Steps that send a request or join one.                                  *)
(***************************************************************************)
\* A reader that has asked.
Asks(r, key) ==
  /\ readers'[r] \in ReaderType
  /\ readers'[r].mounted /\ readers'[r].asked = inflight'[key] /\ ~readers'[r].waits
  /\ readers'[r].result = readers[r].result
  /\ key[2] = PartOf(r)
  /\ readers'[r].due \/ key[1] = epoch
  /\ r \in ListReaders => key = <<epoch, "projects">>

LEMMA FetchKeeps ==
  ASSUME Inv, NEW r \in Readers \cup {"link"}, NEW key \in Keys, NEW fresh,
         fetchShared(r, key, fresh), key[1] <= epoch,
         UNCHANGED <<answers, epoch, active, session, version, removals, switch, change,
                     shownChange>>,
         readers' = [x \in Readers |-> readers'[x]],
         \A x \in Readers : readers'[x] = readers[x] \/ (x = r /\ Asks(x, key))
  PROVE  Inv'
<1> USE QueryAssumption
<1>0. Shape /\ ReadsOK /\ InflightOK /\ ReadersOK /\ ChangesOK /\ SpaceOK /\ AnswersOK
  BY DEF Inv
<1>1. /\ reads' \in [ReadIds -> ReadType] /\ inflight' \in [Keys -> 0..MaxReads]
      /\ inflight'[key] \in ReadIds /\ reads'[inflight'[key]].at # "free"
      /\ reads'[inflight'[key]].key = key
      /\ \A k \in Keys \ {key} : inflight'[k] = inflight[k]
  BY <1>0, FetchIs
<1>2. ASSUME NEW q \in ReadIds
      PROVE  \/ /\ reads'[q].at = reads[q].at /\ reads'[q].key = reads[q].key
                /\ reads'[q].data = reads[q].data /\ (q = inflight'[key] => q = inflight[key])
             \/ reads[q].at = "free" /\ reads'[q].at = "out" /\ reads'[q].key = key
                /\ inflight'[key] = q
  BY <1>0, FetchIs
<1>3. Shape'
  <2>1. \A x \in Readers : readers'[x] \in ReaderType
    BY <1>0, ReaderFields DEF Asks
  <2> QED BY <1>0, <1>1, <2>1 DEF Shape
<1>4. ReadsOK'
  BY <1>0, <1>2 DEF ReadsOK
<1>5. InflightOK'
  <2>1. ASSUME NEW k \in Keys, k # key, inflight'[k] # 0
        PROVE  reads'[inflight'[k]].at # "free" /\ reads'[inflight'[k]].key = k
    <3>1. inflight'[k] = inflight[k] /\ inflight[k] \in ReadIds
      BY <1>0, <1>1, <2>1 DEF Shape, ReadIds
    <3>2. reads[inflight[k]].at # "free" /\ reads[inflight[k]].key = k
      BY <1>0, <2>1, <3>1 DEF InflightOK
    <3> QED BY <1>2, <3>1, <3>2
  <2> QED BY <1>1, <2>1 DEF InflightOK
<1>6. AnswersOK'
  BY <1>0 DEF AnswersOK
<1>7. ASSUME NEW x \in Readers PROVE ReaderOK(x)'
  <2>0. ReaderOK(x)
    BY <1>0 DEF ReadersOK
  <2>1. CASE readers'[x] = readers[x]
    <3>1. AskedFits(x)'
      <4>1. readers[x].asked # 0 => readers[x].asked \in ReadIds
        BY <1>0, ReaderFields DEF ReadIds
      <4> QED BY <1>2, <2>0, <2>1, <4>1 DEF ReaderOK, AskedFits
    <3> QED
      BY <2>0, <2>1, <3>1 DEF ReaderOK, ResultFits, IdleFits, Idle, settled, blocked
  <2>2. CASE x = r /\ Asks(x, key)
    <3>1. AskedFits(x)'
      BY <1>1, <2>2 DEF AskedFits, Asks
    <3>2. ResultFits(x)'
      BY <2>0, <2>2 DEF ReaderOK, ResultFits, Asks
    <3>3. ~Idle(x)'
      BY <1>1, <2>2 DEF Idle, Asks, ReadIds
    <3> QED BY <3>1, <3>2, <3>3 DEF ReaderOK, IdleFits
  <2> QED BY <2>1, <2>2
<1>8. ReadersOK'
  <2>1. readers'["guard"].mounted
    BY <1>0, Parts DEF ReadersOK, Asks
  <2> QED BY <1>7, <2>1 DEF ReadersOK
<1>9. ChangesOK'
  <2>1. <<epoch, "projects">> \in Keys
    BY <1>0, KeyIs DEF Shape, Requested
  <2>2. ASSUME NEW x \in ListReaders PROVE ListRecent(x)'
    <3>1. readers'[x].result = readers[x].result
      BY Parts DEF Asks
    <3> QED BY <1>0, <3>1 DEF ChangesOK, ListRecent, settled, Recent
  <2>3. ASSUME NEW q \in ReadIds PROVE ReadRecent(q)'
    <3>1. CASE reads[q].at = "free"
      BY <1>2, <3>1, <1>0 DEF ReadRecent
    <3>2. CASE reads[q].at # "free"
      <4>1. /\ reads'[q].at = reads[q].at /\ reads'[q].key = reads[q].key
            /\ reads'[q].data = reads[q].data /\ (q = inflight'[key] => q = inflight[key])
        BY <1>2, <3>2
      <4>2. inflight'[<<epoch, "projects">>] = q => inflight[<<epoch, "projects">>] = q
        BY <1>1, <2>1, <4>1
      <4>3. ASSUME NEW x \in ListReaders, readers'[x].asked = q PROVE Wanted(q)
        <5>1. CASE readers'[x] = readers[x]
          BY <4>3, <5>1 DEF Wanted
        <5>2. CASE x = r /\ Asks(x, key)
          BY <4>1, <4>3, <5>2 DEF Wanted, Asks
        <5> QED BY <5>1, <5>2, Parts
      <4>4. Wanted(q)' => Wanted(q)
        BY <4>2, <4>3 DEF Wanted
      <4> QED BY <1>0, <4>1, <4>4 DEF ChangesOK, ReadRecent, Recent
    <3> QED BY <3>1, <3>2
  <2> QED BY <1>0, <2>2, <2>3 DEF ChangesOK, Recent
<1>10. SpaceOK'
  <2>1. ASSUME NEW w \in Workspaces, TellsOf(w)' PROVE TellsOf(w)
    <3>1. \A q \in ReadIds : reads'[q].at = "data" =>
            reads[q].at = "data" /\ reads'[q].key = reads[q].key /\ reads'[q].data = reads[q].data
      BY <1>2
    <3>2. ASSUME NEW x \in Readers, Idle(x)' PROVE readers'[x] = readers[x] /\ Idle(x)
      <4>1. readers'[x] = readers[x]
        BY <1>1, <3>2 DEF Asks, Idle, ReadIds
      <4> QED BY <3>2, <4>1 DEF Idle, blocked
    <3>3. (\E x \in Readers : /\ x # "guard" /\ Idle(x) /\ settled(x)
                              /\ readers[x].result.kind = "data" /\ readers[x].result.data.ws = w)'
            => \E x \in Readers : /\ x # "guard" /\ Idle(x) /\ settled(x)
                                  /\ readers[x].result.kind = "data" /\ readers[x].result.data.ws = w
      BY <3>2 DEF settled
    <3> QED BY <2>1, <3>1, <3>3 DEF TellsOf
  <2> QED BY <1>0, <2>1, SpaceKept DEF SpaceOK
<1> QED
  BY <1>3, <1>4, <1>5, <1>6, <1>8, <1>9, <1>10 DEF Inv

\* The effect or the timer of a reader.
LEMMA AskKeeps ==
  ASSUME Inv, NEW r \in Readers, NEW key \in Keys, NEW fresh, fetchShared(r, key, fresh),
         key[2] = PartOf(r), readers[r].mounted, NEW due \in BOOLEAN, due \/ key[1] = epoch,
         key[1] <= epoch, r \in ListReaders => key = <<epoch, "projects">>,
         NEW f \in BOOLEAN,
         readers' = [readers EXCEPT ![r] = [readers[r] EXCEPT !.due = due, !.fresh = f,
                                              !.waits = FALSE, !.asked = inflight'[key]]],
         UNCHANGED <<answers, epoch, active, session, version, removals, switch, change,
                     shownChange>>
  PROVE  Inv'
<1>0. Shape /\ InflightOK
  BY DEF Inv
<1>1. inflight'[key] \in 0..MaxReads
  <2>1. inflight' \in [Keys -> 0..MaxReads]
    BY <1>0, FetchIs
  <2> QED BY <2>1
<1>2. readers[r] \in ReaderType
  BY <1>0, ReaderFields
<1>3. readers'[r] = [readers[r] EXCEPT !.due = due, !.fresh = f, !.waits = FALSE,
                                       !.asked = inflight'[key]]
  BY <1>0 DEF Shape
<1>4. /\ readers'[r] \in ReaderType /\ readers'[r].mounted /\ readers'[r].due = due
      /\ ~readers'[r].waits /\ readers'[r].asked = inflight'[key]
      /\ readers'[r].result = readers[r].result
  <2>1. PICK old \in ReaderType, a \in 0..MaxReads : old = readers[r] /\ a = inflight'[key]
    BY <1>1, <1>2
  <2>2. PICK new : new = readers'[r]
    OBVIOUS
  <2>3. new = [old EXCEPT !.due = due, !.fresh = f, !.waits = FALSE, !.asked = a]
    BY <1>3, <2>1, <2>2
  <2>4. /\ new \in ReaderType /\ new.mounted = old.mounted /\ new.due = due /\ ~new.waits
        /\ new.asked = a /\ new.result = old.result
    BY <2>3 DEF ReaderType
  <2> QED BY <2>1, <2>2, <2>4
<1>5. Asks(r, key)
  BY <1>4 DEF Asks
<1>6. /\ \A x \in Readers : readers'[x] = readers[x] \/ (x = r /\ Asks(x, key))
      /\ readers' = [x \in Readers |-> readers'[x]]
  BY <1>0, <1>5 DEF Shape
<1>7. r \in Readers \cup {"link"}
  OBVIOUS
<1> QED BY <1>6, <1>7, FetchKeeps

LEMMA AsksKeep ==
  ASSUME Inv,
         warm \/ AskAgain \/ \E r \in Readers : RunEffect(r) /\ ~blocked(r)
  PROVE  Inv'
<1> USE QueryAssumption
<1>0. Shape /\ epoch \in 0..MaxEpoch /\ epoch <= epoch
  BY DEF Inv, Shape
<1>1. CASE warm
  <2>1. <<epoch, "health">> \in Keys /\ <<epoch, "health">>[1] = epoch
    BY <1>0, KeyIs DEF Requested
  <2>2. fetchShared("link", <<epoch, "health">>, FALSE) /\ readers' = readers
        /\ UNCHANGED <<answers, epoch, active, session, version, removals, switch, change,
                       shownChange>>
    BY <1>1 DEF warm, apiVars, epochVars, userVars
  <2>3. readers' = [x \in Readers |-> readers'[x]]
    BY <1>0, <2>2 DEF Shape
  <2> QED BY <1>0, <2>1, <2>2, <2>3, FetchKeeps
<1>3. CASE AskAgain
  <2>1. readers["report"].mounted /\ readers["report"].result.epoch \in 0..MaxEpoch
        /\ readers["report"].result.epoch <= epoch /\ readers["report"].due \in BOOLEAN
        /\ readers["report"].fresh \in BOOLEAN
        /\ (readers["report"].due \/ readers["report"].result.epoch = epoch)
    <3>1. ~Absent.waits
      BY DEF Absent
    <3>2. ResultFits("report")
      BY Parts DEF Inv, ReadersOK, ReaderOK
    <3> QED BY <1>0, <1>3, <3>1, <3>2, Parts, ReaderFields DEF ResultFits, AskAgain
  <2> DEFINE key == <<readers["report"].result.epoch, "health">>
  <2>2. key \in Keys /\ key[1] = readers["report"].result.epoch /\ key[2] = "health"
    BY <2>1, KeyIs DEF Requested
  <2>3. readers' = [readers EXCEPT !["report"] =
          [readers["report"] EXCEPT !.waits = FALSE, !.asked = inflight'[key]]]
    BY <1>3 DEF AskAgain
  <2>4. [readers["report"] EXCEPT !.waits = FALSE, !.asked = inflight'[key]]
          = [readers["report"] EXCEPT !.due = readers["report"].due,
               !.fresh = readers["report"].fresh, !.waits = FALSE, !.asked = inflight'[key]]
    <3> HIDE DEF key
    <3>1. readers["report"] \in ReaderType
      BY <1>0, Parts, ReaderFields
    <3> QED BY <3>1 DEF ReaderType
  <2>5. fetchShared("report", key, FALSE)
        /\ UNCHANGED <<answers, epoch, active, session, version, removals, switch, change,
                       shownChange>>
    BY <1>3 DEF AskAgain, apiVars, epochVars, userVars
  <2>6. "report" \notin ListReaders /\ PartOf("report") = "health" /\ "report" \in Readers
    BY Parts
  <2> HIDE DEF key
  <2> QED BY <2>1, <2>2, <2>3, <2>4, <2>5, <2>6, AskKeeps
<1>4. ASSUME NEW r \in Readers, RunEffect(r), ~blocked(r) PROVE Inv'
  <2>1. keyOf(r) \in Keys /\ keyOf(r)[1] = epoch /\ keyOf(r)[2] = PartOf(r)
    BY <1>0, KeyIs, Parts DEF keyOf
  <2>2. r \in ListReaders => keyOf(r) = <<epoch, "projects">>
    BY Parts DEF keyOf
  <2>3. readers[r].mounted
    <3>1. ~Absent.due
      BY DEF Absent
    <3> QED BY <1>4, <3>1 DEF Inv, ReadersOK, ReaderOK, ResultFits, RunEffect
  <2>4. readers' = [readers EXCEPT ![r] = [readers[r] EXCEPT !.due = FALSE, !.fresh = FALSE,
                                             !.waits = FALSE, !.asked = inflight'[keyOf(r)]]]
        /\ fetchShared(r, keyOf(r), readers[r].fresh)
        /\ UNCHANGED <<answers, epoch, active, session, version, removals, switch, change,
                       shownChange>>
    BY <1>4 DEF RunEffect, apiVars, epochVars, userVars
  <2> QED BY <1>0, <2>1, <2>2, <2>3, <2>4, AskKeeps
<1> QED
  BY <1>1, <1>3, <1>4

-----------------------------------------------------------------------------
(***************************************************************************)
(* The API answers a read.                                                 *)
(***************************************************************************)
LEMMA ServeKeeps ==
  ASSUME Inv, NEW q \in ReadIds, ServeRead(q)
  PROVE  Inv'
<1> USE QueryAssumption
<1>0. Shape /\ ReadsOK /\ InflightOK /\ ReadersOK /\ ChangesOK /\ SpaceOK /\ AnswersOK
  BY DEF Inv
<1>1. UNCHANGED <<session, version, removals, epoch, active, answers, inflight, readers, switch,
                  change, shownChange>> /\ reads[q].at = "out"
  BY DEF ServeRead, apiVars, epochVars, cacheVars, userVars
<1>2. PICK at \in {"data", "pending", "required", "error"}, data \in Data \cup {NoData} :
        /\ reads' = [reads EXCEPT ![q].at = at, ![q].data = data]
        /\ at = "data" => /\ Proper(reads[q].key, data) /\ data.ws = session
                          /\ reads[q].key[2] = "projects" => data.v = version[session]
  <2> DEFINE part == reads[q].key[2]
             told0 == [ws |-> session, v |-> IF part = "projects" THEN version[session] ELSE 0]
  <2>0. NoData \in Data \cup {NoData}
    OBVIOUS
  <2>1. CASE part = "session" /\ Answered(q, "data", [ws |-> session, v |-> 0])
    <3> DEFINE bound == [ws |-> session, v |-> 0]
    <3>1. bound \in Data /\ bound.ws = session /\ Answered(q, "data", bound)
      BY <1>0, <2>1 DEF Shape, Data
    <3> HIDE DEF bound
    <3> QED BY <2>1, <3>1 DEF Answered, Proper
  <2>2. CASE part # "session" /\ session \in Workspaces /\ Answered(q, "data", told0)
    <3>1. told0 \in Data /\ told0.ws = session
          /\ (part = "projects" => told0.v = version[session])
      BY <1>0, <2>2 DEF Shape, Data
    <3> HIDE DEF told0
    <3> QED BY <2>2, <3>1 DEF Answered, Proper
  <2>3. CASE \E at \in {"pending", "required", "error"} : Answered(q, at, NoData)
    BY <2>0, <2>3 DEF Answered
  <2> QED BY <2>1, <2>2, <2>3 DEF ServeRead
<1>3. /\ reads'[q].at = at /\ reads'[q].key = reads[q].key /\ reads'[q].data = data
      /\ reads'[q] \in ReadType /\ DOMAIN reads' = ReadIds
      /\ \A p \in ReadIds \ {q} : reads'[p] = reads[p]
  <2>1. DOMAIN reads' = ReadIds /\ \A p \in ReadIds \ {q} : reads'[p] = reads[p]
    BY <1>0, <1>2 DEF Shape
  <2>2. PICK old \in ReadType : old = reads[q]
    BY <1>0, ReadFields
  <2>3. PICK new : new = reads'[q]
    OBVIOUS
  <2>4. new = [old EXCEPT !.at = at, !.data = data]
    BY <1>0, <1>2, <2>2, <2>3 DEF Shape
  <2>5. new.at = at /\ new.key = old.key /\ new.data = data /\ new \in ReadType
    BY <2>4 DEF ReadType, Places
  <2> QED BY <2>1, <2>2, <2>3, <2>5
<1>4. Shape'
  <2>1. reads' \in [ReadIds -> ReadType]
    <3>1. reads' = [p \in ReadIds |-> reads'[p]]
      BY <1>0, <1>2 DEF Shape
    <3> QED BY <1>0, <1>3, <3>1 DEF Shape
  <2> QED BY <1>0, <1>1, <2>1 DEF Shape
<1>5. ReadsOK'
  <2>1. reads[q].key[1] <= epoch
    BY <1>0, <1>1 DEF ReadsOK
  <2>2. \A p \in ReadIds \ {q} :
          /\ reads'[p].at = "data" => Proper(reads'[p].key, reads'[p].data)
          /\ reads'[p].at # "free" => reads'[p].key[1] <= epoch'
    BY <1>0, <1>1, <1>3 DEF ReadsOK
  <2> QED BY <1>1, <1>2, <1>3, <2>1, <2>2 DEF ReadsOK
<1>6. \A p \in ReadIds : reads'[p].key = reads[p].key /\ (reads[p].at # "free" => reads'[p].at # "free")
  BY <1>1, <1>2, <1>3
<1>7. InflightOK' /\ AnswersOK'
  <2>1. \A k \in Keys : inflight[k] # 0 => inflight[k] \in ReadIds
    BY <1>0 DEF Shape, ReadIds
  <2> QED BY <1>0, <1>1, <1>6, <2>1 DEF InflightOK, AnswersOK
<1>8. ASSUME NEW r \in Readers PROVE ReaderOK(r)'
  <2>1. readers[r].asked # 0 => readers[r].asked \in ReadIds
    BY <1>0, ReaderFields DEF ReadIds
  <2>2. ReaderOK(r)
    BY <1>0 DEF ReadersOK
  <2>3. AskedFits(r)'
    BY <1>1, <1>6, <2>1, <2>2 DEF ReaderOK, AskedFits
  <2> QED
    BY <1>1, <2>2, <2>3 DEF ReaderOK, ResultFits, IdleFits, Idle, settled, blocked
<1>9. ChangesOK'
  <2>1. ASSUME NEW p \in ReadIds PROVE ReadRecent(p)'
    <3>1. CASE p = q
      <4>1. reads'[p].at = "data" /\ reads'[p].key = <<epoch, "projects">> => Recent(data)
        BY <1>0, <1>2, <1>3, <3>1 DEF ChangesOK, Recent, Shape
      <4> QED BY <1>1, <1>3, <3>1, <4>1 DEF ReadRecent, Recent
    <3>2. CASE p # q
      BY <1>0, <1>1, <1>3, <3>2 DEF ChangesOK, ReadRecent, Recent, Wanted
    <3> QED BY <3>1, <3>2
  <2>2. \A r \in ListReaders : ListRecent(r)'
    BY <1>0, <1>1 DEF ChangesOK, ListRecent, settled, Recent
  <2> QED BY <1>0, <1>1, <2>1, <2>2 DEF ChangesOK, Recent
<1>10. SpaceOK'
  <2>1. ASSUME NEW w \in Workspaces, TellsOf(w)' PROVE TellsOf(w)
    <3>1. \A p \in ReadIds : reads'[p].at = "data" =>
            \/ reads'[p].data.ws = session
            \/ reads'[p] = reads[p]
      BY <1>2, <1>3
    <3>2. \A r \in Readers : Idle(r)' = Idle(r) /\ settled(r)' = settled(r)
      BY <1>1 DEF Idle, blocked, settled
    <3>3. (\E r \in Readers : /\ r # "guard" /\ Idle(r) /\ settled(r)
                              /\ readers[r].result.kind = "data" /\ readers[r].result.data.ws = w)'
            => \E r \in Readers : /\ r # "guard" /\ Idle(r) /\ settled(r)
                                  /\ readers[r].result.kind = "data" /\ readers[r].result.data.ws = w
      BY <1>1, <3>2
    <3> QED BY <1>1, <2>1, <3>1, <3>3 DEF TellsOf
  <2> QED BY <1>0, <1>1, <2>1, SpaceKept DEF SpaceOK
<1> QED
  BY <1>0, <1>1, <1>4, <1>5, <1>7, <1>8, <1>9, <1>10 DEF Inv, ReadersOK

-----------------------------------------------------------------------------
(***************************************************************************)
(* A project was connected or removed.                                     *)
(***************************************************************************)
LEMMA ChangeKeeps ==
  ASSUME Inv, onProjectsChanged
  PROVE  Inv'
<1> USE QueryAssumption
<1> DEFINE now  == [ws |-> change, v |-> version[change]]
           ears == {r \in ListReaders : readers[r].mounted}
           key  == <<epoch, "projects">>
           seen == [epoch |-> epoch, kind |-> "data", data |-> now]
<1>0. Shape /\ ReadsOK /\ InflightOK /\ ReadersOK /\ ChangesOK /\ SpaceOK /\ AnswersOK
  BY DEF Inv
<1>1. /\ change \in Workspaces /\ change' = "none"
      /\ UNCHANGED <<session, version, removals, epoch, active, reads, switch>>
  BY DEF onProjectsChanged, apiVars, epochVars
<1>2. \A w \in Workspaces : version[w] <= version'[w]
  BY <1>0, <1>1 DEF Shape
<1>3. readers' = [r \in Readers |->
         IF r \in ears THEN [readers[r] EXCEPT !.asked = 0, !.due = TRUE, !.fresh = TRUE,
                                               !.result = seen] ELSE readers[r]]
  BY DEF onProjectsChanged
<1>4. now \in Data /\ now.ws = change /\ now.v = version[change] /\ key \in Keys
      /\ key[2] = "projects" /\ <<epoch, "health">> \in Keys /\ key # <<epoch, "health">>
  BY <1>0, <1>1, KeyIs DEF Shape, Data, Requested
<1>5. seen \in ResultType /\ seen.epoch = epoch /\ seen.kind = "data" /\ seen.data = now
  <2> HIDE DEF now
  <2>1. seen = [epoch |-> epoch, kind |-> "data", data |-> now]
    OBVIOUS
  <2> HIDE DEF seen
  <2> QED BY <1>0, <1>4, <2>1 DEF Shape, ResultType
<1>6. CASE ears = {}
  <2>1. readers' = readers /\ UNCHANGED <<answers, inflight, shownChange>>
    BY <1>0, <1>3, <1>6 DEF onProjectsChanged, cacheVars, Shape
  <2>2. Quiet
    BY <1>1, <2>1 DEF Quiet, epochVars, cacheVars, onProjectsChanged
  <2>3. Shape'
    BY <1>0, <1>1, <2>1 DEF Shape
  <2>4. \A w \in Workspaces : TellsOf(w)' => TellsOf(w)
    BY <1>1, <1>2, <2>2, <2>3, QuietForgets DEF TellsOf
  <2>5. SpaceOK'
    BY <1>0, <1>1, <2>4, SpaceKept DEF SpaceOK
  <2> QED
    BY <1>2, <2>2, <2>3, <2>5, QuietForgets DEF Inv
<1>7. CASE ears # {}
  <2>1. /\ shownChange' = [shownChange EXCEPT ![change] = version[change]]
        /\ answers' = remember(answers, key, now)
        /\ inflight' = joinable(inflight, {key})
    BY <1>7 DEF onProjectsChanged
  <2>2. /\ answers' \in Map /\ Aged(answers')
        /\ \A k \in Keys : Cached(answers', k) =>
             IF k = key THEN answers'[k].data = now
             ELSE Cached(answers, k) /\ answers'[k].data = answers[k].data
    <3>1. answers \in Map /\ Aged(answers)
      BY <1>0 DEF Shape, Map, AnswersOK
    <3> HIDE DEF now, key
    <3> QED BY <1>4, <2>1, <3>1, RememberIs
  <2> HIDE DEF now, key, seen
  <2>3. ASSUME NEW r \in ears
        PROVE  /\ readers'[r] \in ReaderType /\ readers'[r].mounted /\ readers'[r].due
               /\ readers'[r].asked = 0 /\ readers'[r].result = seen
               /\ readers'[r].waits = readers[r].waits
    <3>1. r \in Readers /\ readers[r].mounted
      BY Parts
    <3>2. readers'[r] = [readers[r] EXCEPT !.asked = 0, !.due = TRUE, !.fresh = TRUE,
                                           !.result = seen]
      BY <1>3, <3>1
    <3>3. readers[r] \in ReaderType
      BY <1>0, <3>1, ReaderFields
    <3> QED BY <1>5, <3>1, <3>2, <3>3, Parts DEF ReaderType
  <2>4. \A r \in Readers \ ears : readers'[r] = readers[r]
    BY <1>3
  <2>5. inflight' \in [Keys -> 0..MaxReads] /\ inflight'[key] = 0
        /\ \A k \in Keys : inflight'[k] \in {0, inflight[k]}
    BY <1>0, <1>4, <2>1 DEF Shape, joinable
  <2>6. /\ shownChange' \in [Workspaces -> 0..MaxChanges] /\ shownChange'[change] = version[change]
        /\ \A w \in Workspaces \ {change} : shownChange'[w] = shownChange[w]
    BY <1>0, <1>1, <2>1 DEF Shape
  <2>7. Shape'
    <3>1. readers' \in [Readers -> ReaderType]
      BY <1>0, <1>3, <2>3, <2>4 DEF Shape
    <3> QED BY <1>0, <1>1, <2>2, <2>5, <2>6, <3>1 DEF Shape, Map
  <2>8. ReadsOK' /\ InflightOK'
    BY <1>0, <1>1, <2>5 DEF ReadsOK, InflightOK
  <2>9. AnswersOK'
    <3>1. Proper(key, now)
      BY <1>1, <1>4 DEF Proper
    <3> QED BY <1>0, <2>2, <3>1 DEF AnswersOK
  <2>10. ASSUME NEW r \in Readers PROVE ReaderOK(r)'
    <3>0. ReaderOK(r)
      BY <1>0 DEF ReadersOK
    <3>1. CASE r \in ears
      <4>1. AskedFits(r)' /\ ~Idle(r)'
        BY <2>3, <3>1 DEF AskedFits, Idle
      <4>2. PartOf(r) = "projects" /\ ~readers[r].waits
        BY <3>0, <3>1, Parts DEF ReaderOK, ResultFits
      <4>3. Proper(<<0, PartOf(r)>>, now)
        BY <1>1, <1>4 DEF Proper
      <4>4. ResultFits(r)'
        BY <1>0, <1>1, <1>5, <2>3, <3>1, <4>2, <4>3 DEF ResultFits, Shape
      <4> QED BY <4>1, <4>4 DEF ReaderOK, IdleFits
    <3>2. CASE r \notin ears
      BY <1>1, <2>4, <3>0, <3>2
         DEF ReaderOK, AskedFits, ResultFits, IdleFits, Idle, settled, blocked
    <3> QED BY <3>1, <3>2
  <2>11. readers'["guard"].mounted
    BY <1>0, <2>4, Parts DEF ReadersOK
  <2>12. ChangesOK'
    <3>1. \A w \in Workspaces : shownChange'[w] <= version'[w] /\ shownChange[w] <= version[w]
      BY <1>0, <1>1, <2>6 DEF ChangesOK, Shape
    <3>2. shownChange'[now.ws] <= now.v
      BY <1>0, <1>1, <1>4, <2>6 DEF Shape
    <3>3. Cached(answers', key) => answers'[key].data = now
      BY <1>4, <2>2
    <3>4. ASSUME NEW r \in ListReaders
          PROVE  readers'[r].asked = 0 /\ (readers'[r].result.kind = "data" => r \in ears)
      <4>1. CASE r \in ears
        BY <2>3, <4>1
      <4>2. CASE r \notin ears
        <5>1. readers'[r] = Absent
          BY <1>0, <2>4, <4>2, Parts DEF ReadersOK, ReaderOK, ResultFits
        <5> QED BY <5>1 DEF Absent, NoResult
      <4> QED BY <4>1, <4>2
    <3>5. \A r \in ListReaders : ListRecent(r)'
      BY <1>5, <2>3, <3>2, <3>4 DEF ListRecent, Recent
    <3>6. \A q \in ReadIds : ~Wanted(q)'
      <4>1. \A q \in ReadIds : q # 0
        BY DEF ReadIds
      <4> QED BY <1>1, <2>5, <3>4, <4>1 DEF Wanted, key
    <3>7. (Cached(answers, <<epoch, "projects">>) =>
             Recent(answers[<<epoch, "projects">>].data))'
      BY <1>1, <3>2, <3>3 DEF Recent, key
    <3>8. \A q \in ReadIds : ReadRecent(q)'
      BY <3>6 DEF ReadRecent
    <3> QED BY <3>1, <3>5, <3>7, <3>8 DEF ChangesOK
  <2>13. SpaceOK'
    <3>1. ASSUME NEW w \in Workspaces, TellsOf(w)' PROVE TellsOf(w)
      <4>1. ASSUME NEW r \in Readers, Idle(r)' PROVE readers'[r] = readers[r] /\ Idle(r)
        BY <1>1, <2>3, <2>4, <4>1 DEF Idle, blocked
      <4>2. (\E r \in Readers : /\ r # "guard" /\ Idle(r) /\ settled(r)
                                /\ readers[r].result.kind = "data"
                                /\ readers[r].result.data.ws = w)'
              => \E r \in Readers : /\ r # "guard" /\ Idle(r) /\ settled(r)
                                    /\ readers[r].result.kind = "data"
                                    /\ readers[r].result.data.ws = w
        BY <1>1, <4>1 DEF settled
      <4>3. Cached(answers', <<epoch, "health">>) =>
              Cached(answers, <<epoch, "health">>)
              /\ answers'[<<epoch, "health">>].data = answers[<<epoch, "health">>].data
        BY <1>4, <2>2
      <4> QED BY <1>1, <3>1, <4>2, <4>3 DEF TellsOf
    <3> QED BY <1>0, <1>1, <3>1, SpaceKept DEF SpaceOK
  <2> QED
    BY <2>7, <2>8, <2>9, <2>10, <2>11, <2>12, <2>13 DEF Inv, ReadersOK
<1> QED
  BY <1>6, <1>7

-----------------------------------------------------------------------------
(***************************************************************************)
(* The page learns that it is in another workspace.                        *)
(***************************************************************************)
LEMMA SwitchedKeeps ==
  ASSUME Inv, Switched
  PROVE  Inv'
<1> USE QueryAssumption
<1>0. Shape /\ ReadsOK /\ InflightOK /\ ReadersOK /\ ChangesOK /\ SpaceOK /\ AnswersOK
  BY DEF Inv
<1>1. /\ switch.at = "served" /\ switch' = NoSwitch /\ active' = switch.to /\ epoch' = epoch + 1
      /\ UNCHANGED <<session, version, removals, reads, change, shownChange>>
  BY DEF Switched, noteActiveWorkspace, invalidateWorkspaceScope, apiVars
<1>2. epoch \in 0..MaxEpoch /\ epoch' \in 0..MaxEpoch /\ epoch < epoch' /\ epoch' # epoch
  BY <1>0, <1>1 DEF Shape
<1>3. ASSUME NEW k \in Keys PROVE k \in KeysOf(Requested)
  BY DEF KeysOf, Keys
<1>4. answers' \in Map /\ Aged(answers') /\ \A k \in Keys : ~Cached(answers', k)
  <2>1. answers \in Map /\ Aged(answers)
    BY <1>0 DEF Shape, Map, AnswersOK
  <2>2. answers' = without(answers, KeysOf(Requested))
    BY DEF Switched, invalidateWorkspaceScope, clearQueryCache, forgetQueries
  <2> QED BY <1>3, <2>1, <2>2, WithoutIs
<1>5. inflight' = [k \in Keys |-> 0]
  BY <1>3 DEF Switched, invalidateWorkspaceScope, clearQueryCache, forgetQueries, joinable
<1>6. \A r \in Readers :
        readers'[r] = IF readers[r].mounted THEN [readers[r] EXCEPT !.due = TRUE] ELSE readers[r]
  BY <1>2 DEF Switched, rerender
<1>7. ASSUME NEW r \in Readers
      PROVE  /\ readers'[r] \in ReaderType /\ readers'[r].mounted = readers[r].mounted
             /\ readers'[r].due \/ readers'[r] = Absent
             /\ readers'[r].asked = readers[r].asked /\ readers'[r].result = readers[r].result
             /\ readers'[r].waits = readers[r].waits
  <2>1. readers[r] \in ReaderType
    BY <1>0, ReaderFields
  <2>2. CASE readers[r].mounted
    BY <1>6, <2>1, <2>2 DEF ReaderType
  <2>3. CASE ~readers[r].mounted
    BY <1>0, <1>6, <2>1, <2>3 DEF ReadersOK, ReaderOK, ResultFits
  <2> QED BY <2>2, <2>3
<1>8. Shape'
  <2>1. readers' \in [Readers -> ReaderType]
    <3>1. readers' = [r \in Readers |-> readers'[r]]
      BY DEF Switched, rerender
    <3> QED BY <1>7, <3>1
  <2>2. NoSwitch \in [at : {"none", "out", "served"}, to : Workspaces \cup {NoWorkspace}]
        /\ NoSwitch.at = "none"
    BY DEF NoSwitch
  <2>3. active' \in Workspaces \cup {NoWorkspace, Unknown}
    BY <1>0, <1>1 DEF Shape
  <2>4. inflight' \in [Keys -> 0..MaxReads]
    BY <1>5
  <2> QED BY <1>0, <1>1, <1>2, <1>4, <2>1, <2>2, <2>3, <2>4 DEF Shape, Map
<1>9. ReadsOK' /\ InflightOK' /\ AnswersOK'
  <2>1. ReadsOK'
    BY <1>0, <1>1, <1>2, ReadFields DEF ReadsOK
  <2> QED BY <1>4, <1>5, <2>1 DEF InflightOK, AnswersOK
<1>10. ASSUME NEW r \in Readers PROVE ReaderOK(r)' /\ ~Idle(r)' /\ ~settled(r)'
  <2>0. ReaderOK(r) /\ readers[r].result.epoch \in 0..MaxEpoch
    BY <1>0, ReaderFields DEF ReadersOK
  <2>1. ~Idle(r)'
    BY <1>7, Starts DEF Idle
  <2>2. AskedFits(r)'
    BY <1>1, <1>7, <2>0, Starts DEF ReaderOK, AskedFits
  <2>3. readers'[r].result.epoch <= epoch /\ ~settled(r)'
    BY <1>2, <1>7, <2>0 DEF ReaderOK, ResultFits, settled
  <2>4. ResultFits(r)'
    <3>1. ~readers'[r].mounted => readers'[r] = Absent
      BY <1>6, <1>7, <2>0 DEF ReaderOK, ResultFits
    <3>2. readers'[r].result.epoch <= epoch'
      BY <1>2, <1>7, <2>0, <2>3
    <3>3. readers'[r].result.kind = "data" => Proper(<<0, PartOf(r)>>, readers'[r].result.data)
      BY <1>7, <2>0 DEF ReaderOK, ResultFits
    <3>4. readers'[r].waits => r = "report" /\ readers'[r].due
      BY <1>7, <2>0, Starts DEF ReaderOK, ResultFits
    <3> QED BY <3>1, <3>2, <3>3, <3>4 DEF ResultFits
  <2> QED BY <2>1, <2>2, <2>3, <2>4 DEF ReaderOK, IdleFits
<1>11. readers'["guard"].mounted
  BY <1>0, <1>7, Parts DEF ReadersOK
<1>12. ASSUME NEW q \in ReadIds, reads'[q].at = "data" PROVE reads'[q].key[1] # epoch'
  BY <1>0, <1>1, <1>2, <1>12, ReadFields DEF ReadsOK
<1>13. <<epoch', "projects">> \in Keys /\ <<epoch', "health">> \in Keys
       /\ <<epoch', "projects">>[1] = epoch'
  BY <1>2, KeyIs DEF Requested
<1>14. ChangesOK'
  <2>1. \A q \in ReadIds : ReadRecent(q)'
    BY <1>12, <1>13 DEF ReadRecent
  <2>2. \A r \in ListReaders : ListRecent(r)'
    BY <1>10, Parts DEF ListRecent
  <2> QED BY <1>0, <1>1, <1>4, <1>13, <2>1, <2>2 DEF ChangesOK
<1>15. SpaceOK'
  <2>1. switch'.at = "none"
    BY <1>1 DEF NoSwitch
  <2>2. ~AnswersMayBeLost => session' = active'
    BY <1>0, <1>1 DEF SpaceOK
  <2>3. ~AnswersMayBeLost => \A w \in Workspaces : TellsOf(w)' => w = active'
    BY <1>4, <1>10, <1>12, <1>13, <2>2 DEF TellsOf
  <2> QED BY <2>1, <2>3 DEF SpaceOK
<1> QED
  BY <1>8, <1>9, <1>10, <1>11, <1>14, <1>15 DEF Inv, ReadersOK
-----------------------------------------------------------------------------
(***************************************************************************)
(* An answer arrives.                                                      *)
(***************************************************************************)
\* What an answer comes to for a reader: what it was told, then whether it asks again.
LEMMA AnsweredIs ==
  ASSUME Inv, NEW q \in ReadIds, NEW gaveUp \in BOOLEAN, AnswerRead(q, gaveUp), NEW r \in Readers
  PROVE  /\ readers'[r] \in ReaderType /\ readers'[r].mounted = readers[r].mounted
         /\ readers[r].due => readers'[r].due
         /\ readers[r].asked # q => /\ readers'[r].asked = readers[r].asked
                                    /\ readers'[r].waits = readers[r].waits
                                    /\ readers'[r].result = readers[r].result
         /\ readers[r].asked = q =>
              /\ readers'[r].asked = 0
              /\ readers'[r].waits = (r = "report" /\ reads[q].at = "pending" /\ ~gaveUp)
              /\ readers'[r].result.epoch = reads[q].key[1]
              /\ readers'[r].result.data = reads[q].data
              /\ readers'[r].result.kind = IF reads[q].at = "data" THEN "data"
                                           ELSE IF readers'[r].waits THEN "pending" ELSE "error"
         /\ readers[r].mounted /\ r # "guard" /\ (active \in Workspaces) # (active' \in Workspaces)
              => readers'[r].due
         /\ ~readers[r].mounted => readers'[r] = readers[r]
<1> USE QueryAssumption
<1>0. Shape /\ readers["guard"].mounted /\ (~readers[r].mounted => readers[r] = Absent)
      /\ q # 0 /\ epoch' = epoch
  <2>1. Shape /\ readers["guard"].mounted /\ ReaderOK(r)
    BY DEF Inv, ReadersOK
  <2>2. epoch' = epoch
    BY DEF AnswerRead
  <2> QED BY <2>1, <2>2 DEF ReaderOK, ResultFits, ReadIds
<1>1. PICK old \in ReaderType, read \in ReadType : old = readers[r] /\ read = reads[q]
  BY <1>0, ReaderFields, ReadFields
<1> DEFINE waits  == r = "report" /\ read.at = "pending" /\ ~gaveUp
           kind   == IF read.at = "data" THEN "data" ELSE IF waits THEN "pending" ELSE "error"
           result == [epoch |-> read.key[1], data |-> read.data, kind |-> kind]
<1>2. /\ result \in ResultType /\ result.epoch = read.key[1] /\ result.data = read.data
      /\ result.kind = kind
  <2>1. read.key[1] \in 0..MaxEpoch /\ read.data \in Data \cup {NoData}
    BY <1>0, <1>1, ReadFields
  <2>2. kind \in {"none", "data", "pending", "error"}
    OBVIOUS
  <2> HIDE DEF kind
  <2> QED BY <2>1, <2>2 DEF ResultType
<1>3. PICK t : t = Told(q, gaveUp)[r]
  OBVIOUS
<1>4. t = IF old.asked = q THEN [old EXCEPT !.asked = 0, !.waits = waits, !.result = result]
          ELSE old
  BY <1>1, <1>3 DEF Told, told
<1>5. /\ t \in ReaderType /\ t.mounted = old.mounted /\ t.due = old.due
      /\ old.asked # q => t = old
      /\ old.asked = q => t.asked = 0 /\ t.waits = waits /\ t.result = result
  <2>1. waits \in BOOLEAN
    OBVIOUS
  <2> HIDE DEF waits, result
  <2>2. CASE old.asked = q
    BY <1>2, <1>4, <2>1, <2>2, Parts DEF ReaderType
  <2>3. CASE old.asked # q
    BY <1>4, <2>3
  <2> QED BY <2>2, <2>3
<1>6. PICK u : u = rerender(Told(q, gaveUp))[r]
  OBVIOUS
<1>7. /\ u = t \/ (t.mounted /\ u = [t EXCEPT !.due = TRUE])
      /\ t.mounted /\ r # "guard" /\ (active \in Workspaces) # (active' \in Workspaces)
           => u = [t EXCEPT !.due = TRUE]
  BY <1>3, <1>6 DEF rerender
<1>8. PICK new : new = readers'[r]
  OBVIOUS
<1>9. new = u \/ (r = "guard" /\ new = [u EXCEPT !.due = TRUE, !.fresh = TRUE])
  <2>1. readers' = rerender(Told(q, gaveUp)) \/ readers' = sessionStale(rerender(Told(q, gaveUp)))
    BY DEF AnswerRead
  <2>2. rerender(Told(q, gaveUp)) = [x \in Readers |-> rerender(Told(q, gaveUp))[x]]
    BY DEF rerender
  <2> QED BY <1>6, <1>8, <2>1, <2>2 DEF sessionStale
<1> HIDE DEF waits, result
<1>10. /\ u \in ReaderType /\ u.mounted = t.mounted /\ (t.due => u.due) /\ u.asked = t.asked
       /\ u.waits = t.waits /\ u.result = t.result /\ (~t.mounted => u = t)
  BY <1>5, <1>7 DEF ReaderType
<1>11. /\ new \in ReaderType /\ new.mounted = u.mounted /\ (u.due => new.due)
       /\ new.asked = u.asked /\ new.waits = u.waits /\ new.result = u.result
       /\ (r # "guard" => new = u)
  BY <1>9, <1>10 DEF ReaderType
<1>12. old.mounted /\ r # "guard" /\ (active \in Workspaces) # (active' \in Workspaces) => new.due
  BY <1>5, <1>7, <1>11 DEF ReaderType
<1>13. ~old.mounted => new = old
  <2>1. ~old.mounted => old.asked = 0 /\ r # "guard"
    BY <1>0, <1>1, Starts
  <2> QED BY <1>0, <1>5, <1>10, <1>11, <2>1
<1> QED
  BY <1>1, <1>2, <1>5, <1>8, <1>10, <1>11, <1>12, <1>13 DEF waits

LEMMA AnswerKeeps ==
  ASSUME Inv, NEW q \in ReadIds, NEW gaveUp \in BOOLEAN, AnswerRead(q, gaveUp)
  PROVE  Inv'
<1> USE QueryAssumption
<1> DEFINE key == reads[q].key
           list == <<epoch, "projects">>
           score == <<epoch, "health">>
<1>0. Shape /\ ReadsOK /\ InflightOK /\ ReadersOK /\ ChangesOK /\ SpaceOK /\ AnswersOK
  BY DEF Inv
<1>1. /\ UNCHANGED <<session, version, removals, epoch, switch, change, shownChange>>
      /\ reads[q].at \notin {"free", "out"} /\ reads' = [reads EXCEPT ![q] = Free]
  BY DEF AnswerRead, apiVars, userVars
<1>2. /\ key \in Keys /\ key[1] <= epoch /\ (reads[q].at = "data" => Proper(key, reads[q].data))
      /\ key = <<key[1], key[2]>> /\ reads[q].data \in Data \cup {NoData}
  BY <1>0, <1>1, ReadFields DEF ReadsOK
<1>3. /\ list \in Keys /\ score \in Keys /\ list[1] = epoch /\ score[1] = epoch
  BY <1>0, KeyIs DEF Shape, Requested
<1>4. /\ reads' \in [ReadIds -> ReadType] /\ reads'[q].at = "free"
      /\ \A p \in ReadIds \ {q} : reads'[p] = reads[p]
  BY <1>0, <1>1, Parts DEF Shape, Free
<1>5. /\ inflight' \in [Keys -> 0..MaxReads]
      /\ \A k \in Keys : inflight'[k] \in {0, inflight[k]} /\ inflight'[k] # q
  <2>1. CASE inflight[key] = q
    <3>1. inflight' = [inflight EXCEPT ![key] = 0]
      BY <2>1 DEF AnswerRead
    <3>2. \A k \in Keys \ {key} : inflight[k] # q
      BY <1>0, <1>2 DEF InflightOK, ReadIds
    <3> QED BY <1>0, <1>2, <3>1, <3>2 DEF Shape, ReadIds
  <2>2. CASE inflight[key] # q
    <3>1. inflight' = inflight
      BY <2>2 DEF AnswerRead
    <3>2. \A k \in Keys : inflight[k] # q
      BY <1>0, <1>2, <2>2 DEF InflightOK, ReadIds
    <3> QED BY <1>0, <3>1, <3>2 DEF Shape
  <2> QED BY <2>1, <2>2
<1>6. /\ answers' \in Map /\ Aged(answers')
      /\ \A k \in Keys : Cached(answers', k) =>
           \/ /\ k = key /\ inflight[key] = q /\ reads[q].at = "data"
              /\ answers'[k].data = reads[q].data
           \/ Cached(answers, k) /\ answers'[k].data = answers[k].data
  <2>1. answers \in Map /\ Aged(answers)
    BY <1>0 DEF Shape, Map, AnswersOK
  <2>2. CASE inflight[key] # q
    <3>1. answers' = answers
      BY <2>2 DEF AnswerRead
    <3> QED BY <2>1, <3>1
  <2>3. CASE inflight[key] = q /\ reads[q].at = "data"
    <3>1. answers' = remember(answers, key, reads[q].data)
      BY <2>3 DEF AnswerRead
    <3> HIDE DEF key
    <3> QED BY <1>2, <2>1, <2>3, <3>1, RememberIs
  <2>4. CASE inflight[key] = q /\ reads[q].at # "data"
    <3>1. answers' = without(answers, {key})
      BY <2>4 DEF AnswerRead
    <3> QED BY <2>1, <3>1, WithoutIs
  <2> QED BY <2>2, <2>3, <2>4
<1>7. \/ active' = active
      \/ active' = NoWorkspace
      \/ active' = reads[q].data.ws /\ reads[q].at = "data" /\ key[1] = epoch
         /\ key[2] = "session"
  <2>1. keyOf("guard")[1] = epoch /\ keyOf("guard")[2] = "session"
    BY Parts DEF keyOf
  <2> QED BY <2>1 DEF AnswerRead, NotesSession, noteActiveWorkspace
<1>8. active' \in Workspaces \cup {NoWorkspace, Unknown}
  <2>1. reads[q].at = "data" => reads[q].data.ws \in Workspaces \cup {NoWorkspace}
    BY <1>2 DEF Proper, Data
  <2> QED BY <1>0, <1>7, <2>1 DEF Shape
<1>9. Shape'
  <2>1. readers' \in [Readers -> ReaderType]
    <3>1. readers' = [r \in Readers |-> readers'[r]]
      BY DEF AnswerRead, rerender, sessionStale
    <3>2. \A r \in Readers : readers'[r] \in ReaderType
      BY AnsweredIs
    <3> QED BY <3>1, <3>2
  <2> QED BY <1>0, <1>1, <1>4, <1>5, <1>6, <1>8, <2>1 DEF Shape, Map
<1>10. ReadsOK'
  BY <1>0, <1>1, <1>4 DEF ReadsOK
<1>11. InflightOK'
  <2>1. ASSUME NEW k \in Keys, inflight'[k] # 0
        PROVE  reads'[inflight'[k]].at # "free" /\ reads'[inflight'[k]].key = k
    <3>1. inflight'[k] = inflight[k] /\ inflight[k] \in ReadIds \ {q}
      BY <1>0, <1>5, <2>1 DEF Shape, ReadIds
    <3> QED BY <1>0, <1>4, <2>1, <3>1 DEF InflightOK
  <2> QED BY <2>1 DEF InflightOK
<1>12. AnswersOK'
  BY <1>0, <1>2, <1>6 DEF AnswersOK
<1>13. ASSUME NEW r \in Readers, readers[r].asked = q
       PROVE  /\ key[2] = PartOf(r) /\ (readers'[r].due \/ key[1] = epoch)
              /\ (reads[q].at = "data" => Proper(<<0, PartOf(r)>>, reads[q].data))
  <2>1. key[2] = PartOf(r) /\ (readers[r].due \/ key[1] = epoch)
    BY <1>0, <1>13 DEF ReadersOK, ReaderOK, AskedFits, ReadIds
  <2>2. readers[r].due => readers'[r].due
    BY AnsweredIs
  <2> QED BY <1>2, <2>1, <2>2 DEF Proper
<1>14. ASSUME NEW r \in Readers, Idle(r)', readers[r].asked # q
       PROVE  Idle(r) /\ readers'[r].result = readers[r].result
  <2>1. readers'[r].mounted /\ ~readers'[r].due /\ readers'[r].asked = 0 /\ ~blocked(r)'
    BY <1>14 DEF Idle
  <2>2. /\ readers[r].mounted /\ ~readers[r].due /\ readers[r].asked = 0
        /\ readers'[r].result = readers[r].result
        /\ r = "guard" \/ (active \in Workspaces) = (active' \in Workspaces)
    BY <1>14, <2>1, AnsweredIs
  <2> QED BY <2>1, <2>2 DEF Idle, blocked
<1>15. ASSUME NEW r \in Readers PROVE ReaderOK(r)'
  <2>0. ReaderOK(r)
    BY <1>0 DEF ReadersOK
  <2>1. CASE readers[r].asked = q
    <3>1. /\ readers'[r].asked = 0 /\ readers'[r].result.epoch = key[1]
          /\ readers'[r].result.data = reads[q].data
          /\ readers'[r].result.kind = "data" => reads[q].at = "data"
          /\ readers'[r].result.kind # "none"
          /\ readers'[r].result.kind = "pending" => readers'[r].waits
          /\ readers'[r].waits => r = "report"
          /\ readers'[r].mounted
      <4>1. readers[r].mounted
        <5>1. q # 0
          BY DEF ReadIds
        <5> QED BY <2>0, <2>1, <5>1, Starts DEF ReaderOK, ResultFits
      <4> QED BY <2>1, <4>1, AnsweredIs
    <3>2. AskedFits(r)'
      BY <3>1 DEF AskedFits
    <3>3. ResultFits(r)'
      <4>1. readers'[r].result.epoch <= epoch'
        BY <1>1, <1>2, <3>1
      <4>2. readers'[r].result.kind = "data" => Proper(<<0, PartOf(r)>>, readers'[r].result.data)
        BY <1>13, <2>1, <3>1
      <4>3. readers'[r].waits =>
              r = "report" /\ (readers'[r].due \/ readers'[r].result.epoch = epoch')
        BY <1>1, <1>13, <2>1, <3>1
      <4> QED BY <3>1, <4>1, <4>2, <4>3 DEF ResultFits
    <3>4. IdleFits(r)'
      <4>1. Idle(r)' => readers'[r].result.epoch = epoch'
        BY <1>1, <1>13, <2>1, <3>1 DEF Idle
      <4> QED BY <3>1, <4>1 DEF IdleFits, settled
    <3> QED BY <3>2, <3>3, <3>4 DEF ReaderOK
  <2>2. CASE readers[r].asked # q
    <3>1. /\ readers'[r].asked = readers[r].asked /\ readers'[r].waits = readers[r].waits
          /\ readers'[r].result = readers[r].result
          /\ readers'[r].mounted = readers[r].mounted
          /\ readers[r].due => readers'[r].due
          /\ ~readers[r].mounted => readers'[r] = readers[r]
      BY <2>2, AnsweredIs
    <3>2. AskedFits(r)'
      <4>1. readers[r].asked # 0 => readers[r].asked \in ReadIds \ {q}
        BY <1>0, <2>2, ReaderFields DEF ReadIds
      <4> QED BY <1>1, <1>4, <2>0, <3>1, <4>1 DEF ReaderOK, AskedFits
    <3>3. ResultFits(r)'
      <4>1. ~readers'[r].mounted => readers'[r] = Absent
        BY <2>0, <3>1 DEF ReaderOK, ResultFits
      <4>2. /\ readers'[r].result.epoch <= epoch'
            /\ readers'[r].result.kind = "data" =>
                 Proper(<<0, PartOf(r)>>, readers'[r].result.data)
            /\ readers'[r].waits =>
                 r = "report" /\ (readers'[r].due \/ readers'[r].result.epoch = epoch')
        BY <1>1, <2>0, <3>1 DEF ReaderOK, ResultFits
      <4> QED BY <4>1, <4>2 DEF ResultFits
    <3>4. IdleFits(r)'
      BY <1>1, <1>14, <2>0, <2>2, <3>1 DEF ReaderOK, IdleFits, settled
    <3> QED BY <3>2, <3>3, <3>4 DEF ReaderOK
  <2> QED BY <2>1, <2>2
<1>16. readers'["guard"].mounted
  BY <1>0, AnsweredIs, Parts DEF ReadersOK
<1>17. ReadersOK'
  BY <1>15, <1>16 DEF ReadersOK
<1>18. ChangesOK'
  <2>1. (Cached(answers, <<epoch, "projects">>) => Recent(answers[<<epoch, "projects">>].data))'
    <3>1. CASE list = key /\ inflight[key] = q /\ reads[q].at = "data"
      <4>1. Recent(reads[q].data)
        BY <1>0, <3>1 DEF ChangesOK, ReadRecent, Wanted
      <4>2. Cached(answers, list) => Recent(answers[list].data)
        BY <1>0 DEF ChangesOK
      <4> QED BY <1>1, <1>3, <1>6, <4>1, <4>2 DEF Recent
    <3>2. CASE ~(list = key /\ inflight[key] = q /\ reads[q].at = "data")
      <4>1. Cached(answers', list) =>
              Cached(answers, list) /\ answers'[list].data = answers[list].data
        BY <1>3, <1>6, <3>2
      <4> QED BY <1>0, <1>1, <4>1 DEF ChangesOK, Recent
    <3> QED BY <3>1, <3>2
  <2>2. ASSUME NEW r \in ListReaders PROVE ListRecent(r)'
    <3>0. r \in Readers /\ PartOf(r) = "projects"
      BY Parts
    <3>1. CASE readers[r].asked = q
      <4>1. /\ readers'[r].result.epoch = key[1] /\ readers'[r].result.data = reads[q].data
            /\ readers'[r].result.kind = "data" => reads[q].at = "data"
        BY <3>0, <3>1, AnsweredIs
      <4>2. key[1] = epoch => key = <<epoch, "projects">>
        BY <1>2, <1>13, <3>0, <3>1
      <4>3. reads[q].at = "data" /\ key[1] = epoch => Recent(reads[q].data)
        BY <1>0, <3>1, <4>2 DEF ChangesOK, ReadRecent, Wanted
      <4> QED BY <1>1, <4>1, <4>3 DEF ListRecent, settled, Recent
    <3>2. CASE readers[r].asked # q
      <4>1. readers'[r].result = readers[r].result
        BY <3>0, <3>2, AnsweredIs
      <4> QED BY <1>0, <1>1, <4>1 DEF ChangesOK, ListRecent, settled, Recent
    <3> QED BY <3>1, <3>2
  <2>3. ASSUME NEW p \in ReadIds PROVE ReadRecent(p)'
    <3>1. CASE p = q
      BY <1>4, <3>1 DEF ReadRecent
    <3>2. CASE p # q
      <4>0. p # 0
        BY DEF ReadIds
      <4>1. \A r \in ListReaders : readers'[r].asked = p => readers[r].asked = p
        BY <3>2, <4>0, AnsweredIs, Parts
      <4>2. inflight'[list] = p => inflight[list] = p
        BY <1>3, <1>5, <4>0
      <4>3. Wanted(p)' => Wanted(p)
        BY <1>1, <4>1, <4>2 DEF Wanted
      <4> QED BY <1>0, <1>1, <1>4, <3>2, <4>3 DEF ChangesOK, ReadRecent, Recent
    <3> QED BY <3>1, <3>2
  <2> QED BY <1>0, <1>1, <2>1, <2>2, <2>3 DEF ChangesOK
<1>19. SpaceOK'
  <2>1. ASSUME NEW w \in Workspaces, TellsOf(w)' PROVE TellsOf(w)
    <3>1. reads[q].at = "data" /\ key[1] = epoch /\ reads[q].data.ws = w => TellsOf(w)
      BY DEF TellsOf
    <3>2. w = active' => TellsOf(w)
      <4>1. w # NoWorkspace
        BY DEF NoWorkspace
      <4> QED BY <1>7, <3>1, <4>1 DEF TellsOf
    <3>3. \A p \in ReadIds : reads'[p].at = "data" => reads'[p] = reads[p]
      BY <1>4
    <3>4. Cached(answers', score) /\ answers'[score].data.ws = w => TellsOf(w)
      BY <1>3, <1>6, <3>1 DEF TellsOf
    <3>5. ASSUME NEW r \in Readers, r # "guard", Idle(r)', settled(r)',
                 readers'[r].result.kind = "data", readers'[r].result.data.ws = w
          PROVE  TellsOf(w)
      <4>1. CASE readers[r].asked = q
        <5>1. /\ readers'[r].result.epoch = key[1] /\ readers'[r].result.data = reads[q].data
              /\ reads[q].at = "data"
          BY <3>5, <4>1, AnsweredIs
        <5> QED BY <1>1, <3>1, <3>5, <5>1 DEF settled
      <4>2. CASE readers[r].asked # q
        BY <1>1, <1>14, <3>5, <4>2 DEF TellsOf, settled
      <4> QED BY <4>1, <4>2
    <3>6. \/ w = session
          \/ w = active'
          \/ \E p \in ReadIds : reads'[p].at = "data" /\ reads'[p].key[1] = epoch
                                /\ reads'[p].data.ws = w
          \/ Cached(answers', score) /\ answers'[score].data.ws = w
          \/ (\E r \in Readers : /\ r # "guard" /\ Idle(r) /\ settled(r)
                                 /\ readers[r].result.kind = "data"
                                 /\ readers[r].result.data.ws = w)'
      BY <1>1, <2>1 DEF TellsOf
    <3>7. (\E p \in ReadIds : reads'[p].at = "data" /\ reads'[p].key[1] = epoch
                              /\ reads'[p].data.ws = w) => TellsOf(w)
      BY <3>3 DEF TellsOf
    <3>8. w = session => TellsOf(w)
      BY DEF TellsOf
    <3> QED BY <3>2, <3>4, <3>5, <3>6, <3>7, <3>8
  <2> QED BY <1>0, <1>1, <2>1, SpaceKept DEF SpaceOK
<1> QED
  BY <1>9, <1>10, <1>11, <1>12, <1>17, <1>18, <1>19 DEF Inv

-----------------------------------------------------------------------------
(***************************************************************************)
(* What the invariant says of the properties, and the theorems.            *)
(***************************************************************************)
LEMMA InvInit ==
  ASSUME QueryInit PROVE Inv
<1> USE QueryAssumption
<1>1. \A k \in Keys : answers[k] = NotCached /\ inflight[k] = 0 /\ ~Cached(answers, k)
  BY DEF QueryInit, Cached, NotCached
<1>2. \A q \in ReadIds : reads[q] = Free /\ reads[q].at = "free"
  BY DEF QueryInit, Free
<1>3. /\ session \in Workspaces /\ epoch = 0 /\ active = Unknown /\ switch = NoSwitch
      /\ change = "none" /\ \A w \in Workspaces : version[w] = 0 /\ shownChange[w] = 0
  BY DEF QueryInit
<1>4. ASSUME NEW r \in Readers
      PROVE  /\ readers[r] \in ReaderType /\ readers[r].asked = 0 /\ ~readers[r].waits
             /\ readers[r].result = NoResult
             /\ IF r = "guard" THEN readers[r].mounted /\ readers[r].due
                               ELSE readers[r] = Absent
  BY Parts, Starts DEF QueryInit
<1>5. NoResult.kind = "none" /\ NoResult.epoch = 0
  BY DEF NoResult
<1>6. Shape
  <2>1. NotCached \in [data : Data \cup {NoData}, age : 0..MaxAnswers]
    BY DEF NotCached
  <2>2. answers \in [Keys -> [data : Data \cup {NoData}, age : 0..MaxAnswers]]
        /\ inflight \in [Keys -> 0..MaxReads]
    BY <2>1 DEF QueryInit
  <2>3. reads \in [ReadIds -> ReadType]
    BY Parts DEF QueryInit
  <2>4. readers \in [Readers -> ReaderType]
    BY <1>4 DEF QueryInit
  <2>5. switch \in [at : {"none", "out", "served"}, to : Workspaces \cup {NoWorkspace}]
        /\ switch.at = "none"
    BY <1>3 DEF NoSwitch
  <2>6. version \in [Workspaces -> 0..MaxChanges] /\ removals \in 0..MaxRemovals
        /\ shownChange \in [Workspaces -> 0..MaxChanges]
    BY DEF QueryInit
  <2> QED BY <1>3, <2>2, <2>3, <2>4, <2>5, <2>6, Parts DEF Shape
<1>7. ReadsOK /\ InflightOK /\ AnswersOK
  BY <1>1, <1>2 DEF ReadsOK, InflightOK, AnswersOK, Aged
<1>8. ReadersOK
  <2>1. ASSUME NEW r \in Readers PROVE ReaderOK(r) /\ ~Idle(r)
    <3>1. ~Idle(r)
      BY <1>4, Starts DEF Idle
    <3> QED BY <1>3, <1>4, <1>5, <3>1, Starts
            DEF ReaderOK, AskedFits, ResultFits, IdleFits
  <2> QED BY <1>4, <2>1, Parts DEF ReadersOK
<1>9. SpaceOK
  <2>1. \A w \in Workspaces : TellsOf(w) => w = session
    <3>1. <<epoch, "health">> \in Keys
      BY <1>3, Parts, KeyIs DEF Requested
    <3>2. \A r \in Readers : readers[r].result.kind # "data"
      BY <1>4, <1>5
    <3>3. active \notin Workspaces
      BY <1>3 DEF Unknown
    <3> QED BY <1>1, <1>2, <3>1, <3>2, <3>3 DEF TellsOf
  <2>2. switch.at # "served"
    BY <1>3 DEF NoSwitch
  <2> QED BY <2>1, <2>2 DEF SpaceOK
<1>10. ChangesOK
  <2>1. <<epoch, "projects">> \in Keys
    BY <1>3, Parts, KeyIs DEF Requested
  <2>2. \A r \in ListReaders : ListRecent(r)
    BY <1>4, <1>5, Parts DEF ListRecent
  <2> QED BY <1>1, <1>2, <1>3, <2>1, <2>2 DEF ChangesOK, ReadRecent
<1> QED
  BY <1>6, <1>7, <1>8, <1>9, <1>10 DEF Inv

LEMMA InvNext ==
  ASSUME Inv, [QueryNext]_queryVars
  PROVE  Inv'
<1>1. CASE \E r \in Readers : Mount(r) \/ Unmount(r) \/ RunEffect(r) \/ refetch(r)
  BY <1>1, ReadersKeep, AsksKeep
<1>2. CASE AskAgain \/ warm
  BY <1>2, AsksKeep
<1>3. CASE onSettingsChanged
  BY <1>3, ReadersKeep
<1>4. CASE \E q \in ReadIds : ServeRead(q) \/ \E gaveUp \in BOOLEAN : AnswerRead(q, gaveUp)
  BY <1>4, ServeKeeps, AnswerKeeps
<1>5. CASE ServeChange \/ RemovedByAdmin
  BY <1>5, ApiKeeps
<1>6. CASE onProjectsChanged
  BY <1>6, ChangeKeeps
<1>7. CASE \/ AskChange \/ ServeSwitch \/ SwitchFails \/ UNCHANGED queryVars
           \/ \E w \in Workspaces \cup {NoWorkspace} : switchTo(w)
  BY <1>7, CallsKeep
<1>8. CASE Switched
  BY <1>8, SwitchedKeeps
<1> QED
  BY <1>1, <1>2, <1>3, <1>4, <1>5, <1>6, <1>7, <1>8 DEF QueryNext

LEMMA InvGives ==
  ASSUME Inv
  PROVE  QueryTypeOK /\ NobodyWaitsInVain /\ (~AnswersMayBeLost => NothingCrossesASwitch)
<1> USE QueryAssumption
<1>0. Shape /\ ReadersOK /\ SpaceOK /\ AnswersOK
  BY DEF Inv
<1>1. QueryTypeOK
  <2>1. answers \in Map /\ Aged(answers)
    BY <1>0 DEF Shape, Map, AnswersOK
  <2>2. Cardinality({k \in Keys : Cached(answers, k)}) <= MaxAnswers
    BY <2>1, CacheBounded
  <2>3. \A q \in ReadIds : reads[q].key \in Keys /\ reads[q].data \in Data \cup {NoData}
    BY <1>0, ReadFields
  <2>4. \A r \in Readers : /\ readers[r].asked \in 0..MaxReads
                           /\ readers[r].result.epoch \in 0..MaxEpoch
                           /\ readers[r].result.data \in Data \cup {NoData}
    BY <1>0, ReaderFields
  <2> QED BY <1>0, <2>2, <2>3, <2>4 DEF Shape, QueryTypeOK
<1>2. ASSUME ~AnswersMayBeLost PROVE NothingCrossesASwitch
  <2> SUFFICES ASSUME switch.at # "served", active \in Workspaces,
                      NEW r \in Readers \ {"guard"},
                      readers[r].mounted, ~readers[r].due, readers[r].asked = 0,
                      NEW d \in shown(r)
               PROVE  d.ws = active
    BY DEF NothingCrossesASwitch
  <2>1. Idle(r) /\ ~blocked(r) /\ settled(r)
    BY <1>0 DEF Idle, blocked, ReadersOK, ReaderOK, IdleFits
  <2>2. TellsOf(active)
    BY DEF TellsOf
  <2>3. d.ws \in Workspaces /\ TellsOf(d.ws)
    <3>1. CASE d \in OwnData(r)
      <4>1. readers[r].result.kind = "data" /\ d = readers[r].result.data
        BY <2>1, <3>1 DEF OwnData
      <4>2. Proper(<<0, PartOf(r)>>, d)
        BY <1>0, <4>1 DEF ReadersOK, ReaderOK, ResultFits
      <4>3. PartOf(r) # "session"
        BY DEF PartOf
      <4> QED BY <2>1, <4>1, <4>2, <4>3 DEF TellsOf, Proper
    <3>2. CASE d \notin OwnData(r)
      <4>1. r = "report" /\ d \in readCached(<<epoch, "health">>)
        BY <2>1, <3>2, Parts DEF shown, CachedOf, keyOf
      <4>2. Cached(answers, <<epoch, "health">>) /\ d = answers[<<epoch, "health">>].data
        BY <4>1 DEF readCached
      <4>3. Proper(<<epoch, "health">>, d)
        BY <1>0, <4>2, KeyIs DEF AnswersOK, Shape, Requested
      <4> QED BY <4>2, <4>3 DEF TellsOf, Proper
    <3> QED BY <3>1, <3>2
  <2> QED BY <1>0, <1>2, <2>2, <2>3 DEF SpaceOK
<1>3. NobodyWaitsInVain
  <2>1. ASSUME NEW r \in Readers, readers[r].mounted, ~blocked(r), ~readers[r].due,
               readers[r].asked = 0
        PROVE  settled(r) /\ (readers[r].result.kind = "pending" => readers[r].waits)
    BY <1>0, <2>1 DEF ReadersOK, ReaderOK, IdleFits, Idle
  <2> QED BY <2>1 DEF NobodyWaitsInVain, loading
<1> QED
  BY <1>1, <1>2, <1>3

LEMMA InvGivesChangesStayShown ==
  ASSUME Inv PROVE ChangesStayShown
<1> SUFFICES ASSUME NEW r \in ListReaders, NEW d \in shown(r) PROVE Recent(d)
  BY DEF ChangesStayShown, Recent
<1>1. ChangesOK /\ r # "report" /\ PartOf(r) = "projects"
  BY Parts DEF Inv
<1>2. CASE settled(r)
  <2>1. readers[r].result.kind = "data" /\ d = readers[r].result.data
    BY <1>1, <1>2 DEF shown, OwnData
  <2> QED BY <1>1, <1>2, <2>1 DEF ChangesOK, ListRecent
<1>3. CASE ~settled(r)
  <2>1. d \in readCached(<<epoch, "projects">>)
    BY <1>1, <1>3 DEF shown, CachedOf, keyOf
  <2>2. Cached(answers, <<epoch, "projects">>) /\ d = answers[<<epoch, "projects">>].data
    BY <2>1 DEF readCached
  <2> QED BY <1>1, <2>2 DEF ChangesOK
<1> QED
  BY <1>2, <1>3

LEMMA InvHolds == QuerySpec => []Inv
<1>1. QueryInit => Inv
  BY InvInit
<1>2. Inv /\ [QueryNext]_queryVars => Inv'
  BY InvNext
<1> QED
  BY <1>1, <1>2, PTL DEF QuerySpec

\* The cache never holds more than its bound; nothing that was read under one
\* workspace settles on screen under another; and no component waits for a read that
\* nobody makes (query-cache.ts with the hooks that read through it).
THEOREM CacheKeepsItsPromises ==
  ASSUME ~AnswersMayBeLost PROVE QuerySpec => []CacheInv
<1>1. QuerySpec => []Inv
  BY InvHolds
<1>2. Inv => CacheInv
  BY InvGives DEF CacheInv
<1> QED
  BY <1>1, <1>2, PTL

\* Even when the answer to a switch is lost, the cache keeps its bound and nobody waits
\* in vain (the two effects of useQuery and the report's timer).
THEOREM NobodyWaits == QuerySpec => [](QueryTypeOK /\ NobodyWaitsInVain)
<1>1. QuerySpec => []Inv
  BY InvHolds
<1>2. Inv => QueryTypeOK /\ NobodyWaitsInVain
  BY InvGives
<1> QED
  BY <1>1, <1>2, PTL

\* A project that a list was told is connected or removed is never shown as before
\* again, even when the answer to a switch is lost (useProjects' update of the cached
\* copy, query-cache.ts).
THEOREM ChangesAreKept == QuerySpec => []ChangesStayShown
<1>1. QuerySpec => []Inv
  BY InvHolds
<1>2. Inv => ChangesStayShown
  BY InvGivesChangesStayShown
<1> QED
  BY <1>1, <1>2, PTL
=============================================================================
