------------------------ MODULE LireRequestHandlerProofs ------------------------
(***************************************************************************)
(* What a request promises holds for any index, any hashes, any number of  *)
(* requests and any parameters.                                            *)
(***************************************************************************)
EXTENDS LireRequestHandler, DataLemmas

--------------------------------------------------------------------------------
(* The inductive invariant                                                 *)

SearchStages == {"doSearch", "searching"}
FoundStages == {"searched", "found", "reported", "ranking"}
RankStages == {"ranked", "timed"}
Stages ==
  {"new", "random", "answered", "exception"} \cup SearchStages \cup FoundStages
    \cup RankStages

ResponseKeys == {"Error", "histogram", "docs", "RawDocsSearchTime", "ReRankSearchTime"}
Responses ==
  [keys : SUBSET ResponseKeys, docs : Seq(Images), distances : Seq(Nat),
   histogram : Features, searchTime : Int, rankTime : Int]

\* An image has at most one document that is not deleted.
IndexOK(ix) ==
  /\ ix \in Seq(Documents)
  /\ \A d, e \in LiveDocs(ix) : ix[d].image = ix[e].image => d = e

TypesOK ==
  /\ IndexOK(index)
  /\ now \in Int /\ time \in Int
  /\ request \in [Requests -> Params]
  /\ stage \in [Requests -> Stages]
  /\ searcher \in [Requests -> Seq(Documents)]
  /\ query = [r \in Requests |-> query[r]]
  /\ queryFeature \in [Requests -> Features]
  /\ list \in [Requests -> Seq(Nat)]
  /\ elapsed \in [Requests -> Int]
  /\ response \in [Requests -> Responses]

Limit(r) == IF Rows(r) < 0 THEN 0 ELSE Rows(r)

\* The candidates are all documents found.
Uncut(r) == Cardinality(Found(r)) <= CandidateResultNumber

\* Query and feature of a search by id are those of the image's document in the
\* snapshot; a search by hashes takes both from the request.
QueryIsOwn(r) ==
  /\ Kind(r) = "id" =>
       \E d \in Own(r) :
         LET value == BinaryValue(searcher[r], d, Field(r))
         IN  query[r] = CreateQuery(HashesOf[value]) /\ queryFeature[r] = value
  /\ Kind(r) = "hashes" =>
       query[r] = SentTerms(request[r]) /\ queryFeature[r] = FeatureOf[Image(r)]["request"]

RankedRight(r) == Uncut(r) => list[r] \in Nearest(r, Found(r))

\* The snapshot; the list has documents of it.
SnapshotOK(r) == IndexOK(searcher[r]) /\ list[r] \in Seq(DOMAIN searcher[r])

Clean(r) ==
  /\ "docs" \notin response[r].keys
  /\ response[r].docs = <<>>

\* Before the handler of the request runs, and while documents are drawn.
EarlyOK(r) ==
  /\ stage[r] = "new" => list[r] = <<>>
  /\ stage[r] \in {"new", "random"} => "Error" \notin response[r].keys
  /\ stage[r] = "random" => Kind(r) = "random" /\ Len(list[r]) <= Limit(r)

\* On the way through doSearch(): with an error there is no query.
SearchOK(r) ==
  /\ stage[r] \in SearchStages \cup FoundStages \cup RankStages =>
       Kind(r) \notin {"random", "extract"} /\ QueryIsOwn(r)
  /\ stage[r] \in SearchStages =>
       list[r] = <<>> /\ ("Error" \in response[r].keys => query[r] = NoQuery)
  /\ stage[r] \in FoundStages =>
       /\ "Error" \notin response[r].keys
       /\ Uncut(r) => ToSet(list[r]) = Found(r)
  /\ stage[r] \in RankStages =>
       /\ "Error" \notin response[r].keys
       /\ Len(list[r]) <= Limit(r)
       /\ RankedRight(r)

AnswerOK(r) ==
  Answered(r) /\ Kind(r) # "extract" =>
    /\ ("docs" \in response[r].keys) # ("Error" \in response[r].keys)
    /\ Len(response[r].docs) <= Limit(r)
    /\ Kind(r) \in {"id", "hashes"} /\ "Error" \notin response[r].keys =>
         /\ QueryIsOwn(r) /\ RankedRight(r)
         /\ response[r].docs = Ids(r)
         /\ response[r].distances = Distances(r)

RequestInv(r) ==
  /\ SnapshotOK(r)
  /\ stage[r] \notin {"answered", "exception"} => Clean(r)
  /\ EarlyOK(r)
  /\ SearchOK(r)
  /\ AnswerOK(r)

IInv == TypesOK /\ \A r \in Requests : RequestInv(r)

--------------------------------------------------------------------------------
(* The index                                                               *)

LEMMA NewIndexOK == IndexOK(<<>>)
  BY DEF IndexOK, LiveDocs

LEMMA WithoutOK ==
  ASSUME NEW ix, IndexOK(ix), NEW image \in Images
  PROVE  /\ IndexOK(Without(ix, image))
         /\ Len(Without(ix, image)) = Len(ix)
         /\ \A d \in LiveDocs(Without(ix, image)) : Without(ix, image)[d].image # image
  <1> DEFINE new == Without(ix, image)
  <1>1. ix \in Seq(Documents) /\ Len(ix) \in Nat /\ DOMAIN ix = 1..Len(ix)
    BY LenProperties DEF IndexOK
  <1>2. \A d \in 1..Len(ix) : ix[d] \in Documents
    BY <1>1, ElementOfSeq
  <1>3. /\ \A d \in 1..Len(ix) :
             /\ new[d] \in Documents
             /\ new[d].image = ix[d].image
             /\ new[d].live => ix[d].live /\ ix[d].image # image
        /\ DOMAIN new = 1..Len(ix)
    BY <1>1, <1>2 DEF Without, Documents
  <1>4. new \in Seq(Documents) /\ Len(new) = Len(ix)
    <2>1. new = [d \in 1..Len(ix) |-> new[d]]
      BY <1>1 DEF Without
    <2>2. new \in [1..Len(ix) -> Documents]
      BY <1>3, <2>1
    <2> QED
      BY <1>1, <2>2, SeqDef, LenProperties
  <1>5. \A d \in LiveDocs(new) : d \in LiveDocs(ix) /\ new[d].image = ix[d].image /\ ix[d].image # image
    BY <1>1, <1>3 DEF LiveDocs
  <1> QED
    BY <1>4, <1>5 DEF IndexOK

LEMMA WithOK ==
  ASSUME NEW ix, IndexOK(ix), NEW image \in Images, NEW source \in Sources
  PROVE  IndexOK(With(ix, image, source))
  <1> DEFINE old == Without(ix, image)
             doc == [image |-> image, source |-> source, live |-> TRUE]
             new == Append(old, doc)
  <1>1. /\ old \in Seq(Documents)
        /\ \A d, e \in LiveDocs(old) : old[d].image = old[e].image => d = e
        /\ \A d \in LiveDocs(old) : old[d].image # image
    BY WithoutOK DEF IndexOK
  <1>2. doc \in Documents /\ doc.image = image
    BY DEF Documents
  <1> HIDE DEF old, doc
  <1>3. /\ new \in Seq(Documents)
        /\ Len(old) \in Nat /\ DOMAIN old = 1..Len(old)
        /\ DOMAIN new = 1..(Len(old) + 1)
        /\ \A d \in 1..Len(old) : new[d] = old[d]
        /\ new[Len(old) + 1] = doc
    BY <1>1, <1>2, AppendProperties, LenProperties
  <1> HIDE DEF new
  <1>4. \A d \in LiveDocs(new) : d = Len(old) + 1 \/ (d \in LiveDocs(old) /\ new[d] = old[d])
    BY <1>3 DEF LiveDocs
  <1>5. \A d, e \in LiveDocs(new) : new[d].image = new[e].image => d = e
    BY <1>1, <1>2, <1>3, <1>4
  <1> QED
    BY <1>3, <1>5 DEF IndexOK, With, old, new, doc

LEMMA MergedOK ==
  ASSUME NEW ix, IndexOK(ix)
  PROVE  IndexOK(Merged(ix))
  <1> DEFINE S == LiveDocs(ix)
             n == Cardinality(S)
             R == {p \in Nat \X Nat : p[1] < p[2]}
             kept == Ascending(S)
             new == [k \in DOMAIN kept |-> ix[kept[k]]]
  <1>1. ix \in Seq(Documents) /\ Len(ix) \in Nat /\ DOMAIN ix = 1..Len(ix)
    BY LenProperties DEF IndexOK
  <1>2. IsFiniteSet(1..Len(ix)) /\ S \subseteq 1..Len(ix)
    BY <1>1, FS_Interval, 1 \in Int DEF LiveDocs
  <1>3. IsFiniteSet(S)
    BY <1>2, FS_Subset
  <1>4. InLine(S, R)
    BY <1>1, <1>2 DEF InLine
  <1>5. PICK s : s \in Listing(S, R)
    BY <1>3, <1>4, ListingExists
  <1>6. s \in [1..n -> S] /\ \A j, k \in DOMAIN s : j < k => s[j] < s[k]
    BY <1>5 DEF Listing
  <1>7. kept \in [1..n -> S] /\ \A j, k \in DOMAIN kept : j < k => kept[j] < kept[k]
    BY <1>6 DEF Ascending
  <1>8. n \in Nat
    BY <1>3, FS_CardinalityType
  <1>12. S \subseteq Nat
    BY <1>1, <1>2
  <1> HIDE DEF n, kept, S
  <1>9. /\ new \in Seq(Documents) /\ DOMAIN new = 1..n
        /\ \A k \in 1..n : new[k] = ix[kept[k]]
    <2>1. \A k \in 1..n : kept[k] \in 1..Len(ix)
      BY <1>2, <1>7
    <2>2. \A k \in 1..n : ix[kept[k]] \in Documents
      BY <1>1, <2>1, ElementOfSeq
    <2>3. new \in [1..n -> Documents]
      BY <1>7, <2>2
    <2> QED
      BY <1>7, <1>8, <2>3, SeqDef
  <1>10. ASSUME NEW j \in 1..n, NEW k \in 1..n, new[j].image = new[k].image PROVE j = k
    <2>1. kept[j] \in S /\ kept[k] \in S
      BY <1>7
    <2>2. kept[j] = kept[k]
      BY <1>9, <1>10, <2>1 DEF IndexOK, S
    <2>3. kept[j] \in Nat /\ kept[k] \in Nat
      BY <1>12, <2>1
    <2>4. j < k \/ k < j \/ j = k
      BY <1>8
    <2> QED
      BY <1>7, <2>2, <2>3, <2>4
  <1>11. Merged(ix) = new
    BY DEF Merged, kept, S
  <1> HIDE DEF new
  <1> QED
    BY <1>9, <1>10, <1>11 DEF IndexOK, LiveDocs

--------------------------------------------------------------------------------
(* What a request reads of its snapshot                                    *)

LEMMA BinaryValueType ==
  ASSUME NEW ix, IndexOK(ix), NEW d \in DOMAIN ix, NEW field
  PROVE  BinaryValue(ix, d, field) \in Features
  <1>1. ix[d] \in Documents
    BY ElementOfSeq, LenProperties DEF IndexOK
  <1>2. FeatureIn(ix[d]) \in Features
    BY <1>1, LireIndexAssumption DEF FeatureIn, Documents, Pipelines
  <1> QED
    BY <1>2, LireIndexAssumption DEF BinaryValue

LEMMA DistanceToType ==
  ASSUME NEW r \in Requests, TypesOK, IndexOK(searcher[r])
  PROVE  \A d \in DOMAIN searcher[r] :
           /\ DistanceTo(r, d) \in Nat
           /\ BinaryValue(searcher[r], d, Field(r)) = queryFeature[r] => DistanceTo(r, d) = 0
  <1> SUFFICES ASSUME NEW d \in DOMAIN searcher[r]
               PROVE  /\ DistanceTo(r, d) \in Nat
                      /\ BinaryValue(searcher[r], d, Field(r)) = queryFeature[r]
                           => DistanceTo(r, d) = 0
    OBVIOUS
  <1>1. BinaryValue(searcher[r], d, Field(r)) \in Nat
    BY BinaryValueType, LireIndexAssumption
  <1>2. queryFeature[r] \in Nat
    BY LireIndexAssumption DEF TypesOK
  <1> QED
    BY <1>1, <1>2 DEF DistanceTo, Distance

LEMMA FoundIsLive ==
  ASSUME NEW r \in Requests, SnapshotOK(r)
  PROVE  /\ Found(r) \subseteq LiveDocs(searcher[r])
         /\ LiveDocs(searcher[r]) \subseteq DOMAIN searcher[r]
         /\ DOMAIN searcher[r] \subseteq Nat
         /\ IsFiniteSet(Found(r))
         /\ Cardinality(Found(r)) \in Nat
  <1>1. Found(r) \subseteq LiveDocs(searcher[r]) /\ LiveDocs(searcher[r]) \subseteq DOMAIN searcher[r]
    BY DEF Found, Matching, LiveDocs
  <1>2. DOMAIN searcher[r] = 1..Len(searcher[r]) /\ Len(searcher[r]) \in Nat
    BY LenProperties DEF SnapshotOK, IndexOK
  <1>3. IsFiniteSet(1..Len(searcher[r]))
    BY <1>2, FS_Interval, 1 \in Int
  <1>4. IsFiniteSet(Found(r))
    BY <1>1, <1>2, <1>3, FS_Subset
  <1> QED
    BY <1>1, <1>2, <1>4, FS_CardinalityType

\* A set that is made a list has the same elements.
LEMMA SetToSeqOnto ==
  ASSUME NEW C, IsFiniteSet(C)
  PROVE  /\ SetToSeq(C) \in Seq(C)
         /\ ToSet(SetToSeq(C)) = C
  <1> DEFINE n == Cardinality(C)
             s == SetToSeq(C)
  <1>1. n \in Nat /\ IsFiniteSet(1..n) /\ Cardinality(1..n) = n
    <2>1. n \in Nat
      BY FS_CardinalityType
    <2> QED
      BY <2>1, FS_Interval, 1 \in Int, n \in Int, (n - 1) + 1 = n
  <1>2. \E f \in [1..n -> C] : \A j, k \in DOMAIN f : f[j] = f[k] => j = k
    <2>0. PICK m \in Nat : ExistsBijection(1..m, C)
      BY FS_NatBijection
    <2>1. n = m
      BY <2>0, FS_CountingElements
    <2>2. PICK f : f \in Bijection(1..n, C)
      BY <2>0, <2>1 DEF ExistsBijection
    <2> QED
      BY <2>2 DEF Bijection, Injection, IsInjective
  <1>3. s \in [1..n -> C] /\ \A j, k \in 1..n : s[j] = s[k] => j = k
    BY <1>2 DEF SetToSeq, IsInjective
  <1> HIDE DEF n, s
  <1>4. s \in Injection(1..n, C)
    BY <1>3 DEF Injection, IsInjective
  <1>5. s \in Surjection(1..n, C)
    <2>1. Cardinality(1..n) = Cardinality(C)
      BY <1>1 DEF n
    <2> QED
      BY <1>4, <1>1, <2>1, FS_Injection
  <1>6. s \in Seq(C)
    BY <1>1, <1>3, SeqDef
  <1>7. ToSet(s) = C
    BY <1>3, <1>5 DEF Surjection, ToSet
  <1> QED
    BY <1>6, <1>7 DEF s

--------------------------------------------------------------------------------
(* A step of one request leaves the others as they are                     *)

Untouched(q) ==
  /\ request'[q] = request[q] /\ searcher'[q] = searcher[q]
  /\ query'[q] = query[q] /\ queryFeature'[q] = queryFeature[q]

\* What a request reads depends on its own variables only.
LEMMA SameRead ==
  ASSUME NEW q \in Requests, Untouched(q)
  PROVE  /\ Kind(q)' = Kind(q) /\ Rows(q)' = Rows(q) /\ Limit(q)' = Limit(q)
         /\ Found(q)' = Found(q) /\ Uncut(q)' = Uncut(q)
         /\ Nearest(q, Found(q))' = Nearest(q, Found(q))
         /\ QueryIsOwn(q)' = QueryIsOwn(q)
         /\ list'[q] = list[q] => /\ Ids(q)' = Ids(q)
                                  /\ Distances(q)' = Distances(q)
                                  /\ SnapshotOK(q)' = SnapshotOK(q)
  <1>1. /\ Kind(q)' = Kind(q) /\ Rows(q)' = Rows(q)
        /\ Field(q)' = Field(q) /\ Image(q)' = Image(q)
    BY DEF Untouched, Kind, Rows, Field, Image
  <1>2. Found(q)' = Found(q)
    BY <1>1 DEF Untouched, Found
  <1>3. \A d : DistanceTo(q, d)' = DistanceTo(q, d)
    BY <1>1 DEF Untouched, DistanceTo
  <1>4. \A d, e : Before(q, d, e)' = Before(q, d, e)
    BY <1>3 DEF Before
  <1>5. \A n : Wanted(q, n)' = Wanted(q, n)
    BY <1>1 DEF Wanted
  <1>6. Nearest(q, Found(q))' = Nearest(q, Found(q))
    BY <1>2, <1>3, <1>4, <1>5, Zenon DEF Nearest
  <1>7. Own(q)' = Own(q)
    BY <1>1 DEF Untouched, Own
  <1>8. QueryIsOwn(q)' = QueryIsOwn(q)
    BY <1>1, <1>7, Zenon DEF Untouched, QueryIsOwn
  <1>9. ASSUME list'[q] = list[q]
        PROVE  /\ Ids(q)' = Ids(q) /\ Distances(q)' = Distances(q)
               /\ SnapshotOK(q)' = SnapshotOK(q)
    BY <1>3, <1>9, Zenon DEF Untouched, Ids, Distances, SnapshotOK
  <1> QED
    BY <1>1, <1>2, <1>6, <1>8, <1>9, Zenon DEF Limit, Uncut

LEMMA RequestKept ==
  ASSUME NEW q \in Requests, RequestInv(q), Untouched(q),
         stage'[q] = stage[q], list'[q] = list[q], response'[q] = response[q]
  PROVE  RequestInv(q)'
  <1>1. /\ Kind(q)' = Kind(q) /\ Limit(q)' = Limit(q)
        /\ Found(q)' = Found(q) /\ Uncut(q)' = Uncut(q)
        /\ Nearest(q, Found(q))' = Nearest(q, Found(q))
        /\ QueryIsOwn(q)' = QueryIsOwn(q)
        /\ Ids(q)' = Ids(q) /\ Distances(q)' = Distances(q)
        /\ SnapshotOK(q)' = SnapshotOK(q)
        /\ query'[q] = query[q]
    BY SameRead DEF Untouched
  <1>2. RankedRight(q)' = RankedRight(q)
    BY <1>1, Zenon DEF RankedRight
  <1>3. Clean(q)' = Clean(q) /\ EarlyOK(q)' = EarlyOK(q)
    BY <1>1, Zenon DEF Clean, EarlyOK
  <1>4. SearchOK(q)' = SearchOK(q)
    BY <1>1, <1>2, Zenon DEF SearchOK
  <1>5. AnswerOK(q)' = AnswerOK(q)
    BY <1>1, <1>2, Zenon DEF AnswerOK, Answered
  <1> QED
    BY <1>1, <1>3, <1>4, <1>5, Zenon DEF RequestInv

LEMMA OneRequestSteps ==
  ASSUME IInv, TypesOK', NEW r \in Requests, RequestInv(r)',
         \A q \in Requests \ {r} :
            /\ Untouched(q)
            /\ stage'[q] = stage[q] /\ list'[q] = list[q] /\ response'[q] = response[q]
  PROVE  IInv'
  <1> SUFFICES ASSUME NEW q \in Requests, q # r PROVE RequestInv(q)'
    BY DEF IInv
  <1> QED
    BY RequestKept DEF IInv

\* What a step of request r leaves of the others.
OthersUntouched(r) ==
  \A q \in Requests \ {r} :
     /\ Untouched(q)
     /\ stage'[q] = stage[q] /\ list'[q] = list[q] /\ response'[q] = response[q]

LEMMA DocsType ==
  ASSUME TypesOK, NEW r \in Requests, SnapshotOK(r)
  PROVE  /\ Ids(r) \in Seq(Images) /\ Len(Ids(r)) = Len(list[r])
         /\ Distances(r) \in Seq(Nat) /\ Len(Distances(r)) = Len(list[r])
  <1>1. /\ list[r] \in Seq(DOMAIN searcher[r]) /\ Len(list[r]) \in Nat
        /\ DOMAIN list[r] = 1..Len(list[r])
        /\ searcher[r] \in Seq(Documents)
    BY LenProperties DEF SnapshotOK, IndexOK
  <1>2. \A j \in 1..Len(list[r]) : list[r][j] \in DOMAIN searcher[r]
    BY <1>1, ElementOfSeq
  <1>3. DOMAIN searcher[r] = 1..Len(searcher[r])
    BY <1>1, LenProperties
  <1>4. \A d \in DOMAIN searcher[r] : searcher[r][d].image \in Images
    <2>1. \A d \in DOMAIN searcher[r] : searcher[r][d] \in Documents
      BY <1>1, <1>3, ElementOfSeq
    <2> QED
      BY <2>1 DEF Documents
  <1>5. Ids(r) \in [1..Len(list[r]) -> Images]
    BY <1>1, <1>2, <1>4 DEF Ids
  <1>6. Distances(r) \in [1..Len(list[r]) -> Nat]
    BY <1>1, <1>2, DistanceToType DEF Distances, SnapshotOK
  <1> QED
    BY <1>1, <1>5, <1>6, FunctionIsSeq

LEMMA RowsType ==
  ASSUME TypesOK, NEW r \in Requests PROVE Rows(r) \in Int
  <1>1. request[r] \in Params
    BY DEF TypesOK
  <1>2. request[r].rows = <<>> \/ request[r].rows \in Seq(Int)
    BY <1>1, LireRequestHandlerAssumption
  <1>3. request[r].rows # <<>> => Head(request[r].rows) \in Int
    BY <1>2
  <1>4. DefaultNumberOfResults \in Int
    BY LireRequestHandlerAssumption
  <1> QED
    BY <1>3, <1>4 DEF Rows, ParamRows

--------------------------------------------------------------------------------
(* doSearch                                                                *)

LEMMA StartSearchClockStep ==
  ASSUME IInv, NEW r \in Requests, StartSearchClock(r) PROVE IInv'
  <1>1. TypesOK'
    BY DEF IInv, TypesOK, StartSearchClock, shared, work, Stages, SearchStages
  <1>2. /\ OthersUntouched(r) /\ Untouched(r)
        /\ stage[r] = "doSearch" /\ stage'[r] = "searching"
        /\ list'[r] = list[r] /\ response'[r] = response[r]
    BY DEF IInv, TypesOK, StartSearchClock, work, OthersUntouched, Untouched
  <1>3. RequestInv(r)
    BY DEF IInv
  <1>4. RequestInv(r)'
    BY <1>2, <1>3, SameRead DEF RequestInv, Clean, EarlyOK, SearchOK, AnswerOK, Answered,
       SearchStages, FoundStages, RankStages, Untouched
  <1> QED
    BY <1>1, <1>2, <1>4, OneRequestSteps DEF OthersUntouched

LEMMA StopSearchClockStep ==
  ASSUME IInv, NEW r \in Requests, StopSearchClock(r) PROVE IInv'
  <1>1. TypesOK'
    BY DEF IInv, TypesOK, StopSearchClock, shared, work, Stages, FoundStages
  <1>2. /\ OthersUntouched(r) /\ Untouched(r)
        /\ stage[r] = "searched" /\ stage'[r] = "found"
        /\ list'[r] = list[r] /\ response'[r] = response[r]
    BY DEF IInv, TypesOK, StopSearchClock, work, OthersUntouched, Untouched
  <1>3. RequestInv(r)
    BY DEF IInv
  <1>4. RequestInv(r)'
    BY <1>2, <1>3, SameRead DEF RequestInv, Clean, EarlyOK, SearchOK, AnswerOK, Answered,
       SearchStages, FoundStages, RankStages
  <1> QED
    BY <1>1, <1>2, <1>4, OneRequestSteps DEF OthersUntouched

LEMMA ReportSearchTimeStep ==
  ASSUME IInv, NEW r \in Requests, ReportSearchTime(r) PROVE IInv'
  <1>0. response[r] \in Responses
    BY DEF IInv, TypesOK
  <1>1. TypesOK'
    <2>1. [response[r] EXCEPT !.keys = @ \cup {"RawDocsSearchTime"}, !.searchTime = time] \in Responses
      BY <1>0 DEF IInv, TypesOK, Responses, ResponseKeys
    <2>2. response' = [response EXCEPT ![r] =
             [response[r] EXCEPT !.keys = @ \cup {"RawDocsSearchTime"}, !.searchTime = time]]
      BY DEF ReportSearchTime, IInv, TypesOK
    <2> QED
      BY <2>1, <2>2 DEF IInv, TypesOK, ReportSearchTime, shared, work, Stages, FoundStages
  <1>2. /\ OthersUntouched(r) /\ Untouched(r)
        /\ stage[r] = "found" /\ stage'[r] = "reported"
        /\ list'[r] = list[r]
        /\ response'[r].keys = response[r].keys \cup {"RawDocsSearchTime"}
        /\ response'[r].docs = response[r].docs
    BY <1>0 DEF IInv, TypesOK, ReportSearchTime, work, OthersUntouched, Untouched, Responses
  <1>3. RequestInv(r)
    BY DEF IInv
  <1>4. RequestInv(r)'
    BY <1>2, <1>3, SameRead DEF RequestInv, Clean, EarlyOK, SearchOK, AnswerOK, Answered,
       SearchStages, FoundStages, RankStages
  <1> QED
    BY <1>1, <1>2, <1>4, OneRequestSteps DEF OthersUntouched

LEMMA StartRankClockStep ==
  ASSUME IInv, NEW r \in Requests, StartRankClock(r) PROVE IInv'
  <1>1. TypesOK'
    BY DEF IInv, TypesOK, StartRankClock, shared, work, Stages, FoundStages
  <1>2. /\ OthersUntouched(r) /\ Untouched(r)
        /\ stage[r] = "reported" /\ stage'[r] = "ranking"
        /\ list'[r] = list[r] /\ response'[r] = response[r]
    BY DEF IInv, TypesOK, StartRankClock, work, OthersUntouched, Untouched
  <1>3. RequestInv(r)
    BY DEF IInv
  <1>4. RequestInv(r)'
    BY <1>2, <1>3, SameRead DEF RequestInv, Clean, EarlyOK, SearchOK, AnswerOK, Answered,
       SearchStages, FoundStages, RankStages
  <1> QED
    BY <1>1, <1>2, <1>4, OneRequestSteps DEF OthersUntouched

LEMMA StopRankClockStep ==
  ASSUME IInv, NEW r \in Requests, StopRankClock(r) PROVE IInv'
  <1>1. TypesOK'
    BY DEF IInv, TypesOK, StopRankClock, shared, work, Stages, RankStages
  <1>2. /\ OthersUntouched(r) /\ Untouched(r)
        /\ stage[r] = "ranked" /\ stage'[r] = "timed"
        /\ list'[r] = list[r] /\ response'[r] = response[r]
    BY DEF IInv, TypesOK, StopRankClock, work, OthersUntouched, Untouched
  <1>3. RequestInv(r)
    BY DEF IInv
  <1>4. RequestInv(r)'
    BY <1>2, <1>3, SameRead DEF RequestInv, Clean, EarlyOK, SearchOK, AnswerOK, Answered,
       SearchStages, FoundStages, RankStages, RankedRight
  <1> QED
    BY <1>1, <1>2, <1>4, OneRequestSteps DEF OthersUntouched

LEMMA SearchIndexStep ==
  ASSUME IInv, NEW r \in Requests, SearchIndex(r) PROVE IInv'
  <1>0. RequestInv(r) /\ SnapshotOK(r)
    BY DEF IInv, RequestInv
  <1>1. PICK C \in Candidates(Found(r)) : list' = [list EXCEPT ![r] = SetToSeq(C)]
    BY DEF SearchIndex
  <1>2. /\ C \subseteq Found(r) /\ (Uncut(r) => C = Found(r))
        /\ IsFiniteSet(C) /\ C \subseteq DOMAIN searcher[r] /\ DOMAIN searcher[r] \subseteq Nat
    <2>1. C \subseteq Found(r) /\ (Uncut(r) => C = Found(r))
      BY DEF Candidates, Uncut, kSubset
    <2> QED
      BY <1>0, <2>1, FoundIsLive, FS_Subset
  <1>3. list'[r] = SetToSeq(C)
    BY <1>1 DEF IInv, TypesOK
  <1>4. ToSet(list'[r]) = C /\ list'[r] \in Seq(DOMAIN searcher[r]) /\ list'[r] \in Seq(Nat)
    <2>1. list'[r] \in Seq(C) /\ ToSet(list'[r]) = C
      BY <1>2, <1>3, SetToSeqOnto
    <2> QED
      BY <1>2, <2>1
  <1>5. TypesOK'
    BY <1>1, <1>3, <1>4 DEF IInv, TypesOK, SearchIndex, shared, work, Stages, FoundStages, TimeTaken
  <1>6. /\ OthersUntouched(r) /\ Untouched(r)
        /\ stage[r] = "searching" /\ stage'[r] = "searched"
        /\ query[r] # NoQuery /\ response'[r] = response[r]
    BY <1>1 DEF IInv, TypesOK, SearchIndex, work, OthersUntouched, Untouched
  <1>7. SnapshotOK(r)'
    BY <1>0, <1>4, <1>6 DEF SnapshotOK, Untouched
  <1>8. RequestInv(r)'
    BY <1>0, <1>2, <1>4, <1>6, <1>7, SameRead DEF RequestInv, Clean, EarlyOK, SearchOK,
       AnswerOK, Answered, SearchStages, FoundStages, RankStages
  <1> QED
    BY <1>5, <1>6, <1>8, OneRequestSteps DEF OthersUntouched

LEMMA RankStep ==
  ASSUME IInv, NEW r \in Requests, Rank(r) PROVE IInv'
  <1>0. RequestInv(r) /\ SnapshotOK(r)
    BY DEF IInv, RequestInv
  <1> DEFINE C == ToSet(list[r])
             n == Cardinality(C)
  <1>1. PICK results \in Nearest(r, C) : list' = [list EXCEPT ![r] = results]
    BY DEF Rank
  <1>2. list'[r] = results
    BY <1>1 DEF IInv, TypesOK
  <1>3. C \subseteq DOMAIN searcher[r] /\ IsFiniteSet(C) /\ n \in Nat
    <2>1. list[r] \in Seq(DOMAIN searcher[r])
      BY <1>0 DEF SnapshotOK
    <2>2. DOMAIN list[r] = 1..Len(list[r]) /\ Len(list[r]) \in Nat
      BY <2>1, LenProperties
    <2>3. C \subseteq DOMAIN searcher[r]
      BY <2>1, <2>2, ElementOfSeq DEF ToSet
    <2>4. DOMAIN searcher[r] = 1..Len(searcher[r]) /\ Len(searcher[r]) \in Nat
      BY <1>0, LenProperties DEF SnapshotOK, IndexOK
    <2>5. IsFiniteSet(DOMAIN searcher[r])
      BY <2>4, FS_Interval, 1 \in Int
    <2>6. IsFiniteSet(C)
      BY <2>3, <2>5, FS_Subset
    <2> QED
      BY <2>3, <2>6, FS_CardinalityType
  <1>4. Rows(r) \in Int
    BY RowsType DEF IInv
  <1> HIDE DEF n, C
  <1>5. Wanted(r, n) \in Nat /\ Wanted(r, n) <= Limit(r)
    BY <1>3, <1>4 DEF Wanted, Limit
  <1>6. results \in [1..Wanted(r, n) -> C]
    BY DEF Nearest, n
  <1>7. results \in Seq(C) /\ Len(results) = Wanted(r, n)
    BY <1>5, <1>6, FunctionIsSeq
  <1>8. results \in Seq(DOMAIN searcher[r]) /\ results \in Seq(Nat)
    <2>1. DOMAIN searcher[r] \subseteq Nat
      BY <1>0, FoundIsLive
    <2> QED
      BY <1>3, <1>7, <2>1
  <1>9. TypesOK'
    BY <1>1, <1>2, <1>8 DEF IInv, TypesOK, Rank, shared, work, Stages, RankStages, TimeTaken
  <1>10. /\ OthersUntouched(r) /\ Untouched(r)
         /\ stage[r] = "ranking" /\ stage'[r] = "ranked"
         /\ response'[r] = response[r]
    BY <1>1 DEF IInv, TypesOK, Rank, work, OthersUntouched, Untouched
  <1>11. SnapshotOK(r)'
    BY <1>0, <1>2, <1>8, <1>10 DEF SnapshotOK, Untouched
  <1>12. Uncut(r) => C = Found(r)
    BY <1>0, <1>10 DEF RequestInv, SearchOK, FoundStages, C
  <1>13. RankedRight(r)'
    BY <1>1, <1>2, <1>10, <1>12, SameRead DEF RankedRight
  <1>14. Len(list'[r]) <= Limit(r)'
    BY <1>2, <1>5, <1>7, <1>10, SameRead
  <1>15. RequestInv(r)'
    BY <1>0, <1>10, <1>11, <1>13, <1>14, SameRead DEF RequestInv, Clean, EarlyOK, SearchOK,
       AnswerOK, Answered, SearchStages, FoundStages, RankStages
  <1> QED
    BY <1>9, <1>10, <1>15, OneRequestSteps DEF OthersUntouched

LEMMA RespondStep ==
  ASSUME IInv, NEW r \in Requests, Respond(r) PROVE IInv'
  <1> DEFINE answer == [response[r] EXCEPT !.keys = @ \cup {"ReRankSearchTime", "docs"},
                                           !.rankTime = time,
                                           !.docs = Ids(r),
                                           !.distances = Distances(r)]
  <1>0. RequestInv(r) /\ SnapshotOK(r) /\ response[r] \in Responses /\ TypesOK
    BY DEF IInv, RequestInv, TypesOK
  <1>1. /\ answer \in Responses
        /\ answer.keys = response[r].keys \cup {"ReRankSearchTime", "docs"}
        /\ answer.docs = Ids(r) /\ answer.distances = Distances(r)
    <2>1. Ids(r) \in Seq(Images) /\ Distances(r) \in Seq(Nat) /\ time \in Int
      BY <1>0, DocsType DEF TypesOK
    <2> QED
      BY <1>0, <2>1 DEF Responses, ResponseKeys
  <1>2. Len(Ids(r)) = Len(list[r])
    BY <1>0, DocsType
  <1>3. response' = [response EXCEPT ![r] = answer]
    BY DEF Respond, Answer
  <1> HIDE DEF answer
  <1>4. TypesOK'
    BY <1>0, <1>1, <1>3 DEF TypesOK, Respond, Answer, shared, work, Stages
  <1>5. /\ OthersUntouched(r) /\ Untouched(r)
        /\ stage[r] = "timed" /\ stage'[r] = "answered"
        /\ list'[r] = list[r] /\ response'[r] = answer
    BY <1>0, <1>3 DEF TypesOK, Respond, Answer, work, OthersUntouched, Untouched
  <1>6. RankedRight(r)' = RankedRight(r)
    BY <1>5, SameRead DEF RankedRight
  <1>7. RequestInv(r)'
    BY <1>0, <1>1, <1>2, <1>5, <1>6, SameRead DEF RequestInv, Clean, EarlyOK, SearchOK,
       AnswerOK, Answered, SearchStages, FoundStages, RankStages
  <1> QED
    BY <1>4, <1>5, <1>7, OneRequestSteps DEF OthersUntouched

--------------------------------------------------------------------------------
(* Exceptions and errors                                                   *)

\* The request ends with an exception.
LEMMA ThrowStep ==
  ASSUME IInv, TypesOK', NEW r \in Requests, Throw(r), OthersUntouched(r),
         SnapshotOK(r)'
  PROVE  IInv'
  <1>1. stage'[r] = "exception"
    BY DEF Throw, IInv, TypesOK
  <1>2. RequestInv(r)'
    BY <1>1 DEF RequestInv, Clean, EarlyOK, SearchOK, AnswerOK, Answered,
       SearchStages, FoundStages, RankStages
  <1> QED
    BY <1>2, OneRequestSteps DEF OthersUntouched

LEMMA SearchThrowsStep ==
  ASSUME IInv, NEW r \in Requests, SearchThrows(r) PROVE IInv'
  <1>1. TypesOK'
    BY DEF IInv, TypesOK, SearchThrows, Throw, shared, work, Stages
  <1>2. OthersUntouched(r) /\ Untouched(r) /\ list'[r] = list[r] /\ Throw(r)
    BY DEF IInv, TypesOK, SearchThrows, Throw, work, OthersUntouched, Untouched
  <1>3. SnapshotOK(r)'
    BY <1>2, SameRead DEF IInv, RequestInv
  <1> QED
    BY <1>1, <1>2, <1>3, ThrowStep

LEMMA PickFailsStep ==
  ASSUME IInv, NEW r \in Requests, PickFails(r) PROVE IInv'
  <1>1. TypesOK'
    BY DEF IInv, TypesOK, PickFails, Throw, shared, work, Stages
  <1>2. OthersUntouched(r) /\ Untouched(r) /\ list'[r] = list[r] /\ Throw(r)
    BY DEF IInv, TypesOK, PickFails, Throw, work, OthersUntouched, Untouched
  <1>3. SnapshotOK(r)'
    BY <1>2, SameRead DEF IInv, RequestInv
  <1> QED
    BY <1>1, <1>2, <1>3, ThrowStep

\* A request that begins has nothing in its response; its snapshot is the index.
LEMMA BeginFacts ==
  ASSUME IInv, NEW r \in Requests, stage[r] = "new"
  PROVE  /\ IndexOK(index) /\ index \in Seq(Documents)
         /\ list[r] = <<>> /\ response[r] \in Responses
         /\ response[r].docs = <<>>
         /\ "Error" \notin response[r].keys /\ "docs" \notin response[r].keys
         /\ Rows(r) \in Int /\ 0 <= Limit(r) /\ Limit(r) \in Int
  <1>1. Rows(r) \in Int
    BY RowsType DEF IInv
  <1>2. IndexOK(index) /\ index \in Seq(Documents) /\ response[r] \in Responses
    BY DEF IInv, TypesOK, IndexOK
  <1>3. Clean(r) /\ EarlyOK(r)
    BY DEF IInv, RequestInv
  <1> QED
    BY <1>1, <1>2, <1>3 DEF EarlyOK, Clean, Limit

LEMMA HashSearchFailsStep ==
  ASSUME IInv, NEW r \in Requests, HashSearchFails(r) PROVE IInv'
  <1>0. /\ IndexOK(index) /\ index \in Seq(Documents) /\ list[r] = <<>>
    BY BeginFacts DEF HashSearchFails, Receives
  <1>1. TypesOK'
    BY <1>0 DEF IInv, TypesOK, HashSearchFails, GetSearcher, Throw, shared, Stages
  <1>2. OthersUntouched(r) /\ list'[r] = list[r] /\ Throw(r) /\ searcher'[r] = index
    BY DEF IInv, TypesOK, HashSearchFails, GetSearcher, Throw, OthersUntouched, Untouched
  <1>3. SnapshotOK(r)'
    BY <1>0, <1>2, SameRead DEF SnapshotOK
  <1> QED
    BY <1>1, <1>2, <1>3, ThrowStep

\* The request ends with an error.
LEMMA RefuseStep ==
  ASSUME IInv, TypesOK', NEW r \in Requests, stage[r] = "new", Refuse(r),
         OthersUntouched(r), SnapshotOK(r)', request' = request
  PROVE  IInv'
  <1>0. /\ response[r] \in Responses
        /\ response[r].docs = <<>>
        /\ "docs" \notin response[r].keys
        /\ 0 <= Limit(r)
    BY BeginFacts
  <1>1. /\ stage'[r] = "answered"
        /\ response'[r].keys = response[r].keys \cup {"Error"}
        /\ response'[r].docs = <<>>
    BY <1>0 DEF Refuse, Answer, IInv, TypesOK, Responses
  <1>2. Limit(r)' = Limit(r)
    BY DEF Limit, Rows
  <1>3. RequestInv(r)'
    BY <1>0, <1>1, <1>2 DEF RequestInv, Clean, EarlyOK, SearchOK, AnswerOK, Answered,
       SearchStages, FoundStages, RankStages
  <1> QED
    BY <1>3, OneRequestSteps DEF OthersUntouched

LEMMA RefuseType ==
  ASSUME TypesOK, NEW r \in Requests, Refuse(r)
  PROVE  /\ response' \in [Requests -> Responses]
         /\ stage' \in [Requests -> Stages]
         /\ \A q \in Requests \ {r} : stage'[q] = stage[q] /\ response'[q] = response[q]
  <1>1. [response[r] EXCEPT !.keys = @ \cup {"Error"}] \in Responses
    BY DEF TypesOK, Responses, ResponseKeys
  <1> QED
    BY <1>1 DEF TypesOK, Refuse, Answer, Stages

LEMMA IdSearchFailsStep ==
  ASSUME IInv, NEW r \in Requests, IdSearchFails(r) PROVE IInv'
  <1>0. /\ IndexOK(index) /\ index \in Seq(Documents) /\ list[r] = <<>>
    BY BeginFacts DEF IdSearchFails, Receives
  <1>1. TypesOK'
    BY <1>0, RefuseType DEF IInv, TypesOK, IdSearchFails, GetSearcher, shared
  <1>2. /\ OthersUntouched(r) /\ list'[r] = list[r] /\ searcher'[r] = index
    BY RefuseType DEF IInv, TypesOK, IdSearchFails, GetSearcher, OthersUntouched, Untouched
  <1>3. SnapshotOK(r)'
    BY <1>0, <1>2 DEF SnapshotOK
  <1> QED
    BY <1>1, <1>2, <1>3, RefuseStep DEF IdSearchFails, Receives

LEMMA UrlUnreadableStep ==
  ASSUME IInv, NEW r \in Requests, UrlUnreadable(r) PROVE IInv'
  <1>1. TypesOK'
    BY RefuseType DEF IInv, TypesOK, UrlUnreadable, shared, work
  <1>2. OthersUntouched(r) /\ Untouched(r) /\ list'[r] = list[r] /\ request' = request
    BY RefuseType DEF IInv, TypesOK, UrlUnreadable, work, OthersUntouched, Untouched
  <1>3. SnapshotOK(r)'
    BY <1>2, SameRead DEF IInv, RequestInv
  <1> QED
    BY <1>1, <1>2, <1>3, RefuseStep DEF UrlUnreadable, Receives

--------------------------------------------------------------------------------
(* Requests that go on to doSearch()                                       *)

LEMMA ToDoSearch ==
  ASSUME IInv, TypesOK', NEW r \in Requests, OthersUntouched(r),
         stage[r] = "new", stage'[r] = "doSearch", list'[r] = list[r],
         request' = request, searcher'[r] = index,
         response'[r].docs = <<>>, "docs" \notin response'[r].keys,
         "Error" \in response'[r].keys => query'[r] = NoQuery,
         Kind(r) \notin {"random", "extract"},
         QueryIsOwn(r)'
  PROVE  IInv'
  <1>1. IndexOK(index) /\ list[r] = <<>>
    BY BeginFacts
  <1>2. SnapshotOK(r)' /\ Kind(r)' = Kind(r)
    BY <1>1 DEF SnapshotOK, Kind
  <1>3. RequestInv(r)'
    BY <1>1, <1>2 DEF RequestInv, Clean, EarlyOK, SearchOK, AnswerOK, Answered,
       SearchStages, FoundStages, RankStages
  <1> QED
    BY <1>3, OneRequestSteps DEF OthersUntouched

LEMMA IdSearchStep ==
  ASSUME IInv, NEW r \in Requests, IdSearch(r) PROVE IInv'
  <1>0. /\ IndexOK(index) /\ index \in Seq(Documents)
        /\ response[r].docs = <<>>
        /\ "Error" \notin response[r].keys /\ "docs" \notin response[r].keys
        /\ Kind(r) = "id" /\ stage[r] = "new" /\ TypesOK
    BY BeginFacts DEF IdSearch, Receives, IInv, Kind
  <1> DEFINE value(d) == BinaryValue(index, d, Field(r))
  <1>1. PICK d \in Hits(r) : Search(r, CreateQuery(HashesOf[value(d)]), value(d))
    BY DEF IdSearch
  <1>2. value(d) \in Features
    BY <1>0, BinaryValueType DEF Hits, LiveDocs
  <1>3. TypesOK'
    BY <1>0, <1>1, <1>2 DEF TypesOK, IdSearch, Search, GetSearcher, shared, Stages, SearchStages
  <1>4. /\ OthersUntouched(r) /\ list'[r] = list[r] /\ response'[r] = response[r]
        /\ searcher'[r] = index /\ stage'[r] = "doSearch" /\ request' = request
        /\ query'[r] = CreateQuery(HashesOf[value(d)]) /\ queryFeature'[r] = value(d)
    BY <1>0, <1>1 DEF TypesOK, IdSearch, Search, GetSearcher, OthersUntouched, Untouched
  <1>5. Image(r)' = Image(r) /\ Field(r)' = Field(r) /\ Kind(r)' = Kind(r)
    BY <1>4 DEF Image, Field, Kind
  <1>6. d \in Own(r)'
    BY <1>1, <1>4, <1>5 DEF Hits, Own
  <1>7. QueryIsOwn(r)'
    BY <1>0, <1>4, <1>5, <1>6 DEF QueryIsOwn
  <1> QED
    BY <1>0, <1>3, <1>4, <1>7, ToDoSearch

LEMMA RequestFeatureType ==
  ASSUME TypesOK, NEW r \in Requests
  PROVE  FeatureOf[Image(r)]["request"] \in Features
  <1>1. Image(r) \in Images
    BY LireRequestHandlerAssumption DEF TypesOK, Image
  <1> QED
    BY <1>1, LireIndexAssumption DEF Pipelines

LEMMA UrlSearchStep ==
  ASSUME IInv, NEW r \in Requests, UrlSearch(r) PROVE IInv'
  <1>0. /\ IndexOK(index) /\ index \in Seq(Documents)
        /\ response[r].docs = <<>>
        /\ "Error" \notin response[r].keys /\ "docs" \notin response[r].keys
        /\ Kind(r) = "url" /\ stage[r] = "new" /\ TypesOK
        /\ FeatureOf[Image(r)]["request"] \in Features
    BY BeginFacts, RequestFeatureType DEF UrlSearch, Receives, IInv, Kind
  <1>1. TypesOK'
    BY <1>0 DEF TypesOK, UrlSearch, Search, GetSearcher, shared, Stages, SearchStages
  <1>2. /\ OthersUntouched(r) /\ list'[r] = list[r] /\ response'[r] = response[r]
        /\ searcher'[r] = index /\ stage'[r] = "doSearch" /\ request' = request
    BY <1>0 DEF TypesOK, UrlSearch, Search, GetSearcher, OthersUntouched, Untouched
  <1>3. QueryIsOwn(r)'
    BY <1>0, <1>2 DEF QueryIsOwn, Kind
  <1> QED
    BY <1>0, <1>1, <1>2, <1>3, ToDoSearch

LEMMA UrlNotExtractedStep ==
  ASSUME IInv, NEW r \in Requests, UrlNotExtracted(r) PROVE IInv'
  <1>0. /\ IndexOK(index) /\ index \in Seq(Documents)
        /\ response[r].docs = <<>> /\ response[r] \in Responses
        /\ "docs" \notin response[r].keys
        /\ Kind(r) = "url" /\ stage[r] = "new" /\ TypesOK
    BY BeginFacts DEF UrlNotExtracted, Receives, IInv, Kind
  <1> DEFINE answer == [response[r] EXCEPT !.keys = @ \cup {"Error"}]
  <1>1. /\ answer \in Responses /\ answer.docs = response[r].docs
        /\ answer.keys = response[r].keys \cup {"Error"}
    BY <1>0 DEF Responses, ResponseKeys
  <1>2. response' = [response EXCEPT ![r] = answer]
    BY <1>0 DEF UrlNotExtracted, TypesOK
  <1> HIDE DEF answer
  <1>6. /\ GetSearcher(r) /\ Search(r, NoQuery, Blank)
        /\ UNCHANGED <<shared, time, request, list, elapsed, began>>
    BY Zenon DEF UrlNotExtracted
  <1>3. TypesOK'
    BY <1>0, <1>1, <1>2, <1>6, LireIndexAssumption DEF TypesOK, Search, GetSearcher, shared,
       Stages, SearchStages
  <1>4. /\ OthersUntouched(r) /\ list'[r] = list[r] /\ response'[r] = answer
        /\ searcher'[r] = index /\ stage'[r] = "doSearch" /\ request' = request
        /\ query'[r] = NoQuery
    BY <1>0, <1>2, <1>6 DEF TypesOK, Search, GetSearcher, OthersUntouched, Untouched
  <1>5. QueryIsOwn(r)'
    BY <1>0, <1>4 DEF QueryIsOwn, Kind
  <1> QED
    BY <1>0, <1>1, <1>3, <1>4, <1>5, ToDoSearch

LEMMA HashSearchStep ==
  ASSUME IInv, NEW r \in Requests, HashSearch(r) PROVE IInv'
  <1>0. /\ IndexOK(index) /\ index \in Seq(Documents)
        /\ response[r].docs = <<>>
        /\ "Error" \notin response[r].keys /\ "docs" \notin response[r].keys
        /\ Kind(r) = "hashes" /\ stage[r] = "new" /\ TypesOK
        /\ FeatureOf[Image(r)]["request"] \in Features
    BY BeginFacts, RequestFeatureType DEF HashSearch, Receives, IInv, Kind
  <1>1. TypesOK'
    BY <1>0 DEF TypesOK, HashSearch, Search, GetSearcher, shared, Stages, SearchStages
  <1>2. /\ OthersUntouched(r) /\ list'[r] = list[r] /\ response'[r] = response[r]
        /\ searcher'[r] = index /\ stage'[r] = "doSearch" /\ request' = request
        /\ query'[r] = SentTerms(request[r])
        /\ queryFeature'[r] = FeatureOf[Image(r)]["request"]
    BY <1>0 DEF TypesOK, HashSearch, Search, GetSearcher, OthersUntouched, Untouched
  <1>3. QueryIsOwn(r)'
    BY <1>0, <1>2 DEF QueryIsOwn, Kind, Image
  <1> QED
    BY <1>0, <1>1, <1>2, <1>3, ToDoSearch

--------------------------------------------------------------------------------
(* extract and random requests, the index and the clock                    *)

LEMMA ExtractStep ==
  ASSUME IInv, NEW r \in Requests, Extract(r) \/ ExtractFails(r) PROVE IInv'
  <1>0. TypesOK /\ Kind(r) = "extract" /\ FeatureOf[Image(r)]["request"] \in Features
    BY RequestFeatureType DEF Extract, ExtractFails, Receives, IInv, Kind
  <1>1. PICK answer \in Responses : Answer(r, answer)
    <2>1. [response[r] EXCEPT !.keys = @ \cup {"histogram"},
                              !.histogram = FeatureOf[Image(r)]["request"]] \in Responses
      BY <1>0 DEF TypesOK, Responses, ResponseKeys
    <2>2. response[r] \in Responses
      BY <1>0 DEF TypesOK
    <2> QED
      BY <2>1, <2>2 DEF Extract, ExtractFails
  <1>2. UNCHANGED <<shared, time, work, list, elapsed, began>>
    BY DEF Extract, ExtractFails
  <1>3. TypesOK'
    BY <1>0, <1>1, <1>2 DEF TypesOK, Answer, shared, work, Stages
  <1>4. /\ OthersUntouched(r) /\ Untouched(r) /\ list'[r] = list[r]
        /\ stage'[r] = "answered"
    BY <1>0, <1>1, <1>2 DEF TypesOK, Answer, work, OthersUntouched, Untouched
  <1>5. SnapshotOK(r)' /\ Kind(r)' = "extract"
    BY <1>0, <1>4, SameRead DEF IInv, RequestInv
  <1>6. RequestInv(r)'
    BY <1>4, <1>5 DEF RequestInv, Clean, EarlyOK, SearchOK, AnswerOK, Answered,
       SearchStages, FoundStages, RankStages
  <1> QED
    BY <1>3, <1>4, <1>6, OneRequestSteps DEF OthersUntouched

LEMMA RandomSearchStep ==
  ASSUME IInv, NEW r \in Requests, RandomSearch(r) PROVE IInv'
  <1>0. /\ IndexOK(index) /\ index \in Seq(Documents) /\ list[r] = <<>>
        /\ response[r].docs = <<>> /\ 0 <= Limit(r)
        /\ "Error" \notin response[r].keys /\ "docs" \notin response[r].keys
        /\ Kind(r) = "random" /\ stage[r] = "new" /\ TypesOK
    BY BeginFacts DEF RandomSearch, Receives, IInv, Kind
  <1>1. TypesOK'
    BY <1>0 DEF TypesOK, RandomSearch, GetSearcher, shared, Stages
  <1>2. /\ OthersUntouched(r) /\ list'[r] = list[r] /\ response'[r] = response[r]
        /\ searcher'[r] = index /\ stage'[r] = "random" /\ request' = request
    BY <1>0 DEF TypesOK, RandomSearch, GetSearcher, OthersUntouched, Untouched
  <1>3. SnapshotOK(r)' /\ Kind(r)' = Kind(r) /\ Limit(r)' = Limit(r)
    BY <1>0, <1>2 DEF SnapshotOK, Kind, Limit, Rows
  <1>4. RequestInv(r)'
    BY <1>0, <1>2, <1>3 DEF RequestInv, Clean, EarlyOK, SearchOK, AnswerOK, Answered,
       SearchStages, FoundStages, RankStages
  <1> QED
    BY <1>1, <1>2, <1>4, OneRequestSteps DEF OthersUntouched

LEMMA PickRandomStep ==
  ASSUME IInv, NEW r \in Requests, PickRandom(r) PROVE IInv'
  <1>0. /\ TypesOK /\ SnapshotOK(r) /\ RequestInv(r)
        /\ stage[r] = "random" /\ Len(list[r]) < Rows(r) /\ Rows(r) \in Int
    BY RowsType DEF IInv, RequestInv, PickRandom, WantsMore
  <1>1. PICK d \in DOMAIN searcher[r] : list' = [list EXCEPT ![r] = @ \o <<d>>]
    BY DEF PickRandom, Picked
  <1>2. list'[r] = list[r] \o <<d>>
    BY <1>0, <1>1 DEF TypesOK
  <1>3. /\ list[r] \in Seq(DOMAIN searcher[r]) /\ DOMAIN searcher[r] \subseteq Nat
    BY <1>0, FoundIsLive DEF SnapshotOK
  <1>4. /\ list'[r] \in Seq(DOMAIN searcher[r])
        /\ Len(list'[r]) = Len(list[r]) + 1 /\ Len(list[r]) \in Nat
    <2>1. /\ list[r] \o <<d>> \in Seq(DOMAIN searcher[r])
          /\ Len(list[r]) \in Nat /\ Len(list[r] \o <<d>>) = Len(list[r]) + 1
      BY <1>3, OneMore, Zenon
    <2> QED
      BY <1>2, <2>1, Zenon
  <1>5. list'[r] \in Seq(Nat)
    BY <1>3, <1>4
  <1>6. TypesOK'
    BY <1>0, <1>1, <1>2, <1>5 DEF TypesOK, PickRandom, shared, work
  <1>7. /\ OthersUntouched(r) /\ Untouched(r)
        /\ stage'[r] = "random" /\ response'[r] = response[r]
    BY <1>0, <1>1 DEF TypesOK, PickRandom, work, OthersUntouched, Untouched
  <1>8. SnapshotOK(r)'
    BY <1>0, <1>4, <1>7 DEF SnapshotOK, Untouched
  <1>9. Len(list'[r]) <= Limit(r)
    BY <1>0, <1>4 DEF Limit
  <1>10. RequestInv(r)'
    BY <1>0, <1>7, <1>8, <1>9, SameRead DEF RequestInv, Clean, EarlyOK, SearchOK, AnswerOK,
       Answered, SearchStages, FoundStages, RankStages
  <1> QED
    BY <1>6, <1>7, <1>10, OneRequestSteps DEF OthersUntouched

LEMMA RandomAnswerStep ==
  ASSUME IInv, NEW r \in Requests, RandomAnswer(r) PROVE IInv'
  <1> DEFINE answer == [response[r] EXCEPT !.keys = @ \cup {"docs"}, !.docs = Ids(r)]
  <1>0. RequestInv(r) /\ SnapshotOK(r) /\ response[r] \in Responses /\ TypesOK
    BY DEF IInv, RequestInv, TypesOK
  <1>1. /\ answer \in Responses
        /\ answer.keys = response[r].keys \cup {"docs"}
        /\ answer.docs = Ids(r)
    <2>1. Ids(r) \in Seq(Images)
      BY <1>0, DocsType
    <2> QED
      BY <1>0, <2>1 DEF Responses, ResponseKeys
  <1>2. Len(Ids(r)) = Len(list[r])
    BY <1>0, DocsType
  <1>3. response' = [response EXCEPT ![r] = answer]
    BY DEF RandomAnswer, Answer
  <1> HIDE DEF answer
  <1>4. TypesOK'
    BY <1>0, <1>1, <1>3 DEF TypesOK, RandomAnswer, Answer, shared, work, Stages
  <1>5. /\ OthersUntouched(r) /\ Untouched(r)
        /\ stage[r] = "random" /\ stage'[r] = "answered"
        /\ list'[r] = list[r] /\ response'[r] = answer
    BY <1>0, <1>3 DEF TypesOK, RandomAnswer, Answer, work, OthersUntouched, Untouched
  <1>6. RequestInv(r)'
    BY <1>0, <1>1, <1>2, <1>5, SameRead DEF RequestInv, Clean, EarlyOK, SearchOK,
       AnswerOK, Answered, SearchStages, FoundStages, RankStages
  <1> QED
    BY <1>4, <1>5, <1>6, OneRequestSteps DEF OthersUntouched

\* Nothing of any request changes.
LEMMA NoRequestStep ==
  ASSUME IInv, TypesOK', UNCHANGED <<work, stage, list, response>>
  PROVE  IInv'
  <1>1. ASSUME NEW r \in Requests PROVE RequestInv(r)'
    <2>1. Untouched(r) /\ stage'[r] = stage[r] /\ list'[r] = list[r] /\ response'[r] = response[r]
      BY DEF work, Untouched
    <2> QED
      BY <2>1, RequestKept DEF IInv
  <1> QED
    BY <1>1 DEF IInv

LEMMA CommitStep == IInv /\ Commit => IInv'
  <1> SUFFICES ASSUME IInv, Commit PROVE IInv'
    OBVIOUS
  <1>1. IndexOK(index')
    BY WithoutOK, WithOK, MergedOK DEF IInv, TypesOK, Commit, Indexable
  <1>2. TypesOK'
    BY <1>1 DEF IInv, TypesOK, Commit, work
  <1> QED
    BY <1>2, NoRequestStep DEF Commit

LEMMA TickStep == IInv /\ Tick => IInv'
  <1> SUFFICES ASSUME IInv, Tick PROVE IInv'
    OBVIOUS
  <1>1. TypesOK'
    BY DEF IInv, TypesOK, Tick, work
  <1> QED
    BY <1>1, NoRequestStep DEF Tick

LEMMA InitIInv == Init => IInv
  <1> SUFFICES ASSUME Init PROVE IInv
    OBVIOUS
  <1>1. Empty \in Responses /\ Blank \in Features /\ <<>> \in Seq(Documents) /\ <<>> \in Seq(Nat)
    BY LireIndexAssumption DEF Empty, Responses
  <1>2. MinTime \in Int /\ 0 \in Int
    BY LireRequestHandlerAssumption
  <1>3. TypesOK
    BY <1>1, <1>2, NewIndexOK DEF Init, TypesOK, Stages
  <1>4. ASSUME NEW r \in Requests PROVE RequestInv(r)
    <2>1. /\ stage[r] = "new" /\ list[r] = <<>> /\ searcher[r] = <<>>
          /\ response[r].keys = {} /\ response[r].docs = <<>>
      BY DEF Init, Empty
    <2>2. SnapshotOK(r)
      BY <2>1, NewIndexOK DEF SnapshotOK
    <2> QED
      BY <2>1, <2>2 DEF RequestInv, Clean, EarlyOK, SearchOK, AnswerOK, Answered,
         SearchStages, FoundStages, RankStages
  <1> QED
    BY <1>3, <1>4 DEF IInv

LEMMA StepIInv == IInv /\ [Next]_vars => IInv'
  <1> SUFFICES ASSUME IInv, [Next]_vars PROVE IInv'
    OBVIOUS
  <1>1. CASE Commit \/ Tick
    BY <1>1, CommitStep, TickStep
  <1>2. CASE UNCHANGED vars
    <2>1. TypesOK'
      BY <1>2 DEF IInv, TypesOK, vars, shared, work
    <2> QED
      BY <1>2, <2>1, NoRequestStep DEF vars
  <1>3. ASSUME NEW r \in Requests, HandleRequestBody(r) PROVE IInv'
    <2>1. CASE HandleIdSearch(r) \/ HandleUrlSearch(r)
      BY <2>1, IdSearchStep, IdSearchFailsStep, UrlSearchStep, UrlUnreadableStep,
         UrlNotExtractedStep DEF HandleIdSearch, HandleUrlSearch
    <2>2. CASE HandleExtract(r) \/ HandleHashSearch(r)
      BY <2>2, ExtractStep, HashSearchStep, HashSearchFailsStep DEF HandleExtract, HandleHashSearch
    <2>3. CASE HandleRandomSearch(r)
      BY <2>3, RandomSearchStep, PickRandomStep, PickFailsStep, RandomAnswerStep
         DEF HandleRandomSearch
    <2>4. CASE DoSearch(r)
      BY <2>4, StartSearchClockStep, SearchIndexStep, SearchThrowsStep, StopSearchClockStep,
         ReportSearchTimeStep, StartRankClockStep, RankStep, StopRankClockStep, RespondStep
         DEF DoSearch
    <2> QED
      BY <1>3, <2>1, <2>2, <2>3, <2>4 DEF HandleRequestBody
  <1> QED
    BY <1>1, <1>2, <1>3 DEF Next

--------------------------------------------------------------------------------
(* What the response promises                                              *)

\* A search that ends without an exception either lists documents, never more than
\* asked for, or says that there was an error.
THEOREM DocsOrErrorAlways == Spec => []DocsOrError
  <1>1. IInv => DocsOrError
    BY DEF IInv, RequestInv, AnswerOK, DocsOrError, Limit
  <1> QED
    BY <1>1, InitIInv, StepIInv, PTL DEF Spec

\* A query made from the hashes of a document's feature, or from all hashes the client
\* sends of the same feature, finds the document.
LEMMA FindsItself ==
  ASSUME NEW r \in Requests, TypesOK, SnapshotOK(r), QueryIsOwn(r),
         Kind(r) = "id" \/ (Kind(r) = "hashes" /\ request[r].base = 16),
         CanFindItself(r)
  PROVE  \E d \in Own(r) :
            /\ d \in Found(r)
            /\ DistanceTo(r, d) = 0
            /\ \A e \in Own(r) : e = d
  <1>1. PICK d \in Own(r) :
          /\ Field(r) \in FieldsOf(searcher[r][d])
          /\ Kind(r) = "hashes" => FeatureIn(searcher[r][d]) = queryFeature[r]
    BY DEF CanFindItself
  <1>2. \A e \in Own(r) : e = d
    BY DEF SnapshotOK, IndexOK, Own
  <1>3. d \in LiveDocs(searcher[r]) /\ d \in DOMAIN searcher[r]
    BY DEF Own, LiveDocs
  <1> DEFINE f == FeatureIn(searcher[r][d])
             hashes == HashesOf[f]
  <1>4. f = BinaryValue(searcher[r], d, Field(r)) /\ f \in Features
    <2>1. f = BinaryValue(searcher[r], d, Field(r))
      BY <1>1 DEF BinaryValue
    <2> QED
      BY <1>3, <2>1, BinaryValueType DEF SnapshotOK
  <1>5. queryFeature[r] = f
    BY <1>1, <1>2, <1>4, Zenon DEF QueryIsOwn
  <1>6. DistanceTo(r, d) = 0
    BY <1>3, <1>4, <1>5, DistanceToType DEF SnapshotOK
  <1>7. /\ hashes \in Seq(0 .. 2^12 - 1) /\ hashes # <<>>
        /\ Len(hashes) \in Nat /\ DOMAIN hashes = 1..Len(hashes)
        /\ 1 \in 1..Len(hashes)
    <2>1. hashes \in Seq(0 .. 2^12 - 1) \ {<<>>}
      BY <1>4, LireIndexAssumption
    <2> HIDE DEF hashes
    <2>2. Len(hashes) \in Nat /\ DOMAIN hashes = 1..Len(hashes) /\ Len(hashes) # 0
      BY <2>1, LenProperties, EmptySeq
    <2> QED
      BY <2>1, <2>2
  <1>8. ToHexString(hashes[1]) \in TermsIn(searcher[r][d], Field(r))
    BY <1>1, <1>7 DEF TermsIn, ToSet
  <1>9. ToHexString(hashes[1]) \in query[r]
    <2>1. CASE Kind(r) = "id"
      <3>1. query[r] = CreateQuery(hashes)
        BY <1>2, <1>4, <2>1 DEF QueryIsOwn
      <3>2. NumHashes(Len(hashes)) \in Nat /\ 1 \in 1..NumHashes(Len(hashes))
        <4>1. \A n \in Nat : n >= 1 => NumHashes(n) \in Nat /\ NumHashes(n) >= 1
          BY DEF NumHashes
        <4>2. Len(hashes) \in Nat /\ Len(hashes) >= 1
          BY <1>7
        <4> QED
          BY <4>1, <4>2
      <3> HIDE DEF hashes
      <3> QED
        BY <3>1, <3>2 DEF CreateQuery
    <2>2. CASE Kind(r) = "hashes" /\ request[r].base = 16
      <3>1. query[r] = SentTerms(request[r]) /\ f = FeatureOf[request[r].image]["request"]
        BY <1>5, <2>2 DEF QueryIsOwn, Image
      <3>2. hashes[1] \in ToSet(HashesOf[FeatureOf[request[r].image]["request"]])
        BY <1>7, <3>1 DEF ToSet
      <3> QED
        BY <2>2, <3>1, <3>2 DEF SentTerms, ToHexString
    <2> QED
      BY <2>1, <2>2
  <1>10. d \in Found(r)
    BY <1>3, <1>8, <1>9 DEF Found, Matching
  <1> QED
    BY <1>2, <1>6, <1>10

\* The results are not empty and the first has distance 0, if a candidate has.
LEMMA NearestBegins ==
  ASSUME NEW r \in Requests, TypesOK, SnapshotOK(r), Rows(r) >= 1,
         NEW d \in Found(r), DistanceTo(r, d) = 0,
         list[r] \in Nearest(r, Found(r))
  PROVE  /\ Len(list[r]) >= 1 /\ DistanceTo(r, list[r][1]) = 0
         /\ \A j \in DOMAIN list[r] : list[r][j] \in Found(r)
  <1> DEFINE C == Found(r)
             w == Wanted(r, Cardinality(C))
             s == list[r]
  <1>1. /\ C \subseteq DOMAIN searcher[r] /\ DOMAIN searcher[r] \subseteq Nat
        /\ IsFiniteSet(C) /\ Cardinality(C) \in Nat
    BY FoundIsLive
  <1>2. Cardinality(C) # 0
    BY <1>1, FS_EmptySet
  <1>3. Rows(r) \in Int
    BY RowsType
  <1>4. w \in Nat /\ w >= 1
    BY <1>1, <1>2, <1>3 DEF Wanted
  <1> HIDE DEF C, w
  <1>5. /\ s \in [1..w -> C]
        /\ \A j, k \in DOMAIN s : j < k => Before(r, s[j], s[k])
        /\ \A x \in ToSet(s), e \in C \ ToSet(s) : DistanceTo(r, x) <= DistanceTo(r, e)
    BY DEF Nearest, C, w
  <1> HIDE DEF s
  <1>6. Len(s) = w /\ DOMAIN s = 1..w
    BY <1>4, <1>5, FunctionIsSeq
  <1>7. \A e \in C : DistanceTo(r, e) \in Nat
    BY <1>1, DistanceToType DEF SnapshotOK
  <1>8. s[1] \in C /\ s[1] \in ToSet(s)
    BY <1>4, <1>5, <1>6 DEF ToSet
  <1>9. DistanceTo(r, s[1]) <= 0
    <2>1. CASE d \in ToSet(s)
      <3>1. PICK j \in 1..w : s[j] = d
        BY <1>6, <2>1 DEF ToSet
      <3>2. CASE j = 1
        BY <3>1, <3>2
      <3>3. CASE j # 1
        <4>1. Before(r, s[1], d)
          BY <1>4, <1>5, <1>6, <3>1, <3>3
        <4> QED
          BY <1>7, <1>8, <4>1 DEF Before, C
      <3> QED
        BY <3>2, <3>3
    <2>2. CASE d \notin ToSet(s)
      <3>1. d \in C \ ToSet(s)
        BY <2>2 DEF C
      <3> QED
        BY <1>5, <1>8, <3>1
    <2> QED
      BY <2>1, <2>2
  <1>10. DistanceTo(r, s[1]) = 0
    BY <1>7, <1>8, <1>9
  <1> QED
    BY <1>4, <1>5, <1>6, <1>10 DEF s, C

\* An image searched for by its id, or by its hashes as the index writes them, heads
\* the results with distance 0, whatever is committed, merged and searched meanwhile.
THEOREM SelfFirstAlways == Spec => []SelfFirst
  <1>1. IInv => SelfFirst
    <2> SUFFICES ASSUME IInv, NEW r \in Requests, Answered(r),
                        Kind(r) = "id" \/ (Kind(r) = "hashes" /\ request[r].base = 16),
                        "Error" \notin response[r].keys, CanFindItself(r)
                 PROVE  /\ response[r].docs # <<>>
                        /\ Head(response[r].distances) = 0
                        /\ \A j \in DOMAIN response[r].docs :
                             response[r].docs[j] = Image(r) => response[r].distances[j] = 0
      BY DEF SelfFirst
    <2>1. /\ TypesOK /\ SnapshotOK(r) /\ QueryIsOwn(r) /\ RankedRight(r)
          /\ response[r].docs = Ids(r) /\ response[r].distances = Distances(r)
      BY DEF IInv, RequestInv, AnswerOK
    <2>2. PICK d \in Own(r) :
            /\ d \in Found(r) /\ DistanceTo(r, d) = 0
            /\ \A e \in Own(r) : e = d
      BY <2>1, FindsItself
    <2>3. list[r] \in Nearest(r, Found(r)) /\ Rows(r) >= 1
      BY <2>1 DEF CanFindItself, RankedRight, Uncut
    <2>4. /\ Len(list[r]) >= 1 /\ DistanceTo(r, list[r][1]) = 0
          /\ \A j \in DOMAIN list[r] : list[r][j] \in Found(r)
      BY <2>1, <2>2, <2>3, NearestBegins
    <2>5. /\ Ids(r) \in Seq(Images) /\ Len(Ids(r)) = Len(list[r])
          /\ Distances(r) \in Seq(Nat) /\ Len(Distances(r)) = Len(list[r])
          /\ DOMAIN list[r] = 1..Len(list[r])
      BY <2>1, DocsType, LenProperties DEF TypesOK
    <2>6. response[r].docs # <<>>
      BY <2>1, <2>4, <2>5
    <2>7. Head(Distances(r)) = 0
      <3>1. 1 \in DOMAIN list[r]
        BY <2>4, <2>5
      <3>2. Distances(r)[1] = 0
        BY <2>4, <3>1 DEF Distances
      <3>3. Head(Distances(r)) = Distances(r)[1]
        BY <2>4, <2>5
      <3> QED
        BY <3>2, <3>3
    <2>8. ASSUME NEW j \in DOMAIN Ids(r), Ids(r)[j] = Image(r)
          PROVE  Distances(r)[j] = 0
      <3>1. j \in DOMAIN list[r]
        BY DEF Ids
      <3>2. searcher[r][list[r][j]].image = Image(r)
        BY <2>8, <3>1 DEF Ids
      <3>3. list[r][j] \in LiveDocs(searcher[r])
        BY <2>1, <2>4, <3>1, FoundIsLive
      <3>4. list[r][j] = d
        BY <2>2, <3>2, <3>3 DEF Own
      <3> QED
        BY <2>2, <3>1, <3>4 DEF Distances
    <2> QED
      BY <2>1, <2>6, <2>7, <2>8
  <1> QED
    BY <1>1, InitIInv, StepIInv, PTL DEF Spec

================================================================================
