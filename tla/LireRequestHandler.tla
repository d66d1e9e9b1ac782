-------------------------- MODULE LireRequestHandler --------------------------
(***************************************************************************)
(* LireRequestHandler: the server runs one request per thread on a shared  *)
(* handler object.  Everything a request reads it takes from its           *)
(* parameters and from its searcher, a snapshot of the index; what the     *)
(* requests share is the field "time" of the handler.                      *)
(*                                                                         *)
(* A step runs from one access of "time" to the next.  Re-ranking is one   *)
(* step here; module ReRank has its loop, and NearestKept is what the loop *)
(* promises to this module.                                                *)
(***************************************************************************)
EXTENDS LireIndex

CONSTANTS Requests,               \* the requests, each with its thread
          Params,                 \* the parameters a client may send
          Unreadable,             \* images that cannot be fetched or decoded
          Unextractable,          \* images on which extract() or hashing throws
          CandidateResultNumber,  \* 1500
          DefaultNumberOfResults, \* 60
          MaxChanges,             \* bound on updates of the index
          MinTime, MaxTime        \* bounds of the clock

\* "rows" and "field" are optional; "hashes" comes in the base the client writes it.
ASSUME LireRequestHandlerAssumption ==
  /\ \A p \in Params :
       /\ p.given \subseteq {"hashes", "feature", "url", "id", "extract"}
       /\ p.image \in Images
       /\ p.base \in {10, 16}
       /\ p.field \in KnownFields \cup {"absent", "unknown"}
       /\ p.rows = <<>> \/ p.rows \in Seq(Int)
  /\ Unreadable \cup Unextractable \subseteq Images
  /\ CandidateResultNumber \in Nat \ {0}
  /\ {MaxChanges, DefaultNumberOfResults, MinTime, MaxTime} \subseteq Nat

VARIABLES
  index,         \* documents as of the last commit
  changes,       \* commits so far
  now,           \* System.currentTimeMillis()
  time,          \* the field of the handler
  request,       \* parameters of each request
  stage,         \* where each request is
  searcher,      \* snapshot each request works on
  query,         \* terms each request searches for
  queryFeature,  \* feature each request compares with
  list,          \* documents found, then the results, in their order
  elapsed,       \* difference computed but not yet stored in "time"
  began,         \* when the request's own search began
  response       \* what the client gets

shared == <<index, changes, now>>
work == <<request, searcher, query, queryFeature>>
vars == <<shared, time, work, stage, list, elapsed, began, response>>

NoQuery == {<<>>}   \* null: no term is empty
Empty == [keys |-> {}, docs |-> <<>>, distances |-> <<>>, histogram |-> Blank,
          searchTime |-> 0, rankTime |-> 0]

Init ==
  /\ index = <<>> /\ changes = 0
  /\ now = MinTime /\ time = 0
  /\ request \in [Requests -> Params]
  /\ stage = [r \in Requests |-> "new"]
  /\ searcher = [r \in Requests |-> <<>>]
  /\ query = [r \in Requests |-> {}]
  /\ queryFeature = [r \in Requests |-> Blank]
  /\ list = [r \in Requests |-> <<>>]
  /\ elapsed = [r \in Requests |-> 0]
  /\ began = [r \in Requests |-> MinTime]
  /\ response = [r \in Requests |-> Empty]

--------------------------------------------------------------------------------
(* Around the handler: the index is updated, time passes                   *)

\* Only an image whose features were extracted is in an index.
Indexable == Images \ (Unreadable \cup Unextractable)

Commit ==
  /\ changes < MaxChanges
  /\ changes' = changes + 1
  /\ \/ \E i \in Indexable, s \in Sources : index' = With(index, i, s)
     \/ \E i \in Indexable : index' = Without(index, i)
     \/ index' = Merged(index)
  /\ UNCHANGED <<now, time, work, stage, list, elapsed, began, response>>

Tick ==
  /\ now < MaxTime
  /\ now' = now + 1
  /\ UNCHANGED <<index, changes, time, work, stage, list, elapsed, began, response>>

--------------------------------------------------------------------------------
(* Parameters                                                              *)

\* The first parameter given, in this order, decides which handler runs.
Handler(p) ==
  CASE "hashes" \in p.given  -> "hashes"
    [] "url" \in p.given     -> "url"
    [] "id" \in p.given      -> "id"
    [] "extract" \in p.given -> "extract"
    [] OTHER                 -> "random"

ParamField(p) == IF p.field = "absent" THEN "cl_ha" ELSE p.field
ParamRows(p) == IF p.rows = <<>> THEN DefaultNumberOfResults ELSE Head(p.rows)

Field(r) == ParamField(request[r])
Rows(r) == ParamRows(request[r])
Image(r) == request[r].image

Receives(r, handler) == stage[r] = "new" /\ Handler(request[r]) = handler

\* The documents listed by a request.
Ids(r) == [j \in DOMAIN list[r] |-> searcher[r][list[r][j]].image]

\* Mutant: values are read from the index as it is now.
DistanceNow(r, d) ==
  Distance(queryFeature[r],
           IF d \in DOMAIN index THEN BinaryValue(index, d, Field(r)) ELSE Blank)

DistanceTo(r, d) == Distance(queryFeature[r], BinaryValue(searcher[r], d, Field(r)))
Distances(r) == [j \in DOMAIN list[r] |-> DistanceTo(r, list[r][j])]

--------------------------------------------------------------------------------
(* Ways to end                                                             *)

Answer(r, answer) ==
  /\ stage' = [stage EXCEPT ![r] = "answered"]
  /\ response' = [response EXCEPT ![r] = answer]

\* Mutant: the message is commented out.
Silence(r) == Answer(r, response[r])

\* rsp.add("Error", ...)
Refuse(r) ==
  Answer(r, [response[r] EXCEPT !.keys = @ \cup {"Error"}])

\* The exception leaves handleRequestBody(), what was added to rsp stays.
Throw(r) ==
  /\ stage' = [stage EXCEPT ![r] = "exception"]
  /\ UNCHANGED response

\* The request has a query and goes on to doSearch().
Search(r, terms, feature) ==
  /\ stage' = [stage EXCEPT ![r] = "doSearch"]
  /\ query' = [query EXCEPT ![r] = terms]
  /\ queryFeature' = [queryFeature EXCEPT ![r] = feature]

\* req.getSearcher()
GetSearcher(r) == searcher' = [searcher EXCEPT ![r] = index]

--------------------------------------------------------------------------------
(* createQuery                                                             *)

\* Half of the hashes, but all of them if that leaves less than five.
NumHashes(n) == IF n \div 2 < 5 THEN n ELSE n \div 2

\* The hashes are shuffled, but in a list that the query is not made from.
CreateQuery(hashes) ==
  {ToHexString(hashes[i]) : i \in 1..NumHashes(Len(hashes))}

--------------------------------------------------------------------------------
(* handleIdSearch                                                          *)

Hits(r) == {d \in LiveDocs(index) : index[d].image = Image(r)}

CanSearchById(r) ==
  /\ Field(r) \in KnownFields
  /\ Hits(r) # {}
  /\ HasBinaryValues(index, Field(r))

IdSearch(r) ==
  /\ Receives(r, "id")
  /\ CanSearchById(r)
  /\ GetSearcher(r)
  /\ \E d \in Hits(r) :
       LET value == BinaryValue(index, d, Field(r))
       IN  Search(r, CreateQuery(HashesOf[value]), value)
  /\ UNCHANGED <<shared, time, request, list, elapsed, began, response>>

\* No such image; or no such field or no values in it, which dereferences null
\* and is caught.
IdSearchFails(r) ==
  /\ Receives(r, "id")
  /\ ~CanSearchById(r)
  /\ GetSearcher(r)
  /\ Refuse(r)
  /\ UNCHANGED <<shared, time, request, query, queryFeature, list, elapsed, began>>

--------------------------------------------------------------------------------
(* handleUrlSearch and handleExtract                                       *)

Readable(r) == Image(r) \notin Unreadable
Extractable(r) == Readable(r) /\ Image(r) \notin Unextractable

\* An unknown field is taken for the edge histogram, and then searched for.
UrlSearch(r) ==
  /\ Receives(r, "url")
  /\ Extractable(r)
  /\ GetSearcher(r)
  /\ LET feature == FeatureOf[Image(r)]["request"]
     IN  Search(r, CreateQuery(HashesOf[feature]), feature)
  /\ UNCHANGED <<shared, time, request, list, elapsed, began, response>>

UrlUnreadable(r) ==
  /\ Receives(r, "url")
  /\ ~Readable(r)
  /\ Refuse(r)
  /\ UNCHANGED <<shared, time, work, list, elapsed, began>>

\* The feature object is there, what it should hold is not, nor is the query: the
\* error is reported and the search goes on.
UrlNotExtracted(r) ==
  /\ Receives(r, "url")
  /\ Readable(r) /\ ~Extractable(r)
  /\ GetSearcher(r)
  /\ Search(r, NoQuery, Blank)
  /\ response' = [response EXCEPT ![r].keys = @ \cup {"Error"}]
  /\ UNCHANGED <<shared, time, request, list, elapsed, began>>

Extract(r) ==
  /\ Receives(r, "extract")
  /\ Extractable(r)
  /\ Answer(r, [response[r] EXCEPT !.keys = @ \cup {"histogram"},
                                   !.histogram = FeatureOf[Image(r)]["request"]])
  /\ UNCHANGED <<shared, time, work, list, elapsed, began>>

\* The message is commented out: the answer is empty.
ExtractFails(r) ==
  /\ Receives(r, "extract")
  /\ ~Extractable(r)
  /\ Answer(r, response[r])
  /\ UNCHANGED <<shared, time, work, list, elapsed, began>>

--------------------------------------------------------------------------------
(* handleHashSearch                                                        *)

CanSearchByHash(r) ==
  Field(r) \in KnownFields /\ "feature" \in request[r].given

\* The client sends all hashes of its feature, as terms in base p.base.
SentTerms(p) ==
  {Digits(h, p.base) : h \in ToSet(HashesOf[FeatureOf[p.image]["request"]])}

HashSearch(r) ==
  /\ Receives(r, "hashes")
  /\ CanSearchByHash(r)
  /\ GetSearcher(r)
  /\ Search(r, SentTerms(request[r]), FeatureOf[Image(r)]["request"])
  /\ UNCHANGED <<shared, time, request, list, elapsed, began, response>>

\* No feature object for an unknown field, no bytes without "feature".
HashSearchFails(r) ==
  /\ Receives(r, "hashes")
  /\ ~CanSearchByHash(r)
  /\ GetSearcher(r)
  /\ Throw(r)
  /\ UNCHANGED <<shared, time, request, query, queryFeature, list, elapsed, began>>

--------------------------------------------------------------------------------
(* handleRandomSearch                                                      *)

RandomSearch(r) ==
  /\ Receives(r, "random")
  /\ GetSearcher(r)
  /\ stage' = [stage EXCEPT ![r] = "random"]
  /\ UNCHANGED <<shared, time, request, query, queryFeature, list, elapsed, began,
                 response>>

\* Mutant: deleted documents are drawn again.
PickedIfLive(r, d) == IF searcher[r][d].live THEN <<d>> ELSE <<>>

Picked(r, d) == <<d>>
WantsMore(r) == Len(list[r]) < Rows(r)

\* A document number below maxDoc, whatever is there.
PickRandom(r) ==
  /\ stage[r] = "random"
  /\ WantsMore(r)
  /\ \E d \in DOMAIN searcher[r] :
       /\ HasTitle(searcher[r][d])
       /\ list' = [list EXCEPT ![r] = @ \o Picked(r, d)]
  /\ UNCHANGED <<shared, time, work, stage, elapsed, began, response>>

\* getValues("title")[0] of a document without one; document(0) of an empty index.
PickFails(r) ==
  /\ stage[r] = "random"
  /\ WantsMore(r)
  /\ \/ searcher[r] = <<>>
     \/ \E d \in DOMAIN searcher[r] : ~HasTitle(searcher[r][d])
  /\ Throw(r)
  /\ UNCHANGED <<shared, time, work, list, elapsed, began>>

RandomAnswer(r) ==
  /\ stage[r] = "random"
  /\ ~WantsMore(r)
  /\ Answer(r, [response[r] EXCEPT !.keys = @ \cup {"docs"}, !.docs = Ids(r)])
  /\ UNCHANGED <<shared, time, work, list, elapsed, began>>

--------------------------------------------------------------------------------
(* doSearch                                                                *)

StartSearchClock(r) ==
  /\ stage[r] = "doSearch"
  /\ stage' = [stage EXCEPT ![r] = "searching"]
  /\ time' = now
  /\ began' = [began EXCEPT ![r] = now]
  /\ UNCHANGED <<shared, work, list, elapsed, response>>

Found(r) == Matching(searcher[r], Field(r), query[r])

\* What searching with a limit may give of the documents found.
Candidates(S) ==
  IF Cardinality(S) <= CandidateResultNumber
    THEN {S} ELSE kSubset(CandidateResultNumber, S)

TimeTaken == now - time

\* The best candidates by the score of their terms, whichever those are.
SearchIndex(r) ==
  /\ stage[r] = "searching"
  /\ query[r] # NoQuery
  /\ stage' = [stage EXCEPT ![r] = "searched"]
  /\ \E C \in Candidates(Found(r)) :
        list' = [list EXCEPT ![r] = SetToSeq(C)]
  /\ elapsed' = [elapsed EXCEPT ![r] = TimeTaken]
  /\ UNCHANGED <<shared, time, work, began, response>>

SearchThrows(r) ==
  /\ stage[r] = "searching"
  /\ query[r] = NoQuery
  /\ Throw(r)
  /\ UNCHANGED <<shared, time, work, list, elapsed, began>>

StopSearchClock(r) ==
  /\ stage[r] = "searched"
  /\ stage' = [stage EXCEPT ![r] = "found"]
  /\ time' = elapsed[r]
  /\ UNCHANGED <<shared, work, list, elapsed, began, response>>

ReportSearchTime(r) ==
  /\ stage[r] = "found"
  /\ stage' = [stage EXCEPT ![r] = "reported"]
  /\ response' = [response EXCEPT ![r].keys = @ \cup {"RawDocsSearchTime"},
                                  ![r].searchTime = time]
  /\ UNCHANGED <<shared, time, work, list, elapsed, began>>

StartRankClock(r) ==
  /\ stage[r] = "reported"
  /\ stage' = [stage EXCEPT ![r] = "ranking"]
  /\ time' = now
  /\ UNCHANGED <<shared, work, list, elapsed, began, response>>

\* How many results n candidates give.
Wanted(r, n) == IF Rows(r) < 0 THEN 0 ELSE IF n < Rows(r) THEN n ELSE Rows(r)

\* The order of the results, SimpleResult.compareTo.
Before(r, d, e) ==
  \/ DistanceTo(r, d) < DistanceTo(r, e)
  \/ DistanceTo(r, d) = DistanceTo(r, e) /\ d < e

\* The loop of module ReRank: the nearest of the candidates, nearest first.
Nearest(r, candidates) ==
  {s \in [1..Wanted(r, Cardinality(candidates)) -> candidates] :
     /\ \A j, k \in DOMAIN s : j < k => Before(r, s[j], s[k])
     /\ \A d \in ToSet(s), e \in candidates \ ToSet(s) :
          DistanceTo(r, d) <= DistanceTo(r, e)}

Rank(r) ==
  /\ stage[r] = "ranking"
  /\ stage' = [stage EXCEPT ![r] = "ranked"]
  /\ \E results \in Nearest(r, ToSet(list[r])) : list' = [list EXCEPT ![r] = results]
  /\ elapsed' = [elapsed EXCEPT ![r] = TimeTaken]
  /\ UNCHANGED <<shared, time, work, began, response>>

StopRankClock(r) ==
  /\ stage[r] = "ranked"
  /\ stage' = [stage EXCEPT ![r] = "timed"]
  /\ time' = elapsed[r]
  /\ UNCHANGED <<shared, work, list, elapsed, began, response>>

Respond(r) ==
  /\ stage[r] = "timed"
  /\ Answer(r, [response[r] EXCEPT !.keys = @ \cup {"ReRankSearchTime", "docs"},
                                   !.rankTime = time,
                                   !.docs = Ids(r),
                                   !.distances = Distances(r)])
  /\ UNCHANGED <<shared, time, work, list, elapsed, began>>

--------------------------------------------------------------------------------

HandleIdSearch(r) == IdSearch(r) \/ IdSearchFails(r)
HandleUrlSearch(r) == UrlSearch(r) \/ UrlUnreadable(r) \/ UrlNotExtracted(r)
HandleExtract(r) == Extract(r) \/ ExtractFails(r)
HandleHashSearch(r) == HashSearch(r) \/ HashSearchFails(r)
HandleRandomSearch(r) ==
  RandomSearch(r) \/ PickRandom(r) \/ PickFails(r) \/ RandomAnswer(r)

DoSearch(r) ==
  \/ StartSearchClock(r) \/ SearchIndex(r) \/ SearchThrows(r) \/ StopSearchClock(r)
  \/ ReportSearchTime(r)
  \/ StartRankClock(r) \/ Rank(r) \/ StopRankClock(r)
  \/ Respond(r)

HandleRequestBody(r) ==
  \/ HandleIdSearch(r) \/ HandleUrlSearch(r) \/ HandleExtract(r)
  \/ HandleHashSearch(r) \/ HandleRandomSearch(r)
  \/ DoSearch(r)

Next == Commit \/ Tick \/ \E r \in Requests : HandleRequestBody(r)

Spec == Init /\ [][Next]_vars

\* The server schedules the thread of every request.
FairSpec == Spec /\ \A r \in Requests : WF_vars(HandleRequestBody(r))

--------------------------------------------------------------------------------
(* Properties                                                              *)

Answered(r) == stage[r] = "answered"
Ended(r) == stage[r] \in {"answered", "exception"}
Kind(r) == Handler(request[r])

\* The document of the image in the snapshot of a request.
Own(r) == {d \in LiveDocs(searcher[r]) : searcher[r][d].image = Image(r)}

\* The image asked for is in the index with the field that is searched and, if the
\* client sent them, with the very feature and hashes it sent; the candidates were
\* not cut off and at least one result is wanted.
CanFindItself(r) ==
  /\ \E d \in Own(r) :
       /\ Field(r) \in FieldsOf(searcher[r][d])
       /\ Kind(r) = "hashes" => FeatureIn(searcher[r][d]) = queryFeature[r]
  /\ Cardinality(Found(r)) <= CandidateResultNumber
  /\ Rows(r) >= 1

\* An image found by its id, or by its hashes in the index's own notation, heads
\* the results with distance 0, whatever is committed, deleted, merged and searched
\* meanwhile: query, candidates, values and ids belong to one snapshot.
SelfFirst ==
  \A r \in Requests :
    (/\ Answered(r)
     /\ Kind(r) = "id" \/ (Kind(r) = "hashes" /\ request[r].base = 16)
     /\ "Error" \notin response[r].keys
     /\ CanFindItself(r)) =>
       /\ response[r].docs # <<>>
       /\ Head(response[r].distances) = 0
       /\ \A j \in DOMAIN response[r].docs :
            response[r].docs[j] = Image(r) => response[r].distances[j] = 0

\* A search that ends without an exception either lists documents, never more than
\* asked for, or says that there was an error; never both, never neither.
DocsOrError ==
  \A r \in Requests :
    Answered(r) /\ Kind(r) # "extract" =>
      /\ ("docs" \in response[r].keys) # ("Error" \in response[r].keys)
      /\ Len(response[r].docs) <= IF Rows(r) < 0 THEN 0 ELSE Rows(r)

\* Every request ends, a random one on an index full of deleted documents too.
EveryRequestEnds == \A r \in Requests : <>Ended(r)

--------------------------------------------------------------------------------
(* What a comment says and the code does not do                            *)

\* "Taking the time of search for statistical purposes": the time a response
\* reports is no longer than the time since its own search began.
TimeIsOwn ==
  \A r \in Requests :
    stage[r] = "reported" => response[r].searchTime <= now - began[r]

================================================================================
