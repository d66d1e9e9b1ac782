-------------------------------- MODULE ReRank --------------------------------
(***************************************************************************)
(* The second half of LireRequestHandler.doSearch(): the candidates that   *)
(* the index found by their hashes are compared with the query feature one *)
(* by one, and the nearest are kept in a sorted set of bounded size.       *)
(*                                                                         *)
(* A candidate is named by its document number; its distance to the query  *)
(* feature is given.  Float distances are numbers: only their order counts. *)
(***************************************************************************)
EXTENDS Integers, FiniteSets, SequencesExt

CONSTANTS Docs,        \* document numbers
          Distances,   \* possible distances to the query feature
          Rows         \* values of the request parameter "rows", not checked

ASSUME ReRankAssumption ==
  /\ Docs \subseteq Nat /\ IsFiniteSet(Docs)
  /\ Distances \subseteq Nat
  /\ Rows \subseteq Int

VARIABLES
  scoreDocs,        \* the candidates, in the order the index returned them
  distance,         \* distance of each document to the query feature
  maximumHits,      \* number of results asked for
  i,                \* candidates compared so far
  resultScoreDocs,  \* the sorted set of results
  maxDistance,      \* distance of the last result, -1 before there is one
  docs              \* the list in the response

query == <<scoreDocs, distance, maximumHits>>
vars == <<query, i, resultScoreDocs, maxDistance, docs>>

NoDocs == <<-1>>    \* the list is not in the response yet

\* The order of the sorted set, SimpleResult.compareTo: by distance, then by
\* document number, so that no two documents are equal.
Before(d, e) ==
  \/ distance[d] < distance[e]
  \/ distance[d] = distance[e] /\ d < e

\* last() of a sorted set.
LastOf(S) == CHOOSE d \in S : \A e \in S : e # d => Before(e, d)

\* Mutants: the border is not moved; a document number is taken for a distance.
BorderNotMoved(S) == maxDistance
BorderOfDocument(S) == IF S = {} THEN -1 ELSE LastOf(S)

\* The distance a candidate must stay below once there are enough results.
BorderOf(S) == IF S = {} THEN -1 ELSE distance[LastOf(S)]

Init ==
  /\ scoreDocs \in {s \in SeqOf(Docs, Cardinality(Docs)) : IsInjective(s)}
  /\ distance \in [Docs -> Distances]
  /\ maximumHits \in Rows
  /\ i = 0
  /\ resultScoreDocs = {}
  /\ maxDistance = -1
  /\ docs = NoDocs

\* The candidate of this round and its distance to the query feature.
Candidate == scoreDocs[i + 1]
TmpScore == distance[Candidate]

\* Mutant: one result too many.
HasRoomForOneMore == Cardinality(resultScoreDocs) <= maximumHits

HasRoom == Cardinality(resultScoreDocs) < maximumHits

\* The result set is not full: the candidate is added.
AddCandidate ==
  /\ i < Len(scoreDocs)
  /\ HasRoom
  /\ resultScoreDocs' = resultScoreDocs \cup {Candidate}
  /\ maxDistance' = BorderOf(resultScoreDocs')
  /\ i' = i + 1
  /\ UNCHANGED <<query, docs>>

\* The candidate is nearer than the last result and takes its place.
ReplaceLast ==
  /\ i < Len(scoreDocs)
  /\ ~HasRoom
  /\ TmpScore < maxDistance
  /\ resultScoreDocs' =
       (resultScoreDocs \ {LastOf(resultScoreDocs)}) \cup {Candidate}
  /\ maxDistance' = BorderOf(resultScoreDocs')
  /\ i' = i + 1
  /\ UNCHANGED <<query, docs>>

SkipCandidate ==
  /\ i < Len(scoreDocs)
  /\ ~HasRoom
  /\ ~(TmpScore < maxDistance)
  /\ i' = i + 1
  /\ UNCHANGED <<query, resultScoreDocs, maxDistance, docs>>

\* Mutant: the set is iterated from its end.
LastFirst(S) ==
  CHOOSE s \in [1..Cardinality(S) -> S] : \A j, k \in DOMAIN s : j < k => Before(s[k], s[j])

\* The iteration order of the sorted set.
InOrder(S) ==
  CHOOSE s \in [1..Cardinality(S) -> S] : \A j, k \in DOMAIN s : j < k => Before(s[j], s[k])

\* The results go into the response, nearest first.
Respond ==
  /\ i = Len(scoreDocs)
  /\ docs = NoDocs
  /\ docs' = InOrder(resultScoreDocs)
  /\ UNCHANGED <<query, i, resultScoreDocs, maxDistance>>

Done == docs # NoDocs /\ UNCHANGED vars

Next == AddCandidate \/ ReplaceLast \/ SkipCandidate \/ Respond \/ Done

Spec == Init /\ [][Next]_vars

--------------------------------------------------------------------------------
(* Invariants                                                              *)

Seen == {scoreDocs[j] : j \in 1..i}

\* How many results n candidates can give.
Wanted(n) ==
  IF maximumHits < 0 THEN 0 ELSE IF n < maximumHits THEN n ELSE maximumHits

TypeOK ==
  /\ scoreDocs \in Seq(Docs)
  /\ distance \in [Docs -> Distances]
  /\ maximumHits \in Rows
  /\ i \in 0..Len(scoreDocs)
  /\ resultScoreDocs \subseteq Docs
  /\ maxDistance \in Distances \cup {-1}
  /\ docs = NoDocs \/ docs \in Seq(Docs)

\* The results are always the nearest of the candidates seen, as many as were asked
\* for: no candidate outside is nearer than one inside.  Ties may go either way.
NearestKept ==
  /\ resultScoreDocs \subseteq Seen
  /\ Cardinality(resultScoreDocs) = Wanted(i)
  /\ \A d \in resultScoreDocs, e \in Seen \ resultScoreDocs :
        distance[d] <= distance[e]

\* The distances in the response are the first ones of all candidates' distances
\* in ascending order, whatever order the index returned the candidates in.
ResponseIsPrefix ==
  docs # NoDocs =>
    \E order \in [DOMAIN scoreDocs -> DOMAIN scoreDocs] :
      LET all == [j \in DOMAIN order |-> distance[scoreDocs[order[j]]]]
      IN  /\ IsInjective(order)
          /\ \A j, k \in DOMAIN order : j < k => all[j] <= all[k]
          /\ [j \in DOMAIN docs |-> distance[docs[j]]] =
               [j \in 1..Wanted(Len(scoreDocs)) |-> all[j]]

================================================================================
