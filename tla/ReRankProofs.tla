----------------------------- MODULE ReRankProofs -----------------------------
(***************************************************************************)
(* The re-ranking loop keeps the nearest candidates, for any candidate     *)
(* list, any distances and any number of rows asked for.                   *)
(***************************************************************************)
EXTENDS ReRank, DataLemmas

\* The candidates are distinct documents; the loop is within the list.
LoopInv ==
  /\ scoreDocs \in Seq(Docs)
  /\ IsInjective(scoreDocs)
  /\ distance \in [Docs -> Distances]
  /\ maximumHits \in Rows \cap Int
  /\ i \in 0..Len(scoreDocs)
  /\ IsFiniteSet(Seen)
  /\ Cardinality(Seen) = i

IsLast(d, S) == d \in S /\ \A e \in S : e # d => Before(e, d)

\* Every set of seen candidates has a last element, so that last() is defined.
LastInv == \A S \in SUBSET Seen : S # {} => \E d \in S : IsLast(d, S)

BorderInv == maxDistance = BorderOf(resultScoreDocs)

IInv == LoopInv /\ LastInv /\ BorderInv /\ NearestKept

LEMMA LastOfIsLast ==
  ASSUME LastInv, NEW S \in SUBSET Seen, S # {}
  PROVE  IsLast(LastOf(S), S)
  BY DEF LastInv, IsLast, LastOf

\* A round of the loop adds one new document to the seen ones, and every set of
\* them still has a last element.
LEMMA SeenGrows ==
  ASSUME LoopInv, LastInv, i < Len(scoreDocs), i' = i + 1, UNCHANGED query
  PROVE  /\ LoopInv' /\ LastInv'
         /\ Candidate \in Docs \ Seen
         /\ Seen' = Seen \cup {Candidate}
         /\ Seen \subseteq Docs
         /\ i \in Nat
  <1>1. /\ i \in Nat /\ i + 1 \in 1..Len(scoreDocs)
        /\ DOMAIN scoreDocs = 1..Len(scoreDocs)
        /\ UNCHANGED <<scoreDocs, distance, maximumHits>>
    BY LenProperties DEF LoopInv, query
  <1>2. Candidate \in Docs /\ Seen \subseteq Docs
    BY <1>1, ElementOfSeq DEF LoopInv, Candidate, Seen
  <1>3. Candidate \notin Seen
    BY <1>1 DEF LoopInv, IsInjective, Seen, Candidate
  <1>4. Seen' = Seen \cup {Candidate}
    BY <1>1 DEF Seen, Candidate
  <1>5. IsFiniteSet(Seen') /\ Cardinality(Seen') = i'
    BY <1>1, <1>3, <1>4, FS_AddElement DEF LoopInv
  <1>6. LoopInv'
    BY <1>1, <1>5 DEF LoopInv
  <1>7. LastInv'
    <2> DEFINE c == Candidate
    <2>1. \A d, e : Before(d, e)' <=> Before(d, e)
      BY <1>1 DEF Before
    <2>2. SUFFICES ASSUME NEW S \in SUBSET (Seen \cup {c}), S # {}
                   PROVE  \E d \in S : IsLast(d, S)
      BY <1>4, <2>1 DEF LastInv, IsLast
    <2>0. \A d \in Docs : d \in Nat /\ distance[d] \in Nat
      BY ReRankAssumption DEF LoopInv
    <2>3. \A d, e \in Docs : d # e => Before(d, e) \/ Before(e, d)
      BY <2>0 DEF Before
    <2>4. \A d, e, f \in Docs : Before(d, e) /\ Before(e, f) => Before(d, f)
      BY <2>0 DEF Before
    <2>5. CASE c \notin S
      <3>1. S \in SUBSET Seen
        BY <2>5
      <3> QED
        BY <2>2, <3>1 DEF LastInv
    <2>6. CASE S = {c}
      BY <2>6 DEF IsLast
    <2>7. CASE c \in S /\ S # {c}
      <3>1. S \ {c} \in SUBSET Seen /\ S \ {c} # {}
        BY <2>7
      <3>2. PICK d \in S \ {c} : IsLast(d, S \ {c})
        BY <3>1 DEF LastInv
      <3>3. S \subseteq Docs
        BY <1>2
      <3>4. CASE Before(c, d)
        BY <3>2, <3>4 DEF IsLast
      <3>5. CASE Before(d, c)
        BY <2>4, <2>7, <3>2, <3>3, <3>5 DEF IsLast
      <3> QED
        BY <1>2, <2>3, <3>2, <3>3, <3>4, <3>5
    <2> QED
      BY <2>5, <2>6, <2>7
  <1> QED
    BY <1>1, <1>2, <1>3, <1>4, <1>6, <1>7

LEMMA InitIInv == Init => IInv
  <1> SUFFICES ASSUME Init PROVE IInv
    OBVIOUS
  <1>1. Cardinality(Docs) \in Nat
    BY ReRankAssumption, FS_CardinalityType
  <1>2. scoreDocs \in Seq(Docs)
    BY <1>1, SeqDef DEF Init, SeqOf
  <1>3. Seen = {}
    BY DEF Init, Seen
  <1>4. LoopInv
    BY <1>2, <1>3, FS_EmptySet, LenProperties, ReRankAssumption DEF LoopInv, Init
  <1>5. NearestKept
    BY <1>3, <1>4, FS_EmptySet DEF NearestKept, Init, Wanted, LoopInv
  <1> QED
    BY <1>3, <1>4, <1>5 DEF IInv, LastInv, BorderInv, BorderOf, Init

LEMMA AddStep == IInv /\ AddCandidate => IInv'
  <1> SUFFICES ASSUME IInv, AddCandidate PROVE IInv'
    OBVIOUS
  <1>1. /\ LoopInv' /\ LastInv'
        /\ Candidate \in Docs \ Seen
        /\ Seen' = Seen \cup {Candidate}
        /\ i \in Nat /\ i' = i + 1
        /\ maximumHits' = maximumHits /\ maximumHits \in Int
    BY SeenGrows DEF IInv, AddCandidate, query, LoopInv
  <1>2. /\ resultScoreDocs \subseteq Seen
        /\ Cardinality(resultScoreDocs) = Wanted(i)
        /\ Cardinality(resultScoreDocs) < maximumHits
    BY DEF IInv, NearestKept, AddCandidate, HasRoom
  <1>3. Cardinality(resultScoreDocs) = i /\ i < maximumHits
    BY <1>1, <1>2 DEF Wanted
  <1>4. resultScoreDocs = Seen
    BY <1>2, <1>3, FS_Subset DEF IInv, LoopInv
  <1>5. resultScoreDocs' = Seen'
    BY <1>1, <1>4 DEF AddCandidate
  <1>6. Cardinality(resultScoreDocs') = Wanted(i)'
    BY <1>1, <1>3, <1>5 DEF LoopInv, Wanted
  <1>7. NearestKept'
    BY <1>5, <1>6 DEF NearestKept
  <1>8. BorderInv'
    BY <1>1 DEF BorderInv, AddCandidate, BorderOf, LastOf, Before, query
  <1> QED
    BY <1>1, <1>7, <1>8 DEF IInv

LEMMA ReplaceStep == IInv /\ ReplaceLast => IInv'
  <1> SUFFICES ASSUME IInv, ReplaceLast PROVE IInv'
    OBVIOUS
  <1> DEFINE last == LastOf(resultScoreDocs)
  <1>1. /\ LoopInv' /\ LastInv'
        /\ Candidate \in Docs \ Seen
        /\ Seen' = Seen \cup {Candidate} /\ Seen \subseteq Docs
        /\ i \in Nat /\ i' = i + 1
        /\ UNCHANGED <<distance, maximumHits>> /\ maximumHits \in Int
        /\ distance \in [Docs -> Nat]
    BY SeenGrows, ReRankAssumption DEF IInv, ReplaceLast, query, LoopInv
  <1>2. /\ resultScoreDocs \subseteq Seen
        /\ Cardinality(resultScoreDocs) = Wanted(i)
        /\ ~(Cardinality(resultScoreDocs) < maximumHits)
        /\ distance[Candidate] < BorderOf(resultScoreDocs)
    BY DEF IInv, NearestKept, ReplaceLast, HasRoom, BorderInv, TmpScore
  <1>3. resultScoreDocs # {}
    BY <1>1, <1>2 DEF BorderOf
  <1>4. IsLast(last, resultScoreDocs) /\ distance[Candidate] < distance[last]
    BY <1>2, <1>3, LastOfIsLast DEF IInv, BorderOf
  <1>5. last \in Docs /\ \A d \in resultScoreDocs : distance[d] <= distance[last]
    BY <1>1, <1>2, <1>4 DEF IsLast, Before
  <1>6. resultScoreDocs' = (resultScoreDocs \ {last}) \cup {Candidate}
    BY DEF ReplaceLast
  <1>7. Cardinality(resultScoreDocs') = Wanted(i)'
    <2>1. IsFiniteSet(resultScoreDocs)
      BY <1>2, FS_Subset DEF IInv, LoopInv
    <2>2. /\ IsFiniteSet(resultScoreDocs \ {last})
          /\ Cardinality(resultScoreDocs \ {last}) = Cardinality(resultScoreDocs) - 1
      BY <1>4, <2>1, FS_RemoveElement DEF IsLast
    <2>3. Cardinality(resultScoreDocs') = Cardinality(resultScoreDocs) - 1 + 1
      BY <1>1, <1>2, <1>6, <2>2, FS_AddElement
    <2>4. Wanted(i)' = Wanted(i) /\ Wanted(i) \in Nat
      BY <1>1, <1>2 DEF Wanted
    <2> QED
      BY <1>2, <2>3, <2>4
  <1>8. \A d \in resultScoreDocs', e \in Seen' \ resultScoreDocs' :
           distance[d] <= distance[e]
    <2> SUFFICES ASSUME NEW d \in resultScoreDocs', NEW e \in Seen' \ resultScoreDocs'
                 PROVE  distance[d] <= distance[e]
      OBVIOUS
    <2>1. d \in Docs /\ e \in Docs
      BY <1>1, <1>2, <1>6
    <2>2. distance[d] <= distance[last]
      BY <1>1, <1>4, <1>5, <1>6
    <2>3. distance[last] <= distance[e]
      <3>1. e = last \/ e \in Seen \ resultScoreDocs
        BY <1>1, <1>6
      <3>2. last \in resultScoreDocs
        BY <1>4 DEF IsLast
      <3> QED
        BY <1>1, <1>5, <3>1, <3>2 DEF IInv, NearestKept
    <2> QED
      BY <1>1, <1>5, <2>1, <2>2, <2>3
  <1>9. NearestKept'
    BY <1>1, <1>2, <1>6, <1>7, <1>8 DEF NearestKept
  <1>10. BorderInv'
    BY DEF BorderInv, ReplaceLast, BorderOf, LastOf, Before, query
  <1> QED
    BY <1>1, <1>9, <1>10 DEF IInv

LEMMA SkipStep == IInv /\ SkipCandidate => IInv'
  <1> SUFFICES ASSUME IInv, SkipCandidate PROVE IInv'
    OBVIOUS
  <1>1. /\ LoopInv' /\ LastInv'
        /\ Candidate \in Docs \ Seen
        /\ Seen' = Seen \cup {Candidate} /\ Seen \subseteq Docs
        /\ i \in Nat /\ i' = i + 1
        /\ UNCHANGED <<distance, maximumHits, resultScoreDocs, maxDistance>>
        /\ maximumHits \in Int
        /\ distance \in [Docs -> Nat]
    BY SeenGrows, ReRankAssumption DEF IInv, SkipCandidate, query, LoopInv
  <1>2. /\ resultScoreDocs \subseteq Seen
        /\ Cardinality(resultScoreDocs) = Wanted(i)
        /\ ~(Cardinality(resultScoreDocs) < maximumHits)
        /\ ~(distance[Candidate] < BorderOf(resultScoreDocs))
    BY DEF IInv, NearestKept, SkipCandidate, HasRoom, BorderInv, TmpScore
  <1>3. Wanted(i)' = Wanted(i)
    BY <1>1, <1>2 DEF Wanted
  <1>4. \A d \in resultScoreDocs : distance[d] <= distance[Candidate]
    <2> SUFFICES ASSUME NEW d \in resultScoreDocs PROVE distance[d] <= distance[Candidate]
      OBVIOUS
    <2>1. IsLast(LastOf(resultScoreDocs), resultScoreDocs)
      BY <1>2, LastOfIsLast DEF IInv
    <2>2. /\ distance[d] <= distance[LastOf(resultScoreDocs)]
          /\ LastOf(resultScoreDocs) \in Docs /\ d \in Docs
      BY <1>1, <1>2, <2>1 DEF IsLast, Before
    <2> QED
      BY <1>1, <1>2, <2>2 DEF BorderOf
  <1>5. NearestKept'
    BY <1>1, <1>2, <1>3, <1>4 DEF NearestKept, IInv
  <1>6. BorderInv'
    BY <1>1 DEF IInv, BorderInv, BorderOf, LastOf, Before
  <1> QED
    BY <1>1, <1>5, <1>6 DEF IInv

\* A step keeps the invariant.
LEMMA StepIInv == IInv /\ [Next]_vars => IInv'
  <1> SUFFICES ASSUME IInv, [Next]_vars PROVE IInv'
    OBVIOUS
  <1>1. CASE UNCHANGED <<query, i, resultScoreDocs, maxDistance>>
    <2> USE <1>1 DEF query
    <2>1. LoopInv' /\ Seen' = Seen
      BY DEF IInv, LoopInv, Seen
    <2>2. LastInv'
      BY <2>1 DEF IInv, LastInv, IsLast, Before
    <2>3. BorderInv'
      BY DEF IInv, BorderInv, BorderOf, LastOf, Before
    <2>4. NearestKept'
      BY <2>1 DEF IInv, NearestKept, Wanted
    <2> QED
      BY <2>1, <2>2, <2>3, <2>4 DEF IInv
  <1> QED
    BY <1>1, AddStep, ReplaceStep, SkipStep DEF Next, Respond, Done, vars

\* At every moment the result set holds the nearest of the candidates compared so
\* far, as many as were asked for.
THEOREM NearestAreKept == Spec => []NearestKept
  <1>1. IInv => NearestKept
    BY DEF IInv
  <1> QED
    BY <1>1, InitIInv, StepIInv, PTL DEF Spec

--------------------------------------------------------------------------------
(* The response                                                            *)

InOrderPairs == {p \in Docs \X Docs : Before(p[1], p[2])}

\* The iteration of a set of documents gives each of them once, in their order.
LEMMA InOrderLists ==
  ASSUME distance \in [Docs -> Distances], NEW S \in SUBSET Docs
  PROVE  /\ Cardinality(S) \in Nat
         /\ InOrder(S) \in [1..Cardinality(S) -> S]
         /\ \A j, k \in 1..Cardinality(S) : j < k => Before(InOrder(S)[j], InOrder(S)[k])
         /\ \A j, k \in 1..Cardinality(S) : InOrder(S)[j] = InOrder(S)[k] => j = k
         /\ \A d \in S : \E j \in 1..Cardinality(S) : InOrder(S)[j] = d
  <1>1. IsFiniteSet(S) /\ Cardinality(S) \in Nat
    BY ReRankAssumption, FS_Subset, FS_CardinalityType
  <1>2. \A d \in Docs : d \in Nat /\ distance[d] \in Nat
    BY ReRankAssumption
  <1>3. InLine(S, InOrderPairs)
    BY <1>2 DEF InLine, InOrderPairs, Before
  <1>4. PICK s : s \in Listing(S, InOrderPairs)
    BY <1>1, <1>3, ListingExists
  <1>5. /\ s \in [1..Cardinality(S) -> S]
        /\ \A j, k \in DOMAIN s : j < k => Before(s[j], s[k])
    BY <1>4 DEF Listing, InOrderPairs
  <1>6. /\ InOrder(S) \in [1..Cardinality(S) -> S]
        /\ \A j, k \in DOMAIN InOrder(S) : j < k => Before(InOrder(S)[j], InOrder(S)[k])
    BY <1>5 DEF InOrder
  <1>7. InOrder(S) \in Listing(S, InOrderPairs)
    BY <1>6 DEF Listing, InOrderPairs
  <1> QED
    BY <1>1, <1>3, <1>6, <1>7, ListingOnto

\* The list is made of all results, after the last candidate.
DocsInv == docs = NoDocs \/ (i = Len(scoreDocs) /\ docs = InOrder(resultScoreDocs))

RInv == IInv /\ DocsInv

LEMMA InitRInv == Init => RInv
  BY InitIInv DEF RInv, DocsInv, Init

LEMMA StepRInv == RInv /\ [Next]_vars => RInv'
  <1> SUFFICES ASSUME RInv, [Next]_vars PROVE RInv'
    OBVIOUS
  <1>1. IInv'
    BY StepIInv DEF RInv
  <1>2. DocsInv'
    <2>1. i \in Nat /\ Len(scoreDocs) \in Nat
      BY LenProperties DEF RInv, IInv, LoopInv
    <2>2. CASE AddCandidate \/ ReplaceLast \/ SkipCandidate
      BY <2>1, <2>2 DEF RInv, DocsInv, AddCandidate, ReplaceLast, SkipCandidate, query
    <2>3. CASE Respond
      BY <2>3 DEF DocsInv, Respond, InOrder, Before, query
    <2>4. CASE UNCHANGED vars
      BY <2>4 DEF RInv, DocsInv, InOrder, Before, vars, query
    <2> QED
      BY <2>2, <2>3, <2>4 DEF Next, Done
  <1> QED
    BY <1>1, <1>2 DEF RInv

LEMMA RInvTypeOK == RInv => TypeOK
  <1> SUFFICES ASSUME RInv PROVE TypeOK
    OBVIOUS
  <1>1. LoopInv /\ LastInv /\ BorderInv /\ NearestKept /\ DocsInv
    BY DEF RInv, IInv
  <1>2. Seen \subseteq Docs
    <2>1. DOMAIN scoreDocs = 1..Len(scoreDocs) /\ Len(scoreDocs) \in Nat
      BY <1>1, LenProperties DEF LoopInv
    <2> QED
      BY <1>1, <2>1, ElementOfSeq DEF LoopInv, Seen
  <1>3. resultScoreDocs \subseteq Docs
    BY <1>1, <1>2 DEF NearestKept
  <1>4. maxDistance \in Distances \cup {-1}
    <2>1. CASE resultScoreDocs # {}
      <3>1. LastOf(resultScoreDocs) \in Docs
        BY <1>1, <1>3, <2>1, LastOfIsLast DEF NearestKept, IsLast
      <3> QED
        BY <1>1, <2>1, <3>1 DEF BorderInv, BorderOf, LoopInv
    <2>2. CASE resultScoreDocs = {}
      BY <1>1, <2>2 DEF BorderInv, BorderOf
    <2> QED
      BY <2>1, <2>2
  <1>5. docs = NoDocs \/ docs \in Seq(Docs)
    <2>1. ASSUME docs = InOrder(resultScoreDocs) PROVE docs \in Seq(Docs)
      <3>1. docs \in [1..Cardinality(resultScoreDocs) -> Docs] /\ Cardinality(resultScoreDocs) \in Nat
        BY <1>1, <1>3, <2>1, InOrderLists DEF LoopInv
      <3> QED
        BY <3>1, SeqDef
    <2> QED
      BY <1>1, <2>1 DEF DocsInv
  <1> QED
    BY <1>1, <1>3, <1>4, <1>5 DEF TypeOK, LoopInv, IInv

\* Every variable of the loop keeps its type: the border is a distance or -1, the
\* list in the response is one of documents.
THEOREM TypesAreRight == Spec => []TypeOK
  BY InitRInv, StepRInv, RInvTypeOK, PTL DEF Spec

\* All candidates, listed by their distance, begin with the results.
LEMMA RInvResponseIsPrefix == RInv => ResponseIsPrefix
  <1> SUFFICES ASSUME RInv, docs # NoDocs
               PROVE  ResponseIsPrefix
    BY DEF ResponseIsPrefix
  <1> DEFINE n == Len(scoreDocs)
             kept == resultScoreDocs
             others == Seen \ kept
             w == Cardinality(kept)
             rest == InOrder(others)
             listed == [j \in 1..n |-> IF j <= w THEN docs[j] ELSE rest[j - w]]
             order == [j \in 1..n |-> CHOOSE p \in 1..n : scoreDocs[p] = listed[j]]
  <1>1. /\ scoreDocs \in Seq(Docs) /\ distance \in [Docs -> Nat]
        /\ distance \in [Docs -> Distances]
        /\ IsInjective(scoreDocs)
        /\ n \in Nat /\ DOMAIN scoreDocs = 1..n
        /\ i = n /\ docs = InOrder(kept)
    BY LenProperties, ReRankAssumption DEF RInv, IInv, LoopInv, DocsInv
  <1>2. /\ Seen = {scoreDocs[p] : p \in 1..n} /\ Seen \subseteq Docs
        /\ IsFiniteSet(Seen) /\ Cardinality(Seen) = n
    BY <1>1, ElementOfSeq DEF RInv, IInv, LoopInv, Seen
  <1>3. /\ kept \subseteq Seen /\ w = Wanted(n)
        /\ \A d \in kept, e \in others : distance[d] <= distance[e]
    BY <1>1 DEF RInv, IInv, NearestKept
  <1>4. w \in Nat /\ w <= n /\ Cardinality(others) = n - w
    <2>0. IsFiniteSet(kept) /\ Cardinality(kept) <= Cardinality(Seen)
      BY <1>2, <1>3, FS_Subset
    <2>1. IsFiniteSet(kept) /\ w \in Nat /\ w <= n
      <3> HIDE DEF kept, n
      <3>1. w \in Nat
        BY <2>0, FS_CardinalityType
      <3> QED
        BY <1>2, <2>0, <3>1
    <2>2. Seen \cap kept = kept
      BY <1>3
    <2>3. Cardinality(others) = Cardinality(Seen) - Cardinality(Seen \cap kept)
      BY <1>2, FS_Difference
    <2> QED
      BY <1>2, <2>1, <2>2, <2>3
  <1>5. /\ docs \in [1..w -> kept]
        /\ \A j, k \in 1..w : j < k => Before(docs[j], docs[k])
        /\ \A j, k \in 1..w : docs[j] = docs[k] => j = k
    BY <1>1, <1>2, <1>3, InOrderLists
  <1>6. /\ rest \in [1..(n - w) -> others]
        /\ \A j, k \in 1..(n - w) : j < k => Before(rest[j], rest[k])
        /\ \A j, k \in 1..(n - w) : rest[j] = rest[k] => j = k
    BY <1>1, <1>2, <1>4, InOrderLists
  <1> HIDE DEF rest, w
  <1>7. \A j \in 1..n : /\ j <= w => j \in 1..w /\ listed[j] = docs[j]
                        /\ ~(j <= w) => j - w \in 1..(n - w) /\ listed[j] = rest[j - w]
    BY <1>1, <1>4
  <1>8. \A j \in 1..n : listed[j] \in Seen /\ (listed[j] \in kept <=> j <= w)
    BY <1>3, <1>5, <1>6, <1>7
  <1>9. ASSUME NEW j \in 1..n, NEW k \in 1..n, listed[j] = listed[k] PROVE j = k
    <2>1. (j <= w) <=> (k <= w)
      BY <1>8, <1>9
    <2>2. CASE j <= w
      BY <1>5, <1>7, <1>9, <2>1, <2>2
    <2>3. CASE ~(j <= w)
      <3>1. j - w = k - w
        BY <1>6, <1>7, <1>9, <2>1, <2>3
      <3> QED
        BY <1>1, <1>4, <3>1
    <2> QED
      BY <2>2, <2>3
  <1>10. ASSUME NEW j \in 1..n, NEW k \in 1..n, j < k
         PROVE  distance[listed[j]] <= distance[listed[k]]
    <2>0. \A d, e \in Docs : Before(d, e) => distance[d] <= distance[e]
      BY <1>1 DEF Before
    <2>1. listed[j] \in Docs /\ listed[k] \in Docs
      BY <1>2, <1>8
    <2>2. CASE k <= w
      BY <1>1, <1>4, <1>5, <1>7, <1>10, <2>0, <2>1, <2>2
    <2>3. CASE j <= w /\ ~(k <= w)
      BY <1>3, <1>8, <2>3
    <2>4. CASE ~(j <= w) /\ ~(k <= w)
      <3>1. j - w < k - w
        BY <1>1, <1>4, <1>10
      <3> QED
        BY <1>6, <1>7, <2>0, <2>1, <2>4, <3>1
    <2> QED
      BY <1>1, <1>4, <1>10, <2>2, <2>3, <2>4
  <1> HIDE DEF listed
  <1>11. \A j \in 1..n : order[j] \in 1..n /\ scoreDocs[order[j]] = listed[j]
    BY <1>2, <1>8
  <1>12. order \in [1..n -> 1..n]
    BY <1>11
  <1>13. IsInjective(order)
    BY <1>9, <1>11, <1>12 DEF IsInjective
  <1>14. DOMAIN order = 1..n /\ DOMAIN docs = 1..w /\ w = Wanted(Len(scoreDocs))
    BY <1>3, <1>5
  <1> HIDE DEF order, n
  <1>15. \A j \in 1..w : j \in 1..n /\ distance[scoreDocs[order[j]]] = distance[docs[j]]
    <2>1. \A j \in 1..w : j \in 1..n /\ j <= w
      BY <1>1, <1>4
    <2> QED
      BY <1>7, <1>11, <2>1
  <1> DEFINE all == [j \in DOMAIN order |-> distance[scoreDocs[order[j]]]]
  <1>16. \A j, k \in DOMAIN order : j < k => all[j] <= all[k]
    BY <1>10, <1>11, <1>14
  <1>17. [j \in DOMAIN docs |-> distance[docs[j]]] =
           [j \in 1..Wanted(Len(scoreDocs)) |-> all[j]]
    <2>1. \A j \in 1..w : all[j] = distance[docs[j]]
      BY <1>14, <1>15
    <2> QED
      BY <1>14, <2>1
  <1>18. order \in [DOMAIN scoreDocs -> DOMAIN scoreDocs]
    BY <1>1, <1>12
  <1> QED
    BY <1>13, <1>16, <1>17, <1>18 DEF ResponseIsPrefix

\* Whatever order the index returns the candidates in, the response gives the
\* distances of the nearest of them, as many as were asked for, in ascending order.
THEOREM ResponseIsSorted == Spec => []ResponseIsPrefix
  BY InitRInv, StepRInv, RInvResponseIsPrefix, PTL DEF Spec

================================================================================
