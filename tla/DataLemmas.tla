------------------------------- MODULE DataLemmas -------------------------------
(***************************************************************************)
(* Facts about finite sets and sequences that several proofs need.         *)
(* Induction is stated with the set of the things that are as they should  *)
(* be, instead of a predicate: if a smallest one were not in it, it would  *)
(* be.                                                                     *)
(***************************************************************************)
EXTENDS Integers, Sequences, SequencesExt, FiniteSetTheorems, SequenceTheorems, TLAPS

\* Induction over the subsets of a finite set: from a set without one of its elements
\* to the set.
LEMMA SubsetInduction ==
  ASSUME NEW S, IsFiniteSet(S), NEW Good,
         {} \in Good,
         \A T \in SUBSET S : T # {} => \E x \in T : T \ {x} \in Good => T \in Good
  PROVE  \A T \in SUBSET S : T \in Good
  <1> DEFINE Bad == {T \in SUBSET S : T \notin Good}
             R == StrictSubsetOrdering(S)
  <1> SUFFICES ASSUME Bad # {} PROVE FALSE
    OBVIOUS
  <1>1. IsWellFoundedOn(R, SUBSET S)
    <2>1. FiniteSubsetsOf(S) = SUBSET S
      BY FS_FiniteSubsetsOfFinite
    <2>2. IsWellFoundedOn(StrictSubsetOrdering(S), FiniteSubsetsOf(S))
      BY FS_StrictSubsetOrderingWellFounded
    <2> QED
      BY <2>1, <2>2
  <1>2. PICK T \in Bad : \A U \in Bad : ~(<<U, T>> \in R)
    <2>1. Bad \subseteq SUBSET S
      OBVIOUS
    <2> HIDE DEF Bad, R
    <2> QED
      BY <1>1, <2>1, WFMin
  <1>3. PICK x \in T : T \ {x} \in Good => T \in Good
    OBVIOUS
  <1>4. T \ {x} \in Good
    <2>1. <<T \ {x}, T>> \in R
      BY DEF StrictSubsetOrdering
    <2> QED
      BY <1>2, <2>1
  <1> QED
    BY <1>3, <1>4

\* Induction over the numbers up to n.
LEMMA UpToInduction ==
  ASSUME NEW n \in Nat, NEW Good, 0 \in Good,
         \A k \in Nat : k < n /\ k \in Good => k + 1 \in Good
  PROVE  \A k \in 0..n : k \in Good
  <1> DEFINE Below == {T \in SUBSET (1..n) : \A k \in 0..n : T = 1..k => k \in Good}
  <1>1. IsFiniteSet(1..n)
    BY FS_Interval, 1 \in Int, n \in Int
  <1>2. {} \in Below
    OBVIOUS
  <1>3. ASSUME NEW T \in SUBSET (1..n), T # {}
        PROVE  \E x \in T : T \ {x} \in Below => T \in Below
    <2>1. CASE \E k \in 1..n : T = 1..k
      <3>1. PICK k \in 1..n : T = 1..k
        BY <2>1
      <3>2. T \ {k} = 1..(k - 1) /\ k \in T /\ k - 1 \in 0..n /\ k - 1 \in Nat /\ k - 1 < n
        BY <3>1
      <3>3. ASSUME NEW j \in 0..n, T = 1..j PROVE j = k
        <4>1. j \in 1..k /\ k \in 1..j
          BY <3>1, <3>3, <1>3
        <4> QED
          BY <4>1
      <3>4. T \ {k} \in Below => k - 1 \in Good
        BY <3>2
      <3>5. k - 1 \in Good => k \in Good
        BY <3>2
      <3> QED
        BY <3>2, <3>3, <3>4, <3>5
    <2>2. CASE ~\E k \in 1..n : T = 1..k
      <3>1. \A k \in 0..n : T # 1..k
        BY <1>3, <2>2
      <3> QED
        BY <1>3, <3>1
    <2> QED
      BY <2>1, <2>2
  <1>4. \A T \in SUBSET (1..n) : T \in Below
    <2> HIDE DEF Below
    <2> QED
      BY <1>1, <1>2, <1>3, SubsetInduction
  <1> QED
    <2> SUFFICES ASSUME NEW k \in 0..n PROVE k \in Good
      OBVIOUS
    <2>1. 1..k \in SUBSET (1..n)
      OBVIOUS
    <2> QED
      BY <1>4, <2>1

\* A function on 1..n is a sequence of length n.
LEMMA FunctionIsSeq ==
  ASSUME NEW S, NEW n \in Nat, NEW f \in [1..n -> S]
  PROVE  f \in Seq(S) /\ Len(f) = n
  <1>1. f \in Seq(S)
    BY SeqDef
  <1>2. DOMAIN f = 1..Len(f) /\ Len(f) \in Nat /\ DOMAIN f = 1..n
    BY <1>1, LenProperties
  <1> QED
    BY <1>1, <1>2

\* A sequence with one element more.
LEMMA OneMore ==
  ASSUME NEW S, NEW s \in Seq(S), NEW x \in S
  PROVE  /\ s \o <<x>> \in Seq(S)
         /\ Len(s) \in Nat /\ Len(s \o <<x>>) = Len(s) + 1
  <1>1. <<x>> \in Seq(S) /\ Len(<<x>>) = 1
    OBVIOUS
  <1> QED
    BY <1>1, ConcatProperties, LenProperties

-------------------------------------------------------------------------------
(* Sequences of anything.                                                     *)

Items(s) == {s[j] : j \in 1..Len(s)}
IsSeq(s) == s \in Seq(Items(s))

LEMMA IsSeqFacts ==
  ASSUME NEW s, IsSeq(s)
  PROVE  /\ Len(s) \in Nat /\ DOMAIN s = 1..Len(s)
         /\ s = <<>> <=> Len(s) = 0
  <1>1. s \in Seq(Items(s))
    BY DEF IsSeq
  <1> QED
    BY <1>1, LenProperties, EmptySeq

LEMMA SeqIsSeq ==
  ASSUME NEW S, NEW s \in Seq(S)
  PROVE  IsSeq(s) /\ Items(s) \subseteq S
  <1>1. Len(s) \in Nat /\ s \in [1..Len(s) -> S] /\ DOMAIN s = 1..Len(s)
    BY LenProperties
  <1>2. s \in [1..Len(s) -> Items(s)]
    BY <1>1 DEF Items
  <1>3. s \in Seq(Items(s))
    BY <1>1, <1>2, FunctionIsSeq
  <1> QED
    BY <1>1, <1>3 DEF Items, IsSeq

LEMMA ItemsInSeq ==
  ASSUME NEW S, NEW s, IsSeq(s), Items(s) \subseteq S
  PROVE  s \in Seq(S)
  <1>1. s \in [1..Len(s) -> Items(s)] /\ Len(s) \in Nat
    BY LenProperties DEF IsSeq
  <1>2. s \in [1..Len(s) -> S]
    BY <1>1
  <1> QED
    BY <1>1, <1>2, FunctionIsSeq

LEMMA ConcatIsSeq ==
  ASSUME NEW s, IsSeq(s), NEW t, IsSeq(t)
  PROVE  /\ IsSeq(s \o t)
         /\ Len(s \o t) = Len(s) + Len(t)
         /\ \A j \in 1..Len(s) : (s \o t)[j] = s[j]
         /\ \A j \in 1..Len(t) : (s \o t)[Len(s) + j] = t[j]
         /\ \A j \in 1..Len(s \o t) : (s \o t)[j] = IF j <= Len(s) THEN s[j] ELSE t[j - Len(s)]
         /\ Items(s \o t) = Items(s) \cup Items(t)
  <1> DEFINE S == Items(s) \cup Items(t)
             u == s \o t
  <1>1. s \in Seq(S) /\ t \in Seq(S) /\ Len(s) \in Nat /\ Len(t) \in Nat
    <2>1. s \in Seq(Items(s)) /\ t \in Seq(Items(t))
      BY DEF IsSeq
    <2>2. s \in [1..Len(s) -> Items(s)] /\ t \in [1..Len(t) -> Items(t)]
          /\ Len(s) \in Nat /\ Len(t) \in Nat
      BY <2>1, LenProperties
    <2>3. s \in [1..Len(s) -> S] /\ t \in [1..Len(t) -> S]
      BY <2>2
    <2> HIDE DEF S
    <2> QED
      BY <2>2, <2>3, FunctionIsSeq
  <1> HIDE DEF S
  <1>2. /\ u \in Seq(S) /\ Len(u) = Len(s) + Len(t)
        /\ \A j \in 1..Len(u) : u[j] = IF j <= Len(s) THEN s[j] ELSE t[j - Len(s)]
    BY <1>1, ConcatProperties
  <1>3. IsSeq(u)
    BY <1>2, SeqIsSeq
  <1> HIDE DEF u
  <1>4. /\ \A j \in 1..Len(s) : u[j] = s[j]
        /\ \A j \in 1..Len(t) : u[Len(s) + j] = t[j]
    <2>1. ASSUME NEW j \in 1..Len(s) PROVE u[j] = s[j]
      <3>1. j \in 1..Len(u) /\ j <= Len(s)
        BY <1>1, <1>2
      <3> QED
        BY <1>2, <3>1
    <2>2. ASSUME NEW j \in 1..Len(t) PROVE u[Len(s) + j] = t[j]
      <3>1. /\ Len(s) + j \in 1..Len(u) /\ ~(Len(s) + j <= Len(s))
            /\ (Len(s) + j) - Len(s) = j
        BY <1>1, <1>2
      <3> QED
        BY <1>2, <3>1
    <2> QED
      BY <2>1, <2>2
  <1>5. Items(u) = Items(s) \cup Items(t)
    <2>1. \A j \in 1..Len(u) : u[j] \in Items(s) \cup Items(t)
      <3> SUFFICES ASSUME NEW j \in 1..Len(u) PROVE u[j] \in Items(s) \cup Items(t)
        OBVIOUS
      <3>1. CASE j <= Len(s)
        BY <1>1, <1>2, <3>1 DEF Items
      <3>2. CASE ~(j <= Len(s))
        <4>1. j - Len(s) \in 1..Len(t)
          BY <1>1, <1>2, <3>2
        <4> QED
          BY <1>2, <3>2, <4>1 DEF Items
      <3> QED
        BY <3>1, <3>2
    <2>2. \A j \in 1..Len(s) : s[j] \in Items(u)
      <3>1. \A j \in 1..Len(s) : j \in 1..Len(u)
        BY <1>1, <1>2
      <3> QED
        BY <1>4, <3>1 DEF Items
    <2>3. \A j \in 1..Len(t) : t[j] \in Items(u)
      <3>1. \A j \in 1..Len(t) : Len(s) + j \in 1..Len(u)
        BY <1>1, <1>2
      <3> QED
        BY <1>4, <3>1 DEF Items
    <2> QED
      BY <2>1, <2>2, <2>3 DEF Items
  <1> QED
    BY <1>2, <1>3, <1>4, <1>5 DEF u

LEMMA ConcatAssoc ==
  ASSUME NEW s, IsSeq(s), NEW t, IsSeq(t), NEW u, IsSeq(u)
  PROVE  (s \o t) \o u = s \o (t \o u)
  <1> DEFINE S == Items(s) \cup Items(t) \cup Items(u)
  <1>1. s \in [1..Len(s) -> Items(s)] /\ t \in [1..Len(t) -> Items(t)] /\ u \in [1..Len(u) -> Items(u)]
        /\ Len(s) \in Nat /\ Len(t) \in Nat /\ Len(u) \in Nat
    BY LenProperties DEF IsSeq
  <1>2. s \in [1..Len(s) -> S] /\ t \in [1..Len(t) -> S] /\ u \in [1..Len(u) -> S]
    BY <1>1
  <1> HIDE DEF S
  <1>3. s \in Seq(S) /\ t \in Seq(S) /\ u \in Seq(S)
    BY <1>1, <1>2, FunctionIsSeq
  <1> QED
    BY <1>3, ConcatAssociative

LEMMA TailIsSeq ==
  ASSUME NEW s, IsSeq(s), s # <<>>
  PROVE  /\ IsSeq(Tail(s))
         /\ Len(Tail(s)) = Len(s) - 1 /\ Len(s) >= 1
         /\ \A j \in 1..Len(Tail(s)) : Tail(s)[j] = s[j + 1]
         /\ Head(s) = s[1] /\ Head(s) \in Items(s)
         /\ Items(s) = {Head(s)} \cup Items(Tail(s))
  <1>1. s \in Seq(Items(s)) /\ Len(s) \in Nat /\ Len(s) >= 1
    BY IsSeqFacts DEF IsSeq
  <1>2. /\ Tail(s) \in Seq(Items(s)) /\ Len(Tail(s)) = Len(s) - 1
        /\ \A j \in 1..Len(Tail(s)) : Tail(s)[j] = s[j + 1]
        /\ Head(s) = s[1]
    BY <1>1, HeadTailProperties
  <1>3. IsSeq(Tail(s))
    BY <1>2, SeqIsSeq
  <1>4. Items(s) = {s[1]} \cup Items(Tail(s))
    <2>1. \A j \in 1..Len(s) : j = 1 \/ (j - 1 \in 1..Len(Tail(s)) /\ Tail(s)[j - 1] = s[j])
      BY <1>1, <1>2
    <2>2. \A j \in 1..Len(Tail(s)) : j + 1 \in 1..Len(s) /\ Tail(s)[j] = s[j + 1]
      BY <1>1, <1>2
    <2>3. \A x \in Items(s) : x \in {s[1]} \cup Items(Tail(s))
      BY <2>1 DEF Items
    <2>4. \A x \in Items(Tail(s)) : x \in Items(s)
      BY <2>2 DEF Items
    <2>5. s[1] \in Items(s)
      BY <1>1 DEF Items
    <2> QED
      BY <2>3, <2>4, <2>5
  <1> QED
    BY <1>1, <1>2, <1>3, <1>4

LEMMA ShortIsSeq ==
  /\ IsSeq(<<>>) /\ Items(<<>>) = {} /\ Len(<<>>) = 0
  /\ \A x : IsSeq(<<x>>) /\ Items(<<x>>) = {x} /\ Len(<<x>>) = 1
  /\ \A x, y : IsSeq(<<x, y>>) /\ Items(<<x, y>>) = {x, y} /\ Len(<<x, y>>) = 2
  /\ \A x, y, z : IsSeq(<<x, y, z>>) /\ Items(<<x, y, z>>) = {x, y, z} /\ Len(<<x, y, z>>) = 3
  <1>1. IsSeq(<<>>) /\ Items(<<>>) = {} /\ Len(<<>>) = 0
    BY DEF IsSeq, Items
  <1>2. ASSUME NEW x PROVE IsSeq(<<x>>) /\ Items(<<x>>) = {x} /\ Len(<<x>>) = 1
    <2>1. <<x>> \in Seq({x}) /\ Len(<<x>>) = 1 /\ <<x>>[1] = x
      OBVIOUS
    <2>2. 1..1 = {1}
      OBVIOUS
    <2>3. IsSeq(<<x>>)
      BY <2>1, SeqIsSeq
    <2>4. Items(<<x>>) = {x}
      BY <2>1, <2>2 DEF Items
    <2> QED
      BY <2>1, <2>3, <2>4
  <1>3. ASSUME NEW x, NEW y PROVE IsSeq(<<x, y>>) /\ Items(<<x, y>>) = {x, y} /\ Len(<<x, y>>) = 2
    <2>1. /\ <<x, y>> \in Seq({x, y}) /\ Len(<<x, y>>) = 2
          /\ <<x, y>>[1] = x /\ <<x, y>>[2] = y
      OBVIOUS
    <2>2. 1..2 = {1, 2}
      OBVIOUS
    <2> QED
      BY <2>1, <2>2, SeqIsSeq DEF Items
  <1>4. ASSUME NEW x, NEW y, NEW z
        PROVE  IsSeq(<<x, y, z>>) /\ Items(<<x, y, z>>) = {x, y, z} /\ Len(<<x, y, z>>) = 3
    <2>1. /\ <<x, y, z>> \in Seq({x, y, z}) /\ Len(<<x, y, z>>) = 3
          /\ <<x, y, z>>[1] = x /\ <<x, y, z>>[2] = y /\ <<x, y, z>>[3] = z
      OBVIOUS
    <2>2. 1..3 = {1, 2, 3}
      OBVIOUS
    <2> QED
      BY <2>1, <2>2, SeqIsSeq DEF Items
  <1> QED
    BY <1>1, <1>2, <1>3, <1>4

LEMMA AppendIsSeq ==
  ASSUME NEW s, IsSeq(s), NEW x
  PROVE  /\ IsSeq(Append(s, x)) /\ Len(Append(s, x)) = Len(s) + 1
         /\ Items(Append(s, x)) = Items(s) \cup {x}
         /\ Append(s, x) = s \o <<x>>
  <1> DEFINE S == Items(s) \cup {x}
  <1>1. s \in [1..Len(s) -> Items(s)] /\ Len(s) \in Nat
    BY LenProperties DEF IsSeq
  <1>2. s \in [1..Len(s) -> S] /\ x \in S
    BY <1>1
  <1> HIDE DEF S
  <1>3. s \in Seq(S)
    BY <1>1, <1>2, FunctionIsSeq
  <1>4. Append(s, x) = s \o <<x>>
    BY <1>2, <1>3, AppendIsConcat
  <1>5. IsSeq(<<x>>) /\ Items(<<x>>) = {x} /\ Len(<<x>>) = 1
    BY ShortIsSeq
  <1> QED
    BY <1>4, <1>5, ConcatIsSeq

-------------------------------------------------------------------------------
(* Things put before a sequence, put behind it, and taken out of it.         *)

LEMMA OneBefore ==
  ASSUME NEW one, IsSeq(one), Len(one) = 1, NEW s, IsSeq(s)
  PROVE  /\ IsSeq(one \o s) /\ Items(one \o s) = Items(one) \cup Items(s)
         /\ Len(one \o s) = Len(s) + 1 /\ (one \o s)[1] = one[1]
         /\ \A j \in 1..Len(s) : (one \o s)[j + 1] = s[j]
         /\ one \o s # <<>> /\ Head(one \o s) = one[1] /\ Tail(one \o s) = s
  <1> DEFINE c == one \o s
  <1> HIDE DEF c
  <1>1. /\ IsSeq(c) /\ Len(c) = Len(one) + Len(s) /\ Items(c) = Items(one) \cup Items(s)
        /\ \A j \in 1..Len(c) : c[j] = IF j <= Len(one) THEN one[j] ELSE s[j - Len(one)]
    BY ConcatIsSeq DEF c
  <1>2. Len(s) \in Nat /\ Len(c) = Len(s) + 1 /\ c[1] = one[1] /\ \A j \in 1..Len(s) : c[j + 1] = s[j]
    <2>1. Len(s) \in Nat
      BY IsSeqFacts
    <2>2. Len(c) = Len(s) + 1 /\ 1 \in 1..Len(c) /\ 1 <= Len(one)
      BY <1>1, <2>1
    <2>3. \A j \in 1..Len(s) : j + 1 \in 1..Len(c) /\ ~(j + 1 <= Len(one)) /\ (j + 1) - Len(one) = j
      BY <2>1, <2>2
    <2> QED
      BY <1>1, <2>1, <2>2, <2>3
  <1>3. c # <<>>
    BY <1>1, <1>2, IsSeqFacts
  <1>4. /\ Head(c) = one[1] /\ IsSeq(Tail(c)) /\ Len(Tail(c)) = Len(s)
        /\ \A j \in 1..Len(Tail(c)) : Tail(c)[j] = c[j + 1]
    <2>1. IsSeq(Tail(c)) /\ Len(Tail(c)) = Len(c) - 1 /\ Head(c) = c[1]
          /\ \A j \in 1..Len(Tail(c)) : Tail(c)[j] = c[j + 1]
      BY <1>1, <1>3, TailIsSeq
    <2> QED
      BY <1>2, <2>1
  <1>5. Tail(c) = s
    <2>1. \A j \in 1..Len(s) : Tail(c)[j] = s[j]
      BY <1>2, <1>4
    <2>2. s \in [1..Len(s) -> Items(s)] /\ Tail(c) \in [1..Len(s) -> Items(Tail(c))]
      BY <1>4, LenProperties DEF IsSeq
    <2> QED
      BY <2>1, <2>2
  <1> QED
    BY <1>1, <1>2, <1>3, <1>4, <1>5 DEF c

LEMMA ConsFacts ==
  ASSUME NEW x, NEW s, IsSeq(s)
  PROVE  /\ IsSeq(Cons(x, s)) /\ Items(Cons(x, s)) = {x} \cup Items(s)
         /\ Len(Cons(x, s)) = Len(s) + 1 /\ Cons(x, s)[1] = x
         /\ \A j \in 1..Len(s) : Cons(x, s)[j + 1] = s[j]
         /\ Cons(x, s) # <<>> /\ Head(Cons(x, s)) = x /\ Tail(Cons(x, s)) = s
  <1>1. IsSeq(<<x>>) /\ Items(<<x>>) = {x} /\ Len(<<x>>) = 1 /\ <<x>>[1] = x
    BY ShortIsSeq
  <1>2. PICK one : /\ Cons(x, s) = one \o s
                   /\ IsSeq(one) /\ Items(one) = {x} /\ Len(one) = 1 /\ one[1] = x
    BY <1>1, Zenon DEF Cons
  <1>3. /\ IsSeq(one \o s) /\ Items(one \o s) = Items(one) \cup Items(s)
        /\ Len(one \o s) = Len(s) + 1 /\ (one \o s)[1] = one[1]
        /\ \A j \in 1..Len(s) : (one \o s)[j + 1] = s[j]
        /\ one \o s # <<>> /\ Head(one \o s) = one[1] /\ Tail(one \o s) = s
    BY <1>2, OneBefore, Zenon
  <1> QED
    BY <1>2, <1>3

LEMMA NothingBefore ==
  ASSUME NEW s, IsSeq(s)
  PROVE  <<>> \o s = s
  <1> PICK nil : nil = <<>>
    OBVIOUS
  <1>1. IsSeq(nil) /\ Len(nil) = 0
    BY ShortIsSeq
  <1> PICK c : c = nil \o s
    OBVIOUS
  <1>2. IsSeq(c) /\ Len(c) = Len(nil) + Len(s)
        /\ \A j \in 1..Len(c) : c[j] = IF j <= Len(nil) THEN nil[j] ELSE s[j - Len(nil)]
    BY <1>1, ConcatIsSeq
  <1>3. Len(s) \in Nat /\ Len(c) = Len(s)
    BY <1>1, <1>2, IsSeqFacts
  <1>4. \A j \in 1..Len(s) : c[j] = s[j]
    <2>1. \A j \in 1..Len(s) : ~(j <= 0) /\ j - 0 = j
      BY <1>3
    <2> QED
      BY <1>1, <1>2, <1>3, <2>1
  <1>5. c \in [1..Len(s) -> Items(c)] /\ s \in [1..Len(s) -> Items(s)]
    BY <1>2, <1>3, LenProperties DEF IsSeq
  <1> QED
    BY <1>4, <1>5

LEMMA NothingBehind ==
  ASSUME NEW s, IsSeq(s)
  PROVE  s \o <<>> = s
  <1>1. s \in Seq(Items(s))
    BY DEF IsSeq
  <1> QED
    BY <1>1

LEMMA OneIsSeq ==
  ASSUME NEW x
  PROVE  IsSeq(<<x>>)
  BY ShortIsSeq

LEMMA ConsAssoc ==
  ASSUME NEW x, NEW t, IsSeq(t), NEW s, IsSeq(s)
  PROVE  Cons(x, t) \o s = Cons(x, t \o s)
  <1>1. ASSUME NEW one, IsSeq(one) PROVE (one \o t) \o s = one \o (t \o s)
    BY <1>1, ConcatAssoc
  <1> QED
    BY <1>1, OneIsSeq, Zenon DEF Cons

LEMMA TwoIsCons ==
  ASSUME NEW x, NEW y
  PROVE  <<x, y>> = Cons(x, <<y>>)
  <1>1. PICK two : two = <<x, y>>
    OBVIOUS
  <1>2. Len(two) = 2 /\ two[1] = x /\ two[2] = y /\ two \in [1..2 -> {x, y}]
    BY <1>1
  <1>3. PICK one : one = <<y>>
    OBVIOUS
  <1>4. IsSeq(one)
    BY <1>3, OneIsSeq
  <1>5. Len(one) = 1 /\ one[1] = y
    BY <1>3
  <1>6. PICK c : c = Cons(x, one)
    OBVIOUS
  <1>7. /\ IsSeq(c) /\ Len(c) = Len(one) + 1 /\ c[1] = x
        /\ \A j \in 1..Len(one) : c[j + 1] = one[j]
    BY <1>4, <1>6, ConsFacts
  <1>8. Len(c) = 2 /\ c[2] = y
    <2>1. 1 \in 1..Len(one) /\ 1 + 1 = 2
      BY <1>5
    <2> QED
      BY <1>5, <1>7, <2>1
  <1>9. c = two
    <2>1. c \in [1..2 -> Items(c)]
      BY <1>7, <1>8, LenProperties DEF IsSeq
    <2>2. \A j \in 1..2 : c[j] = two[j]
      BY <1>2, <1>7, <1>8
    <2> QED
      BY <1>2, <2>1, <2>2
  <1> QED
    BY <1>1, <1>3, <1>6, <1>9, Zenon

\* Two things put before a list.
PutTwo(x, y, s) == <<x, y>> \o s = Cons(x, Cons(y, s))

LEMMA ConsTwo ==
  ASSUME NEW x, NEW y, NEW s, IsSeq(s)
  PROVE  PutTwo(x, y, s)
  <1>1. Cons(x, <<y>>) \o s = Cons(x, <<y>> \o s)
    <2>1. PICK one : one = <<y>>
      OBVIOUS
    <2>2. IsSeq(one)
      BY <2>1, OneIsSeq
    <2>3. Cons(x, one) \o s = Cons(x, one \o s)
      BY <2>2, ConsAssoc
    <2> QED
      BY <2>1, <2>3, Zenon
  <1>2. <<y>> \o s = Cons(y, s)
    BY Zenon DEF Cons
  <1>3. <<x, y>> = Cons(x, <<y>>)
    BY TwoIsCons, Zenon
  <1> QED
    BY <1>1, <1>2, <1>3, Zenon DEF PutTwo

LEMMA ConsIs ==
  ASSUME NEW x, NEW s, IsSeq(s), NEW c, c = Cons(x, s)
  PROVE  /\ IsSeq(c) /\ Items(c) = {x} \cup Items(s)
         /\ Len(c) = Len(s) + 1 /\ c[1] = x
         /\ \A j \in 1..Len(s) : c[j + 1] = s[j]
         /\ c # <<>> /\ Head(c) = x /\ Tail(c) = s
  <1>1. IsSeq(c)
    BY ConsFacts
  <1>2. Items(c) = {x} \cup Items(s)
    BY ConsFacts
  <1>3. Len(c) = Len(s) + 1 /\ c[1] = x
    BY ConsFacts
  <1>4. \A j \in 1..Len(s) : c[j + 1] = s[j]
    BY ConsFacts
  <1>5. c # <<>>
    BY ConsFacts
  <1>6. Head(c) = x
    BY ConsFacts
  <1>7. Tail(c) = s
    BY ConsFacts
  <1> QED
    BY <1>1, <1>2, <1>3, <1>4, <1>5, <1>6, <1>7

\* Lists with one, two or three things in front.
LEMMA Chains ==
  ASSUME NEW s, IsSeq(s), NEW x, NEW y, NEW z
  PROVE  /\ IsSeq(Cons(x, s)) /\ Items(Cons(x, s)) = {x} \cup Items(s)
         /\ IsSeq(Cons(x, Cons(y, s))) /\ Items(Cons(x, Cons(y, s))) = {x, y} \cup Items(s)
         /\ /\ IsSeq(Cons(x, Cons(y, Cons(z, s))))
            /\ Items(Cons(x, Cons(y, Cons(z, s)))) = {x, y, z} \cup Items(s)
  <1>1. ASSUME NEW u, IsSeq(u), NEW v PROVE IsSeq(Cons(v, u)) /\ Items(Cons(v, u)) = {v} \cup Items(u)
    BY <1>1, ConsFacts
  <1>2. IsSeq(Cons(z, s)) /\ Items(Cons(z, s)) = {z} \cup Items(s)
    BY <1>1
  <1>3. IsSeq(Cons(y, s)) /\ Items(Cons(y, s)) = {y} \cup Items(s)
    BY <1>1
  <1>4. IsSeq(Cons(x, s)) /\ Items(Cons(x, s)) = {x} \cup Items(s)
    BY <1>1
  <1>5. IsSeq(Cons(x, Cons(y, s))) /\ Items(Cons(x, Cons(y, s))) = {x, y} \cup Items(s)
    <2>1. IsSeq(Cons(x, Cons(y, s))) /\ Items(Cons(x, Cons(y, s))) = {x} \cup Items(Cons(y, s))
      BY <1>1, <1>3, Zenon
    <2> QED
      BY <1>3, <2>1
  <1>6. IsSeq(Cons(y, Cons(z, s))) /\ Items(Cons(y, Cons(z, s))) = {y, z} \cup Items(s)
    <2>1. IsSeq(Cons(y, Cons(z, s))) /\ Items(Cons(y, Cons(z, s))) = {y} \cup Items(Cons(z, s))
      BY <1>1, <1>2, Zenon
    <2> QED
      BY <1>2, <2>1
  <1>7. /\ IsSeq(Cons(x, Cons(y, Cons(z, s))))
        /\ Items(Cons(x, Cons(y, Cons(z, s)))) = {x, y, z} \cup Items(s)
    <2>1. /\ IsSeq(Cons(x, Cons(y, Cons(z, s))))
          /\ Items(Cons(x, Cons(y, Cons(z, s)))) = {x} \cup Items(Cons(y, Cons(z, s)))
      BY <1>1, <1>6, Zenon
    <2> QED
      BY <1>6, <2>1
  <1> QED
    BY <1>4, <1>5, <1>7

\* One more at the end of a list.
LEMMA Appended ==
  ASSUME NEW s, IsSeq(s), NEW x
  PROVE  LET t == Append(s, x)
         IN  /\ IsSeq(t) /\ Len(s) \in Nat /\ Len(t) = Len(s) + 1 /\ Items(t) = Items(s) \cup {x}
             /\ Len(s) + 1 \notin DOMAIN s /\ DOMAIN t = DOMAIN s \cup {Len(s) + 1}
             /\ (\A k \in DOMAIN s : t[k] = s[k]) /\ t[Len(s) + 1] = x
  <1>1. PICK t : t = Append(s, x)
    OBVIOUS
  <1>2. IsSeq(t) /\ Len(t) = Len(s) + 1 /\ Items(t) = Items(s) \cup {x} /\ t = s \o <<x>>
    BY <1>1, AppendIsSeq
  <1>3. Len(s) \in Nat /\ DOMAIN s = 1..Len(s) /\ DOMAIN t = 1..Len(t)
    BY <1>2, IsSeqFacts
  <1>4. PICK one : one = <<x>>
    OBVIOUS
  <1>5. IsSeq(one) /\ Len(one) = 1 /\ one[1] = x
    BY <1>4, ShortIsSeq
  <1>6. PICK u : u = s \o one
    OBVIOUS
  <1>7. /\ \A j \in 1..Len(s) : u[j] = s[j]
        /\ \A j \in 1..Len(one) : u[Len(s) + j] = one[j]
    BY <1>5, <1>6, ConcatIsSeq
  <1>8. t = u
    BY <1>2, <1>4, <1>6, Zenon
  <1>9. (\A k \in 1..Len(s) : t[k] = s[k]) /\ t[Len(s) + 1] = x
    BY <1>5, <1>7, <1>8
  <1> QED
    BY <1>1, <1>2, <1>3, <1>9

\* A list without what was at place i.
LEMMA Removed ==
  ASSUME NEW s, IsSeq(s), NEW i \in 1..Len(s)
  PROVE  LET t == RemoveAt(s, i)
         IN  /\ IsSeq(t) /\ Len(s) \in Nat /\ Len(t) = Len(s) - 1 /\ Items(t) \subseteq Items(s)
             /\ \A j \in 1..Len(t) : t[j] = IF j < i THEN s[j] ELSE s[j + 1]
             /\ \A j \in 1..Len(s) : j # i => s[j] \in Items(t)
  <1>1. Len(s) \in Nat /\ i \in Int /\ s \in Seq(Items(s)) /\ \A j \in 1..Len(s) : s[j] \in Items(s)
    BY IsSeqFacts DEF IsSeq, Items
  <1>2. PICK front : front = SubSeq(s, 1, i - 1)
    OBVIOUS
  <1>3. PICK back : back = SubSeq(s, i + 1, Len(s))
    OBVIOUS
  <1>4. /\ IsSeq(front) /\ Len(front) = i - 1
        /\ \A j \in 1..i - 1 : front[j] = s[j]
    <2>1. /\ front \in Seq(Items(s)) /\ Len(front) = IF 1 <= i - 1 THEN (i - 1) - 1 + 1 ELSE 0
          /\ \A j \in 1..(i - 1) - 1 + 1 : front[j] = s[1 + j - 1]
      BY <1>1, <1>2, SubSeqProperties
    <2>2. Len(front) = i - 1 /\ \A j \in 1..i - 1 : front[j] = s[j]
      BY <1>1, <2>1
    <2> QED
      BY <2>1, <2>2, SeqIsSeq
  <1>5. /\ IsSeq(back) /\ Len(back) = Len(s) - i
        /\ \A j \in 1..Len(s) - i : back[j] = s[i + j]
    <2>1. /\ back \in Seq(Items(s)) /\ Len(back) = IF i + 1 <= Len(s) THEN Len(s) - (i + 1) + 1 ELSE 0
          /\ \A j \in 1..Len(s) - (i + 1) + 1 : back[j] = s[(i + 1) + j - 1]
      BY <1>1, <1>3, SubSeqProperties
    <2>2. Len(back) = Len(s) - i /\ \A j \in 1..Len(s) - i : back[j] = s[i + j]
      BY <1>1, <2>1
    <2> QED
      BY <2>1, <2>2, SeqIsSeq
  <1>6. PICK t : t = front \o back
    OBVIOUS
  <1>7. t = RemoveAt(s, i)
    BY <1>2, <1>3, <1>6 DEF RemoveAt
  <1>8. /\ IsSeq(t) /\ Len(t) = Len(front) + Len(back)
        /\ \A j \in 1..Len(t) : t[j] = IF j <= Len(front) THEN front[j] ELSE back[j - Len(front)]
    <2>1. IsSeq(front) /\ IsSeq(back)
      BY <1>4, <1>5
    <2>2. IsSeq(t)
      BY <1>6, <2>1, ConcatIsSeq
    <2>3. Len(t) = Len(front) + Len(back)
      BY <1>6, <2>1, ConcatIsSeq
    <2>4. \A j \in 1..Len(t) : t[j] = IF j <= Len(front) THEN front[j] ELSE back[j - Len(front)]
      BY <1>6, <2>1, ConcatIsSeq
    <2> QED
      BY <2>2, <2>3, <2>4
  <1>9. Len(t) = Len(s) - 1
    BY <1>1, <1>4, <1>5, <1>8
  <1>10. ASSUME NEW j \in 1..Len(t) PROVE t[j] = IF j < i THEN s[j] ELSE s[j + 1]
    <2>1. CASE j < i
      <3>1. j \in 1..i - 1 /\ j <= Len(front)
        BY <1>1, <1>4, <2>1
      <3> QED
        BY <1>4, <1>8, <2>1, <3>1
    <2>2. CASE ~(j < i)
      <3>1. j - (i - 1) \in 1..Len(s) - i /\ ~(j <= Len(front)) /\ i + (j - (i - 1)) = j + 1
        BY <1>1, <1>4, <1>9, <2>2
      <3>2. t[j] = back[j - (i - 1)]
        BY <1>4, <1>8, <3>1
      <3>3. back[j - (i - 1)] = s[i + (j - (i - 1))]
        BY <1>5, <3>1
      <3> QED
        BY <2>2, <3>1, <3>2, <3>3
    <2> QED
      BY <2>1, <2>2
  <1>11. Items(t) \subseteq Items(s)
    <2>1. ASSUME NEW j \in 1..Len(t) PROVE t[j] \in Items(s)
      <3>1. j \in 1..Len(s) /\ (~(j < i) => j + 1 \in 1..Len(s))
        BY <1>1, <1>9
      <3> QED
        BY <1>1, <1>10, <3>1
    <2> QED
      BY <2>1 DEF Items
  <1>12. ASSUME NEW j \in 1..Len(s), j # i PROVE s[j] \in Items(t)
    <2>1. CASE j < i
      <3>1. j \in 1..Len(t) /\ t[j] = s[j]
        BY <1>1, <1>9, <1>10, <2>1
      <3> QED
        BY <3>1 DEF Items
    <2>2. CASE ~(j < i)
      <3>1. j - 1 \in 1..Len(t) /\ ~(j - 1 < i) /\ (j - 1) + 1 = j
        BY <1>1, <1>9, <1>12, <2>2
      <3>2. t[j - 1] = s[(j - 1) + 1]
        BY <1>10, <3>1
      <3> QED
        BY <3>1, <3>2 DEF Items
    <2> QED
      BY <2>1, <2>2
  <1> QED
    BY <1>1, <1>7, <1>8, <1>9, <1>10, <1>11, <1>12

\* Putting one thing in front.
LEMMA PutOne ==
  ASSUME NEW x, NEW s
  PROVE  <<x>> \o s = Cons(x, s)
  BY Zenon DEF Cons

\* What stands behind things put in front.
LEMMA BehindOne ==
  ASSUME NEW s, IsSeq(s), NEW x, NEW c, c = Cons(x, s)
  PROVE  Items(s) \subseteq Items(c) /\ x \in Items(c)
  BY ConsFacts

LEMMA BehindTwo ==
  ASSUME NEW s, IsSeq(s), NEW x, NEW y, NEW c, c = Cons(x, Cons(y, s))
  PROVE  Items(s) \subseteq Items(c) /\ x \in Items(c) /\ y \in Items(c)
  BY Chains

LEMMA BehindThree ==
  ASSUME NEW s, IsSeq(s), NEW x, NEW y, NEW z, NEW c, c = Cons(x, Cons(y, Cons(z, s)))
  PROVE  Items(s) \subseteq Items(c) /\ x \in Items(c) /\ y \in Items(c) /\ z \in Items(c)
  BY Chains

-------------------------------------------------------------------------------
(* Sequences in an order.                                                    *)

\* What stands before is always in relation R to what stands behind.
InSequence(s, R) == \A i, j \in 1..Len(s) : i < j => <<s[i], s[j]>> \in R

LEMMA InSequenceShort ==
  ASSUME NEW R
  PROVE  InSequence(<<>>, R) /\ \A x : InSequence(<<x>>, R)
  <1>1. InSequence(<<>>, R)
    BY DEF InSequence
  <1>2. ASSUME NEW x PROVE InSequence(<<x>>, R)
    <2>1. Len(<<x>>) = 1 /\ \A i, j \in 1..1 : ~(i < j)
      OBVIOUS
    <2> QED
      BY <2>1 DEF InSequence
  <1> QED
    BY <1>1, <1>2

LEMMA InSequenceConcat ==
  ASSUME NEW s, IsSeq(s), NEW t, IsSeq(t), NEW R, InSequence(s, R), InSequence(t, R),
         \A x \in Items(s), y \in Items(t) : <<x, y>> \in R
  PROVE  InSequence(s \o t, R)
  <1> DEFINE u == s \o t
  <1>1. /\ Len(s) \in Nat /\ Len(t) \in Nat /\ Len(u) = Len(s) + Len(t)
        /\ \A j \in 1..Len(u) : u[j] = IF j <= Len(s) THEN s[j] ELSE t[j - Len(s)]
    BY ConcatIsSeq, IsSeqFacts
  <1> HIDE DEF u
  <1> SUFFICES ASSUME NEW i \in 1..Len(u), NEW j \in 1..Len(u), i < j PROVE <<u[i], u[j]>> \in R
    BY DEF InSequence, u
  <1>2. CASE j <= Len(s)
    <2>1. i \in 1..Len(s) /\ j \in 1..Len(s) /\ u[i] = s[i] /\ u[j] = s[j]
      BY <1>1, <1>2
    <2> QED
      BY <2>1 DEF InSequence
  <1>3. CASE i <= Len(s) /\ ~(j <= Len(s))
    <2>1. i \in 1..Len(s) /\ j - Len(s) \in 1..Len(t) /\ u[i] = s[i] /\ u[j] = t[j - Len(s)]
      BY <1>1, <1>3
    <2>2. u[i] \in Items(s) /\ u[j] \in Items(t)
      BY <2>1 DEF Items
    <2> QED
      BY <2>2
  <1>4. CASE ~(i <= Len(s))
    <2>1. /\ i - Len(s) \in 1..Len(t) /\ j - Len(s) \in 1..Len(t) /\ i - Len(s) < j - Len(s)
          /\ u[i] = t[i - Len(s)] /\ u[j] = t[j - Len(s)]
      BY <1>1, <1>4
    <2> QED
      BY <2>1 DEF InSequence
  <1> QED
    BY <1>1, <1>2, <1>3, <1>4

LEMMA Joined ==
  ASSUME NEW s, IsSeq(s), NEW t, IsSeq(t), NEW R, InSequence(s, R), InSequence(t, R),
         \A x \in Items(s), y \in Items(t) : <<x, y>> \in R
  PROVE  /\ IsSeq(s \o t) /\ InSequence(s \o t, R)
         /\ Items(s \o t) = Items(s) \cup Items(t)
  BY ConcatIsSeq, InSequenceConcat

LEMMA InSequenceTail ==
  ASSUME NEW s, IsSeq(s), s # <<>>, NEW R, InSequence(s, R)
  PROVE  /\ InSequence(Tail(s), R)
         /\ \A y \in Items(Tail(s)) : <<Head(s), y>> \in R
  <1>1. /\ Len(Tail(s)) = Len(s) - 1 /\ Len(s) >= 1 /\ Len(s) \in Nat /\ Head(s) = s[1]
        /\ \A j \in 1..Len(Tail(s)) : Tail(s)[j] = s[j + 1]
    BY TailIsSeq, IsSeqFacts
  <1>2. \A j \in 1..Len(Tail(s)) : j + 1 \in 1..Len(s) /\ 1 \in 1..Len(s) /\ 1 < j + 1
    BY <1>1
  <1>3. ASSUME NEW i \in 1..Len(Tail(s)), NEW j \in 1..Len(Tail(s)), i < j
        PROVE  <<Tail(s)[i], Tail(s)[j]>> \in R
    <2>1. i + 1 < j + 1
      BY <1>1, <1>3
    <2> QED
      BY <1>1, <1>2, <2>1 DEF InSequence
  <1>4. ASSUME NEW j \in 1..Len(Tail(s)) PROVE <<Head(s), Tail(s)[j]>> \in R
    BY <1>1, <1>2 DEF InSequence
  <1> QED
    BY <1>3, <1>4 DEF InSequence, Items

LEMMA InSequenceWider ==
  ASSUME NEW s, NEW R, NEW W, InSequence(s, R),
         \A x, y \in Items(s) : <<x, y>> \in R => <<x, y>> \in W
  PROVE  InSequence(s, W)
  BY DEF InSequence, Items

-------------------------------------------------------------------------------
(* Sets in an order.  R is the set of the pairs that are in order.            *)

InLine(S, R) ==
  /\ \A x, y \in S : x # y => <<x, y>> \in R \/ <<y, x>> \in R
  /\ \A x, y, z \in S : <<x, y>> \in R /\ <<y, z>> \in R => <<x, z>> \in R
  /\ \A x \in S : <<x, x>> \notin R

\* A finite set that is not empty has a last element.
LEMMA LastElement ==
  ASSUME NEW S, IsFiniteSet(S), NEW R, InLine(S, R)
  PROVE  \A T \in SUBSET S : T # {} => \E x \in T : \A y \in T : y # x => <<y, x>> \in R
  <1> DEFINE Good == {T \in SUBSET S : T # {} => \E x \in T : \A y \in T : y # x => <<y, x>> \in R}
  <1>1. {} \in Good
    OBVIOUS
  <1>2. ASSUME NEW T \in SUBSET S, T # {}
        PROVE  \E x \in T : T \ {x} \in Good => T \in Good
    <2>1. PICK z \in T : TRUE
      BY <1>2
    <2> SUFFICES ASSUME T \ {z} \in Good PROVE T \in Good
      BY <2>1
    <2>2. CASE T = {z}
      BY <2>2
    <2>3. CASE T \ {z} # {}
      <3>1. PICK x \in T \ {z} : \A y \in T \ {z} : y # x => <<y, x>> \in R
        BY <2>3
      <3>2. CASE <<z, x>> \in R
        BY <3>1, <3>2
      <3>3. CASE <<x, z>> \in R
        <4>1. \A y \in T : y # z => <<y, z>> \in R
          BY <3>1, <3>3 DEF InLine
        <4> QED
          BY <4>1
      <3> QED
        BY <3>1, <3>2, <3>3 DEF InLine
    <2> QED
      BY <2>2, <2>3
  <1>3. \A T \in SUBSET S : T \in Good
    <2> HIDE DEF Good
    <2> QED
      BY <1>1, <1>2, SubsetInduction
  <1> QED
    BY <1>3

\* The sequences that list a set in its order, each element once.
Listing(S, R) ==
  {s \in [1..Cardinality(S) -> S] : \A j, k \in 1..Cardinality(S) : j < k => <<s[j], s[k]>> \in R}

\* A finite set can be listed in its order.
LEMMA ListingExists ==
  ASSUME NEW S, IsFiniteSet(S), NEW R, InLine(S, R)
  PROVE  Listing(S, R) # {}
  <1> DEFINE Good == {T \in SUBSET S : Listing(T, R) # {}}
  <1>1. {} \in Good
    <2>1. Cardinality({}) = 0
      BY FS_EmptySet
    <2>2. [j \in 1..0 |-> 0] \in Listing({}, R)
      BY <2>1 DEF Listing
    <2> QED
      BY <2>2
  <1>2. ASSUME NEW T \in SUBSET S, T # {}
        PROVE  \E x \in T : T \ {x} \in Good => T \in Good
    <2>1. PICK x \in T : \A y \in T : y # x => <<y, x>> \in R
      BY <1>2, LastElement
    <2> SUFFICES ASSUME T \ {x} \in Good PROVE T \in Good
      BY <2>1
    <2> DEFINE n == Cardinality(T)
    <2>2. /\ IsFiniteSet(T) /\ n \in Nat /\ n # 0
          /\ Cardinality(T \ {x}) = n - 1
      BY <1>2, FS_Subset, FS_RemoveElement, FS_CardinalityType, FS_EmptySet
    <2> HIDE DEF n
    <2>3. PICK s \in [1..(n - 1) -> T \ {x}] :
            \A j, k \in 1..(n - 1) : j < k => <<s[j], s[k]>> \in R
      BY <2>2 DEF Listing
    <2> DEFINE t == [j \in 1..n |-> IF j = n THEN x ELSE s[j]]
    <2>4. t \in [1..n -> T]
      BY <2>2, <2>3
    <2>5. ASSUME NEW j \in 1..n, NEW k \in 1..n, j < k PROVE <<t[j], t[k]>> \in R
      <3>1. j \in 1..(n - 1) /\ j # n
        BY <2>2, <2>5
      <3>2. CASE k = n
        BY <2>1, <2>3, <3>1, <3>2
      <3>3. CASE k # n
        BY <2>2, <2>3, <2>5, <3>1, <3>3
      <3> QED
        BY <3>2, <3>3
    <2>6. t \in Listing(T, R)
      BY <2>4, <2>5 DEF Listing, n
    <2> QED
      BY <2>6
  <1>3. S \in Good
    <2> HIDE DEF Good
    <2> QED
      BY <1>1, <1>2, SubsetInduction
  <1> QED
    BY <1>3

\* A listing has each element once.
LEMMA ListingOnto ==
  ASSUME NEW S, IsFiniteSet(S), NEW R, InLine(S, R),
         NEW s \in Listing(S, R)
  PROVE  /\ \A j, k \in 1..Cardinality(S) : s[j] = s[k] => j = k
         /\ \A x \in S : \E j \in 1..Cardinality(S) : s[j] = x
  <1> DEFINE n == Cardinality(S)
  <1>1. n \in Nat /\ IsFiniteSet(1..n) /\ Cardinality(1..n) = n
    <2>1. n \in Nat
      BY FS_CardinalityType
    <2> QED
      BY <2>1, FS_Interval, 1 \in Int, n \in Int, (n - 1) + 1 = n
  <1>2. ASSUME NEW j \in 1..n, NEW k \in 1..n, s[j] = s[k] PROVE j = k
    <2>1. j < k \/ k < j \/ j = k
      BY <1>1
    <2> QED
      BY <1>2, <2>1 DEF InLine, Listing
  <1>3. s \in Injection(1..n, S)
    BY <1>2 DEF Injection, IsInjective, Listing
  <1>4. s \in Surjection(1..n, S)
    <2> HIDE DEF n
    <2>1. Cardinality(1..n) = Cardinality(S)
      BY <1>1 DEF n
    <2> QED
      BY <1>3, <2>1, FS_Injection
  <1> QED
    BY <1>2, <1>4 DEF Surjection

===============================================================================
