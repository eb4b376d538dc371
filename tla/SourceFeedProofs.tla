-------------------------- MODULE SourceFeedProofs --------------------------
(***************************************************************************)
(* Proofs about the extractors of one source: an S7 answer tells what was  *)
(* asked, and OPC UA items get back their own values and names.  For any   *)
(* conversations, jobs and limits, and for messages of any length; both    *)
(* rest on what a filter keeps of a sequence (Picks).  And the types of    *)
(* the whole path from the lines of a source to the event stream.          *)
(***************************************************************************)
EXTENDS MCEventPath, EventPathProofs, FiniteSetTheorems, SequenceTheorems

-----------------------------------------------------------------------------
(* Picks: what is kept of a sequence.                                      *)

\* The places of the indexes I are 1..Cardinality(I), in the order of I; and what
\* lies behind an index does not get longer.
LEMMA Ranks ==
  ASSUME NEW n \in Nat, NEW I \in SUBSET (1..n)
  PROVE  /\ IsFiniteSet(I) /\ Cardinality(I) \in 0..n
         /\ \A i \in I : Rank(I, i) \in 1..Cardinality(I) /\ Cardinality(I) - Rank(I, i) <= n - i
         /\ \A i, k \in I : i < k => Rank(I, i) < Rank(I, k)
         /\ \A r \in 1..Cardinality(I) : \E i \in I : Rank(I, i) = r
<1>0. \A j \in I : j \in Nat /\ 1 <= j /\ j <= n
  OBVIOUS
<1>1. IsFiniteSet(I) /\ Cardinality(I) \in 0..n
  <2>1. IsFiniteSet(1..n) /\ Cardinality(1..n) = n
    BY FS_Interval
  <2>2. IsFiniteSet(I) /\ Cardinality(I) <= n
    BY <2>1, FS_Subset
  <2> QED
    BY <2>2, FS_CardinalityType
<1>2. ASSUME NEW i \in I
      PROVE  /\ IsFiniteSet({j \in I : j <= i}) /\ Rank(I, i) \in 1..Cardinality(I)
             /\ Cardinality(I) - Rank(I, i) <= n - i
  <2> DEFINE low  == {j \in I : j <= i}
             high == {j \in I : j > i}
  <2>1. IsFiniteSet(low) /\ Cardinality(low) <= Cardinality(I) /\ IsFiniteSet(high)
    BY <1>1, FS_Subset
  <2>2. Cardinality(low) \in Nat /\ Cardinality(low) # 0
    <3>1. i \in low
      OBVIOUS
    <3> QED
      BY <2>1, <3>1, FS_CardinalityType, FS_EmptySet
  <2>3. Cardinality(high) \in Nat /\ Cardinality(high) <= n - i
    <3>1. high \in SUBSET ((i + 1)..n)
      <4>1. \A j \in high : j \in (i + 1)..n
        BY <1>0
      <4> QED
        BY <4>1
    <3>2. IsFiniteSet((i + 1)..n) /\ Cardinality((i + 1)..n) = n - i
      BY FS_Interval
    <3> QED
      BY <2>1, <3>1, <3>2, FS_Subset, FS_CardinalityType
  <2>4. Cardinality(I) = Cardinality(low) + Cardinality(high)
    <3>1. I = low \union high /\ low \intersect high = {}
      <4>1. \A j \in I : (j <= i \/ j > i) /\ ~(j <= i /\ j > i)
        BY <1>0
      <4> QED
        BY <4>1, Zenon
    <3>2. Cardinality(low \intersect high) = 0
      BY <3>1, FS_EmptySet
    <3> HIDE DEF low, high
    <3> QED
      BY <2>1, <2>2, <2>3, <3>1, <3>2, FS_Union
  <2> QED
    BY <1>1, <2>1, <2>2, <2>3, <2>4 DEF Rank
<1>3. ASSUME NEW i \in I, NEW k \in I, i < k
      PROVE  Rank(I, i) < Rank(I, k)
  <2> DEFINE low == {j \in I : j <= i}
             all == {j \in I : j <= k}
  <2>1. low \in SUBSET all /\ low # all
    <3>1. k \in all /\ k \notin low
      BY <1>0, <1>3
    <3>2. \A j \in low : j \in all
      BY <1>0, <1>3
    <3> QED
      BY <3>1, <3>2
  <2>2. Cardinality(low) <= Cardinality(all) /\ Cardinality(low) # Cardinality(all)
    BY <1>2, <2>1, FS_Subset
  <2>3. Cardinality(low) \in Nat /\ Cardinality(all) \in Nat
    BY <1>2, FS_CardinalityType
  <2> QED
    BY <2>2, <2>3 DEF Rank
<1>4. \A r \in 1..Cardinality(I) : \E i \in I : Rank(I, i) = r
  <2> DEFINE rank == [i \in I |-> Rank(I, i)]
             T == 1..Cardinality(I)
  <2>1. rank \in [I -> T]
    BY <1>2
  <2>2. \A i, k \in I : rank[i] = rank[k] => i = k
    <3> SUFFICES ASSUME NEW i \in I, NEW k \in I, i # k PROVE rank[i] # rank[k]
      OBVIOUS
    <3>1. i < k \/ k < i
      BY <1>0
    <3>2. Rank(I, i) \in Int /\ Rank(I, k) \in Int
      <4>1. \A j \in I : Rank(I, j) \in 1..Cardinality(I)
        BY <1>2
      <4> QED
        BY <4>1
    <3> QED
      BY <1>3, <3>1, <3>2
  <2>3. rank \in Injection(I, T)
    BY <2>1, <2>2 DEF Injection, IsInjective
  <2>4. IsFiniteSet(T) /\ Cardinality(T) = Cardinality(I)
    BY <1>1, FS_Interval
  <2> HIDE DEF T
  <2>5. rank \in Surjection(I, T)
    BY <2>3, <2>4, FS_Injection
  <2> QED
    BY <2>5 DEF Surjection, T
<1> QED
  BY <1>1, <1>2, <1>3, <1>4

\* What is picked: the elements at the indexes, each at its place.
LEMMA PicksInOrder ==
  ASSUME NEW S, NEW s \in Seq(S), NEW I \in SUBSET (1..Len(s))
  PROVE  /\ Picked(s, I) \in Seq(S) /\ Len(Picked(s, I)) = Cardinality(I)
         /\ \A i \in I : Picked(s, I)[Rank(I, i)] = s[i]
         /\ \A r \in 1..Cardinality(I) : \E i \in I : Rank(I, i) = r /\ Picked(s, I)[r] = s[i]
<1> DEFINE n == Len(s)
           at(r) == CHOOSE i \in I : Rank(I, i) = r
           c == Cardinality(I)
<1>1. n \in Nat /\ \A i \in 1..n : s[i] \in S
  BY LenProperties
<1>2. /\ c \in 0..n /\ \A i \in I : Rank(I, i) \in 1..c
      /\ \A i, k \in I : i < k => Rank(I, i) < Rank(I, k)
      /\ \A r \in 1..c : \E i \in I : Rank(I, i) = r
  BY <1>1, Ranks
<1>3. \A r \in 1..c : at(r) \in I /\ Rank(I, at(r)) = r
  BY <1>2
<1>4. ASSUME NEW i \in I PROVE at(Rank(I, i)) = i
  <2> DEFINE k == at(Rank(I, i))
  <2>1. k \in I /\ Rank(I, k) = Rank(I, i)
    BY <1>2, <1>3
  <2> HIDE DEF k
  <2>2. ~(i < k) /\ ~(k < i) /\ i \in Int /\ k \in Int
    BY <1>2, <2>1
  <2> QED
    BY <2>2 DEF k
<1>5. Picked(s, I) = [r \in 1..c |-> s[at(r)]]
  BY DEF Picked
<1> HIDE DEF at, c
<1>6. \A r \in 1..c : s[at(r)] \in S
  BY <1>1, <1>3
<1>7. Picked(s, I) \in Seq(S) /\ Len(Picked(s, I)) = c
  BY <1>2, <1>5, <1>6
<1>8. \A i \in I : Picked(s, I)[Rank(I, i)] = s[i]
  BY <1>2, <1>4, <1>5
<1>9. \A r \in 1..c : \E i \in I : Rank(I, i) = r /\ Picked(s, I)[r] = s[i]
  BY <1>3, <1>5
<1> QED
  BY <1>7, <1>8, <1>9 DEF c

-----------------------------------------------------------------------------
(* S7: the Jobs remembered are those in flight.                            *)

Entries == [key : Keys, items : Jobs, age : 0..AgeCap]

\* Of each key there is one entry.
Unique(es) == \A i, j \in 1..Len(es) : es[i].key = es[j].key => i = j

S7Types ==
  /\ pending \in Seq(Entries) /\ Len(pending) <= PendingMax /\ Unique(pending)
  /\ asked \in [Keys -> Jobs \union {<<>>}] /\ emptyTokens \in BOOLEAN
  /\ seen \subseteq {k \in Keys : asked[k] # <<>>}
  /\ age \in [Keys -> 0..(PendingTTL + 1)] /\ newer \in [Keys -> 0..PendingMax]

\* The entry of a Job that was captured holds its items and its age.
EntriesTell ==
  \A i \in 1..Len(pending) : pending[i].key \in seen =>
    /\ pending[i].items = asked[pending[i].key]
    /\ age[pending[i].key] <= PendingTTL => pending[i].age = age[pending[i].key]

\* A Job that is neither too old nor behind too many others is remembered, and no
\* more entries stand behind it than Jobs were captured since.
JobsRemembered ==
  \A k \in seen : age[k] <= PendingTTL /\ newer[k] < PendingMax =>
    \E i \in 1..Len(pending) : pending[i].key = k /\ Len(pending) - i <= newer[k]

S7IInv == S7Types /\ EntriesTell /\ JobsRemembered

\* A filter keeps the entries unique, and those kept come no further from the end.
LEMMA PickedEntries ==
  ASSUME NEW es \in Seq(Entries), Unique(es), NEW I \in SUBSET (1..Len(es)),
         NEW ps, ps = Picked(es, I)
  PROVE  /\ ps \in Seq(Entries) /\ Len(ps) <= Len(es) /\ Unique(ps)
         /\ \A r \in 1..Len(ps) : \E i \in I : ps[r] = es[i]
         /\ \A i \in I : \E r \in 1..Len(ps) : ps[r] = es[i] /\ Len(ps) - r <= Len(es) - i
<1>1. Len(es) \in Nat
  BY LenProperties
<1>2. /\ Cardinality(I) \in 0..Len(es)
      /\ \A i \in I : Rank(I, i) \in 1..Cardinality(I)
                      /\ Cardinality(I) - Rank(I, i) <= Len(es) - i
  BY <1>1, Ranks
<1>3. /\ ps \in Seq(Entries) /\ Len(ps) = Cardinality(I)
      /\ \A i \in I : ps[Rank(I, i)] = es[i]
      /\ \A r \in 1..Cardinality(I) : \E i \in I : Rank(I, i) = r /\ ps[r] = es[i]
  BY PicksInOrder
<1>4. Unique(ps)
  <2> SUFFICES ASSUME NEW r \in 1..Len(ps), NEW q \in 1..Len(ps), ps[r].key = ps[q].key
               PROVE  r = q
    BY DEF Unique
  <2>1. PICK i \in I : Rank(I, i) = r /\ ps[r] = es[i]
    BY <1>3
  <2>2. PICK j \in I : Rank(I, j) = q /\ ps[q] = es[j]
    BY <1>3
  <2>3. i = j
    <3>1. i \in 1..Len(es) /\ j \in 1..Len(es) /\ es[i].key = es[j].key
      BY <2>1, <2>2
    <3> QED
      BY <3>1 DEF Unique
  <2> QED
    BY <2>1, <2>2, <2>3
<1> QED
  BY <1>2, <1>3, <1>4

\* What parse_line keeps of the entries when it remembers a Job: what is young and of
\* another key, without the oldest if there are too many.
LEMMA Remembered ==
  ASSUME S7Types, NEW k \in Keys, NEW job \in Jobs, _remember(k, job)
  PROVE  /\ pending' \in Seq(Entries) /\ Len(pending') \in 1..PendingMax /\ Unique(pending)'
         /\ pending'[Len(pending')] = [key |-> k, items |-> job, age |-> 0]
         /\ \A i \in 1..Len(pending') :
              /\ pending'[i].age <= PendingTTL
              /\ pending'[i].key = k => i = Len(pending')
              /\ pending'[i].key # k => \E j \in 1..Len(pending) : pending'[i] = pending[j]
         /\ \A j \in 1..Len(pending) :
              pending[j].key # k /\ pending[j].age <= PendingTTL
                /\ Len(pending) - j + 1 < PendingMax =>
                \E i \in 1..Len(pending') : pending'[i] = pending[j]
                                            /\ Len(pending') - i <= Len(pending) - j + 1
<1> DEFINE other == {i \in 1..Len(pending) : pending[i].key # k}
           es == Picked(pending, other)
           young == {i \in 1..Len(es) : es[i].age <= PendingTTL}
           fs == Picked(es, young)
           new == [key |-> k, items |-> job, age |-> 0]
           gs == Append(fs, new)
<1>1. pending \in Seq(Entries) /\ Unique(pending) /\ Len(pending) \in Nat
      /\ Len(pending) <= PendingMax /\ PendingMax \in Nat \ {0} /\ PendingTTL \in Nat
  BY S7Assumption, LenProperties DEF S7Types
<1>2. /\ es \in Seq(Entries) /\ Len(es) <= Len(pending) /\ Unique(es)
      /\ \A r \in 1..Len(es) : \E i \in other : es[r] = pending[i]
      /\ \A i \in other : \E r \in 1..Len(es) : es[r] = pending[i]
                                                /\ Len(es) - r <= Len(pending) - i
  BY <1>1, PickedEntries
<1> HIDE DEF es
<1>3. /\ fs \in Seq(Entries) /\ Len(fs) <= Len(es) /\ Unique(fs)
      /\ \A r \in 1..Len(fs) : \E i \in young : fs[r] = es[i]
      /\ \A i \in young : \E r \in 1..Len(fs) : fs[r] = es[i] /\ Len(fs) - r <= Len(es) - i
  BY <1>2, PickedEntries
<1>4. pending' = IF Len(gs) > PendingMax THEN Tail(gs) ELSE gs
  <2>0. DOMAIN pending = 1..Len(pending) /\ DOMAIN es = 1..Len(es)
    BY <1>1, <1>2, LenProperties
  <2>1. Without(k) = es
    BY <2>0, Zenon DEF Without, es
  <2>2. Fresh(es) = fs
    BY <2>0, Zenon DEF Fresh
  <2> QED
    BY <2>1, <2>2 DEF _remember, Newest
<1> HIDE DEF fs
<1>5. new \in Entries /\ new.key = k /\ new.age = 0
  BY S7Assumption DEF Entries, AgeCap
<1> HIDE DEF new
<1>6. Len(fs) \in Nat /\ Len(fs) <= PendingMax /\ Len(es) \in Nat
  BY <1>1, <1>2, <1>3, LenProperties
<1>7. /\ gs \in Seq(Entries) /\ Len(gs) = Len(fs) + 1
      /\ \A i \in 1..Len(fs) : gs[i] = fs[i]
      /\ gs[Len(fs) + 1] = new
  BY <1>3, <1>5, AppendProperties
<1> HIDE DEF gs
<1>8. \A r \in 1..Len(fs) : /\ fs[r].age <= PendingTTL /\ fs[r].key # k
                            /\ \E j \in 1..Len(pending) : fs[r] = pending[j]
  <2> TAKE r \in 1..Len(fs)
  <2>1. PICK i \in young : fs[r] = es[i]
    BY <1>3
  <2>2. PICK j \in other : es[i] = pending[j]
    BY <1>2, <2>1
  <2> QED
    BY <2>1, <2>2
<1>9. Unique(gs)
  <2> SUFFICES ASSUME NEW i \in 1..Len(gs), NEW j \in 1..Len(gs), gs[i].key = gs[j].key
               PROVE  i = j
    BY DEF Unique
  <2>1. (i \in 1..Len(fs) \/ i = Len(fs) + 1) /\ (j \in 1..Len(fs) \/ j = Len(fs) + 1)
    BY <1>6, <1>7
  <2>2. CASE i \in 1..Len(fs) /\ j \in 1..Len(fs)
    <3>1. fs[i].key = fs[j].key
      BY <1>7, <2>2
    <3> QED
      BY <1>3, <2>2, <3>1 DEF Unique
  <2>3. CASE i \in 1..Len(fs) /\ j = Len(fs) + 1
    BY <1>5, <1>7, <1>8, <2>3
  <2>4. CASE i = Len(fs) + 1 /\ j \in 1..Len(fs)
    BY <1>5, <1>7, <1>8, <2>4
  <2> QED
    BY <2>1, <2>2, <2>3, <2>4
<1>10. ASSUME NEW j \in 1..Len(pending), pending[j].key # k, pending[j].age <= PendingTTL
       PROVE  \E i \in 1..Len(fs) : fs[i] = pending[j] /\ Len(fs) - i <= Len(pending) - j
  <2>1. PICK r \in 1..Len(es) : es[r] = pending[j] /\ Len(es) - r <= Len(pending) - j
    BY <1>2, <1>10
  <2>2. PICK i \in 1..Len(fs) : fs[i] = es[r] /\ Len(fs) - i <= Len(es) - r
    BY <1>3, <1>10, <2>1
  <2> QED
    BY <1>1, <1>6, <2>1, <2>2
<1> HIDE DEF other, young
<1>11. CASE Len(gs) <= PendingMax
  <2>1. pending' = gs
    BY <1>4, <1>6, <1>7, <1>11, <1>1
  <2>2. ASSUME NEW j \in 1..Len(pending), pending[j].key # k, pending[j].age <= PendingTTL
        PROVE  \E i \in 1..Len(gs) : gs[i] = pending[j] /\ Len(gs) - i <= Len(pending) - j + 1
    <3>1. PICK i \in 1..Len(fs) : fs[i] = pending[j] /\ Len(fs) - i <= Len(pending) - j
      BY <1>10, <2>2
    <3>2. i \in 1..Len(gs) /\ gs[i] = pending[j] /\ Len(gs) - i <= Len(pending) - j + 1
      BY <1>1, <1>6, <1>7, <3>1
    <3> QED
      BY <3>2
  <2>3. \A i \in 1..Len(gs) :
          /\ gs[i].age <= PendingTTL
          /\ gs[i].key = k => i = Len(gs)
          /\ gs[i].key # k => \E j \in 1..Len(pending) : gs[i] = pending[j]
    BY <1>1, <1>5, <1>6, <1>7, <1>8
  <2>4. Unique(pending)' /\ Len(gs) \in 1..PendingMax
    BY <1>1, <1>6, <1>7, <1>9, <1>11, <2>1 DEF Unique
  <2>5. \A j \in 1..Len(pending) :
          pending[j].key # k /\ pending[j].age <= PendingTTL /\ Len(pending) - j + 1 < PendingMax =>
            \E i \in 1..Len(gs) : gs[i] = pending[j] /\ Len(gs) - i <= Len(pending) - j + 1
    BY <2>2, Zenon
  <2>6. gs[Len(gs)] = [key |-> k, items |-> job, age |-> 0]
    BY <1>7, Zenon DEF new
  <2> QED
    BY <1>7, <2>1, <2>3, <2>4, <2>5, <2>6, Zenon
<1>12. CASE Len(gs) > PendingMax
  <2>1. pending' = Tail(gs) /\ Len(fs) = PendingMax
    BY <1>1, <1>4, <1>6, <1>7, <1>12
  <2>2. /\ pending' \in Seq(Entries) /\ Len(pending') = PendingMax
        /\ \A i \in 1..PendingMax : pending'[i] = gs[i + 1]
    BY <1>1, <1>7, <2>1, HeadTailProperties
  <2>3. Unique(pending)'
    BY <1>1, <1>7, <1>9, <2>1, <2>2 DEF Unique
  <2>4. ASSUME NEW j \in 1..Len(pending), pending[j].key # k, pending[j].age <= PendingTTL,
               Len(pending) - j + 1 < PendingMax
        PROVE  \E i \in 1..Len(pending') : pending'[i] = pending[j]
                                           /\ Len(pending') - i <= Len(pending) - j + 1
    <3>1. PICK i \in 1..Len(fs) : fs[i] = pending[j] /\ Len(fs) - i <= Len(pending) - j
      BY <1>10, <2>4
    <3>2. i - 1 \in 1..PendingMax
      BY <1>1, <1>6, <2>1, <2>4, <3>1
    <3>3. pending'[i - 1] = pending[j]
      BY <1>6, <1>7, <2>2, <3>1, <3>2
    <3>4. Len(pending') - (i - 1) <= Len(pending) - j + 1
      BY <1>1, <2>1, <2>2, <3>1
    <3> QED
      BY <2>2, <3>2, <3>3, <3>4
  <2>5. \A i \in 1..PendingMax :
          /\ pending'[i].age <= PendingTTL
          /\ pending'[i].key = k => i = PendingMax
          /\ pending'[i].key # k => \E j \in 1..Len(pending) : pending'[i] = pending[j]
    <3> SUFFICES ASSUME NEW i \in 1..PendingMax
                 PROVE  /\ gs[i + 1].age <= PendingTTL
                        /\ gs[i + 1].key = k => i = PendingMax
                        /\ gs[i + 1].key # k => \E j \in 1..Len(pending) : gs[i + 1] = pending[j]
      BY <2>2
    <3>1. CASE i = PendingMax
      BY <1>1, <1>5, <1>7, <2>1, <3>1
    <3>2. CASE i # PendingMax
      <4>1. i + 1 \in 1..Len(fs)
        BY <1>1, <2>1, <3>2
      <4> QED
        BY <1>7, <1>8, <4>1
    <3> QED
      BY <3>1, <3>2
  <2>6. pending'[Len(pending')] = new
    BY <1>1, <1>7, <2>1, <2>2
  <2>7. Len(pending') \in 1..PendingMax
    BY <1>1, <2>2
  <2>8. \A i \in 1..Len(pending') :
          /\ pending'[i].age <= PendingTTL
          /\ pending'[i].key = k => i = Len(pending')
          /\ pending'[i].key # k => \E j \in 1..Len(pending) : pending'[i] = pending[j]
    BY <2>2, <2>5
  <2> QED
    BY <2>2, <2>3, <2>4, <2>6, <2>7, <2>8 DEF new
<1> QED
  BY <1>1, <1>6, <1>7, <1>11, <1>12

\* An answer to a Job that was captured: the pairing gives back what really was read,
\* with the values of failed items left out or left empty.
LEMMA AnswerIsPaired ==
  ASSUME S7Types, NEW k \in seen, NEW codes \in [DOMAIN asked[k] -> BOOLEAN]
  PROVE  /\ _pair_response(asked[k], codes, Values(k, codes)) = Truth(k, codes)
         /\ Truth(k, codes) # Nothing
<1> DEFINE it == asked[k]
           n == Len(it)
           all == [i \in 1..n |-> IF codes[i] THEN Read(k, it[i]) ELSE NoValue]
           good == {i \in 1..n : codes[i]}
           values == IF emptyTokens THEN all ELSE Picked(all, good)
           m == Len(values)
<1>1. k \in Keys /\ it \in Jobs /\ it # <<>> /\ emptyTokens \in BOOLEAN
  BY S7Assumption DEF S7Types
<1>2. n \in Nat \ {0} /\ DOMAIN it = 1..n
  <2>1. it \in Seq(UNION {Range(j) : j \in Jobs})
    BY <1>1, S7Assumption
  <2> QED
    BY <1>1, <2>1, LenProperties, EmptySeq
<1>3. \A i \in 1..n : Read(k, it[i]) # NoValue
  BY <1>1, <1>2, S7Assumption DEF Read
<1> HIDE DEF it
<1>4. codes \in [1..n -> BOOLEAN] /\ DOMAIN codes = 1..n /\ Len(codes) = n
  <2>1. codes \in [1..n -> BOOLEAN]
    BY <1>2 DEF it
  <2>2. codes \in Seq(BOOLEAN) /\ Len(codes) = n
    BY <1>2, <2>1
  <2> QED
    BY <2>1, <2>2
<1>5. /\ Truth(k, codes) = [i \in 1..n |-> <<it[i], all[i]>>]
      /\ DOMAIN all = 1..n
  BY <1>4, Zenon DEF Truth, it
<1>6. Values(k, codes) = values
  <2> DEFINE given == [i \in DOMAIN codes |-> Truth(k, codes)[i][2]]
  <2>1. given = all
    <3>1. \A i \in 1..n : Truth(k, codes)[i] = <<it[i], all[i]>>
      BY <1>5
    <3>2. \A i \in 1..n : given[i] = all[i]
      BY <1>4, <3>1
    <3> QED
      BY <1>4, <3>2
  <2>2. {i \in 1..n : all[i] # NoValue} = good
    BY <1>3
  <2>3. Values(k, codes) = IF emptyTokens THEN given
                           ELSE Picked(given, {i \in DOMAIN given : given[i] # NoValue})
    BY Zenon DEF Values
  <2> HIDE DEF given, all, good
  <2> QED
    BY <1>5, <2>1, <2>2, <2>3
<1>7. good \in SUBSET (1..n) /\ Cardinality(good) \in 0..n /\ IsFiniteSet(good)
      /\ \A i \in good : Rank(good, i) \in 1..Cardinality(good)
  BY <1>2, Ranks
<1>8. \A i \in good : Successes(codes, i) = Rank(good, i)
  <2> TAKE i \in good
  <2>1. {j \in 1..i : codes[j]} = {j \in good : j <= i}
    BY <1>2
  <2> QED
    BY <2>1, Zenon DEF Successes, Rank
<1>9. Successes(codes, n) = Cardinality(good)
  BY Zenon DEF Successes
<1> DEFINE S == {all[i] : i \in 1..n}
<1>10. all \in Seq(S) /\ Len(all) = n
  <2>1. all \in [1..n -> S]
    BY Zenon
  <2> HIDE DEF all, S
  <2> QED
    BY <1>2, <2>1
<1>11. \A i \in good : i \in 1..n /\ all[i] = Read(k, it[i])
  OBVIOUS
<1>12. /\ m \in 0..n /\ (m # n => m = Cardinality(good))
       /\ \A i \in good : values[IF m = n THEN i ELSE Rank(good, i)] = all[i]
  <2> HIDE DEF all, good, S
  <2>1. CASE emptyTokens
    BY <1>2, <1>10, <2>1
  <2>2. CASE ~emptyTokens
    <3>1. values = Picked(all, good)
      BY <2>2
    <3>2. m = Cardinality(good) /\ \A i \in good : values[Rank(good, i)] = all[i]
      <4>1. good \in SUBSET (1..Len(all))
        BY <1>7, <1>10
      <4>2. /\ Len(Picked(all, good)) = Cardinality(good)
            /\ \A i \in good : Picked(all, good)[Rank(good, i)] = all[i]
        BY <1>10, <4>1, PicksInOrder
      <4> QED
        BY <3>1, <4>2, Zenon
    <3>3. ASSUME m = n, NEW i \in good PROVE Rank(good, i) = i
      <4>1. IsFiniteSet(1..n) /\ Cardinality(1..n) = n
        BY <1>2, FS_Interval
      <4>2. good = 1..n
        BY <1>7, <3>2, <3>3, <4>1, FS_Subset
      <4>3. {j \in good : j <= i} = 1..i
        BY <1>2, <4>2
      <4>4. Cardinality(1..i) = i
        BY <1>2, <4>2, FS_Interval
      <4> QED
        BY <4>3, <4>4, Zenon DEF Rank
    <3> QED
      BY <1>7, <3>2, <3>3
  <2> QED
    BY <2>1, <2>2
<1> HIDE DEF values, all, S
<1>13. _pair_response(it, codes, values)
       = [i \in 1..n |-> <<it[i], IF ~codes[i] THEN NoValue
                                  ELSE values[IF m = n THEN i ELSE Successes(codes, i)]>>]
  <2>1. ~(m > n) /\ ~(m < n /\ Successes(codes, n) # m)
    <3>1. ~(m > n)
      BY <1>2, <1>12
    <3>2. m < n => m # n
      BY <1>2, <1>12
    <3> QED
      BY <1>9, <1>12, <3>1, <3>2
  <2> QED
    BY <1>4, <2>1 DEF _pair_response
<1>14. ASSUME NEW i \in 1..n
       PROVE  all[i] = IF ~codes[i] THEN NoValue
                       ELSE values[IF m = n THEN i ELSE Successes(codes, i)]
  <2>1. CASE codes[i]
    <3>1. i \in good
      BY <2>1
    <3> QED
      BY <1>8, <1>12, <2>1, <3>1
  <2>2. CASE ~codes[i]
    BY <2>2 DEF all
  <2> QED
    BY <2>1, <2>2
<1>15. _pair_response(it, codes, values) = Truth(k, codes)
  BY <1>5, <1>13, <1>14
<1>16. Truth(k, codes) # Nothing
  <2>1. DOMAIN Truth(k, codes) = 1..n /\ 1 \in 1..n
    BY <1>2, <1>5
  <2> QED
    BY <2>1 DEF Nothing
<1> QED
  BY <1>6, <1>15, <1>16 DEF it

\* At the start nothing is asked and nothing remembered.
LEMMA S7InitInvariant == S7Init => S7IInv
<1> SUFFICES ASSUME S7Init PROVE S7IInv
  OBVIOUS
<1>1. /\ pending = <<>> /\ asked = [k \in Keys |-> <<>>] /\ emptyTokens \in BOOLEAN /\ seen = {}
      /\ age = [k \in Keys |-> 0] /\ newer = [k \in Keys |-> 0]
      /\ PendingMax \in Nat \ {0} /\ PendingTTL \in Nat \ {0}
  BY S7Assumption DEF S7Init
<1>2. pending \in Seq(Entries) /\ Len(pending) = 0
  BY <1>1
<1>3. S7Types
  BY <1>1, <1>2 DEF S7Types, Unique
<1> QED
  BY <1>1, <1>2, <1>3 DEF S7IInv, EntriesTell, JobsRemembered

\* A Job that was captured is the last entry; the others are one Job older.
LEMMA JobCapturedKeeps ==
  ASSUME S7IInv, NEW k \in Keys, NEW job \in Jobs, JobCaptured(k, job)
  PROVE  S7IInv' /\ \A i \in DOMAIN pending' : pending'[i].age <= PendingTTL
<1>1. /\ S7Types /\ _remember(k, job)
      /\ asked' = [asked EXCEPT ![k] = job] /\ seen' = seen \union {k}
      /\ age' = [age EXCEPT ![k] = 0] /\ UNCHANGED emptyTokens
      /\ newer' = [q \in Keys |-> IF q = k \/ q \notin seen THEN 0
                                  ELSE IF newer[q] < PendingMax THEN newer[q] + 1 ELSE PendingMax]
  BY DEF S7IInv, JobCaptured, pending_key
<1>2. /\ pending' \in Seq(Entries) /\ Len(pending') \in 1..PendingMax /\ Unique(pending)'
      /\ pending'[Len(pending')] = [key |-> k, items |-> job, age |-> 0]
      /\ \A i \in 1..Len(pending') :
           /\ pending'[i].age <= PendingTTL
           /\ pending'[i].key = k => i = Len(pending')
           /\ pending'[i].key # k => \E j \in 1..Len(pending) : pending'[i] = pending[j]
      /\ \A j \in 1..Len(pending) :
           pending[j].key # k /\ pending[j].age <= PendingTTL
             /\ Len(pending) - j + 1 < PendingMax =>
             \E i \in 1..Len(pending') : pending'[i] = pending[j]
                                         /\ Len(pending') - i <= Len(pending) - j + 1
  BY <1>1, Remembered
<1>3. PendingMax \in Nat \ {0} /\ PendingTTL \in Nat \ {0} /\ job # <<>>
  BY S7Assumption
<1>4. /\ asked \in [Keys -> Jobs \union {<<>>}] /\ age \in [Keys -> 0..(PendingTTL + 1)]
      /\ newer \in [Keys -> 0..PendingMax] /\ seen \subseteq {q \in Keys : asked[q] # <<>>}
      /\ emptyTokens \in BOOLEAN /\ Len(pending) \in Nat
  BY <1>1, LenProperties DEF S7Types
<1>5. S7Types'
  <2>1. /\ asked' \in [Keys -> Jobs \union {<<>>}] /\ age' \in [Keys -> 0..(PendingTTL + 1)]
        /\ newer' \in [Keys -> 0..PendingMax]
    BY <1>1, <1>3, <1>4
  <2>2. seen' \subseteq {q \in Keys : asked'[q] # <<>>}
    BY <1>1, <1>3, <1>4
  <2> QED
    BY <1>1, <1>2, <1>3, <1>4, <2>1, <2>2 DEF S7Types
<1>6. EntriesTell'
  <2> SUFFICES ASSUME NEW i \in 1..Len(pending'), pending'[i].key \in seen'
               PROVE  /\ pending'[i].items = asked'[pending'[i].key]
                      /\ age'[pending'[i].key] <= PendingTTL =>
                           pending'[i].age = age'[pending'[i].key]
    BY DEF EntriesTell
  <2>1. CASE pending'[i].key = k
    BY <1>1, <1>2, <1>4, <2>1
  <2>2. CASE pending'[i].key # k
    <3>1. PICK j \in 1..Len(pending) : pending'[i] = pending[j]
      BY <1>2, <2>2
    <3>2. pending[j].key \in seen /\ pending[j].key \in Keys
      BY <1>1, <1>4, <2>2, <3>1
    <3>3. /\ pending[j].items = asked[pending[j].key]
          /\ age[pending[j].key] <= PendingTTL => pending[j].age = age[pending[j].key]
      BY <3>2 DEF S7IInv, EntriesTell
    <3>4. /\ asked'[pending[j].key] = asked[pending[j].key]
          /\ age'[pending[j].key] = age[pending[j].key]
      BY <1>1, <1>4, <2>2, <3>1, <3>2
    <3> QED
      BY <3>1, <3>3, <3>4
  <2> QED
    BY <2>1, <2>2
<1>7. JobsRemembered'
  <2> SUFFICES ASSUME NEW q \in seen', age'[q] <= PendingTTL, newer'[q] < PendingMax
               PROVE  \E i \in 1..Len(pending') : pending'[i].key = q
                                                  /\ Len(pending') - i <= newer'[q]
    BY DEF JobsRemembered
  <2>1. CASE q = k
    <3>1. newer'[q] = 0
      BY <1>1, <2>1
    <3>2. Len(pending') \in 1..Len(pending') /\ Len(pending') - Len(pending') <= 0
      BY <1>2, <1>3
    <3> QED
      BY <1>2, <2>1, <3>1, <3>2
  <2>2. CASE q # k
    <3>1. q \in seen /\ q \in Keys /\ age'[q] = age[q] /\ newer[q] \in 0..PendingMax
      BY <1>1, <1>4, <2>2
    <3>2. newer[q] < PendingMax /\ newer'[q] = newer[q] + 1
      BY <1>1, <1>3, <2>2, <3>1
    <3>3. PICK j \in 1..Len(pending) : pending[j].key = q /\ Len(pending) - j <= newer[q]
      BY <3>1, <3>2 DEF S7IInv, JobsRemembered
    <3>4. pending[j].age <= PendingTTL
      BY <3>1, <3>3 DEF S7IInv, EntriesTell
    <3>5. Len(pending) - j + 1 < PendingMax
      BY <1>3, <1>4, <3>1, <3>2, <3>3
    <3>6. PICK i \in 1..Len(pending') : pending'[i] = pending[j]
                                        /\ Len(pending') - i <= Len(pending) - j + 1
      BY <1>2, <2>2, <3>3, <3>4, <3>5
    <3>7. Len(pending') - i <= newer'[q]
      <4>1. Len(pending') \in Nat
        BY <1>2, LenProperties
      <4> QED
        BY <1>4, <3>1, <3>2, <3>3, <3>6, <4>1
    <3> QED
      BY <3>3, <3>6, <3>7
  <2> QED
    BY <2>1, <2>2
<1>8. \A i \in DOMAIN pending' : pending'[i].age <= PendingTTL
  BY <1>2, LenProperties
<1> QED
  BY <1>5, <1>6, <1>7, <1>8 DEF S7IInv

\* A Job or an answer that was missed changes the map in nothing but its own key,
\* which is no longer one that was captured.
LEMMA MissedKeeps ==
  ASSUME S7IInv, NEW k \in Keys, NEW job \in Jobs \union {<<>>},
         asked' = [asked EXCEPT ![k] = job], seen' = seen \ {k},
         age' = [age EXCEPT ![k] = 0], newer' = [newer EXCEPT ![k] = 0],
         UNCHANGED <<pending, emptyTokens>>
  PROVE  S7IInv'
<1>1. /\ pending \in Seq(Entries) /\ Len(pending) <= PendingMax /\ Unique(pending)
      /\ asked \in [Keys -> Jobs \union {<<>>}] /\ age \in [Keys -> 0..(PendingTTL + 1)]
      /\ newer \in [Keys -> 0..PendingMax] /\ seen \subseteq {q \in Keys : asked[q] # <<>>}
      /\ emptyTokens \in BOOLEAN /\ PendingMax \in Nat /\ PendingTTL \in Nat
  BY S7Assumption DEF S7IInv, S7Types
<1>2. \A q \in seen' : /\ q \in seen /\ q # k /\ q \in Keys /\ asked'[q] = asked[q]
                       /\ age'[q] = age[q] /\ newer'[q] = newer[q]
  BY <1>1
<1>3. S7Types'
  <2>1. /\ asked' \in [Keys -> Jobs \union {<<>>}] /\ age' \in [Keys -> 0..(PendingTTL + 1)]
        /\ newer' \in [Keys -> 0..PendingMax]
    BY <1>1
  <2>2. seen' \subseteq {q \in Keys : asked'[q] # <<>>}
    BY <1>1, <1>2
  <2>3. Unique(pending)'
    BY <1>1 DEF Unique
  <2> QED
    BY <1>1, <2>1, <2>2, <2>3 DEF S7Types
<1>4. EntriesTell'
  BY <1>2 DEF S7IInv, EntriesTell
<1>5. JobsRemembered'
  BY <1>2 DEF S7IInv, JobsRemembered
<1> QED
  BY <1>3, <1>4, <1>5 DEF S7IInv

\* An answer takes its entry out of the map.
LEMMA AckKeeps ==
  ASSUME S7IInv, NEW k \in Keys, NEW codes, Ack(k, codes)
  PROVE  S7IInv'
<1> DEFINE other == {i \in 1..Len(pending) : pending[i].key # k}
<1>1. /\ asked' = [asked EXCEPT ![k] = <<>>] /\ seen' = seen \ {k} /\ UNCHANGED emptyTokens
      /\ age' = [age EXCEPT ![k] = 0] /\ newer' = [newer EXCEPT ![k] = 0]
      /\ pending' = Picked(pending, other)
  <2>1. DOMAIN pending = 1..Len(pending)
    BY LenProperties DEF S7IInv, S7Types
  <2>2. pending' = Without(k)
    BY Zenon DEF Ack, parse_ack, pending_key
  <2>3. Without(k) = Picked(pending, other)
    BY <2>1, Zenon DEF Without
  <2> QED
    BY <2>2, <2>3 DEF Ack, Answered
<1>2. /\ pending \in Seq(Entries) /\ Len(pending) <= PendingMax /\ Unique(pending)
      /\ asked \in [Keys -> Jobs \union {<<>>}] /\ age \in [Keys -> 0..(PendingTTL + 1)]
      /\ newer \in [Keys -> 0..PendingMax] /\ seen \subseteq {q \in Keys : asked[q] # <<>>}
      /\ emptyTokens \in BOOLEAN /\ PendingMax \in Nat /\ PendingTTL \in Nat
      /\ Len(pending) \in Nat
  BY S7Assumption, LenProperties DEF S7IInv, S7Types
<1>3. /\ pending' \in Seq(Entries) /\ Len(pending') <= Len(pending) /\ Unique(pending)'
      /\ \A r \in 1..Len(pending') : \E i \in other : pending'[r] = pending[i]
      /\ \A i \in other : \E r \in 1..Len(pending') :
           pending'[r] = pending[i] /\ Len(pending') - r <= Len(pending) - i
  <2> DEFINE ps == Picked(pending, other)
  <2>1. other \in SUBSET (1..Len(pending))
    OBVIOUS
  <2>2. /\ ps \in Seq(Entries) /\ Len(ps) <= Len(pending) /\ Unique(ps)
        /\ \A r \in 1..Len(ps) : \E i \in other : ps[r] = pending[i]
        /\ \A i \in other : \E r \in 1..Len(ps) :
             ps[r] = pending[i] /\ Len(ps) - r <= Len(pending) - i
    <3> HIDE DEF other
    <3> QED
      BY <1>2, <2>1, PickedEntries
  <2>3. pending' = ps
    BY <1>1
  <2> HIDE DEF ps
  <2>4. Unique(pending)'
    BY <2>2, <2>3 DEF Unique
  <2> QED
    BY <2>2, <2>3, <2>4
<1>4. Len(pending') \in Nat
  BY <1>3, LenProperties
<1>5. \A q \in seen' : /\ q \in seen /\ q # k /\ q \in Keys /\ asked'[q] = asked[q]
                       /\ age'[q] = age[q] /\ newer'[q] = newer[q]
  BY <1>1, <1>2
<1>6. S7Types'
  <2>1. /\ asked' \in [Keys -> Jobs \union {<<>>}] /\ age' \in [Keys -> 0..(PendingTTL + 1)]
        /\ newer' \in [Keys -> 0..PendingMax]
    BY <1>1, <1>2
  <2>2. seen' \subseteq {q \in Keys : asked'[q] # <<>>}
    BY <1>1, <1>2, <1>5
  <2>3. Len(pending') <= PendingMax
    BY <1>2, <1>3, <1>4
  <2> QED
    BY <1>1, <1>2, <1>3, <2>1, <2>2, <2>3 DEF S7Types
<1>7. EntriesTell'
  <2> SUFFICES ASSUME NEW r \in 1..Len(pending'), pending'[r].key \in seen'
               PROVE  /\ pending'[r].items = asked'[pending'[r].key]
                      /\ age'[pending'[r].key] <= PendingTTL =>
                           pending'[r].age = age'[pending'[r].key]
    BY DEF EntriesTell
  <2>1. PICK i \in other : pending'[r] = pending[i]
    BY <1>3
  <2> QED
    BY <1>5, <2>1 DEF S7IInv, EntriesTell
<1>8. JobsRemembered'
  <2> SUFFICES ASSUME NEW q \in seen', age'[q] <= PendingTTL, newer'[q] < PendingMax
               PROVE  \E r \in 1..Len(pending') : pending'[r].key = q
                                                  /\ Len(pending') - r <= newer'[q]
    BY DEF JobsRemembered
  <2>1. PICK i \in 1..Len(pending) : pending[i].key = q /\ Len(pending) - i <= newer[q]
    BY <1>5 DEF S7IInv, JobsRemembered
  <2>2. PICK r \in 1..Len(pending') : pending'[r] = pending[i]
                                      /\ Len(pending') - r <= Len(pending) - i
    BY <1>3, <1>5, <2>1
  <2>3. newer'[q] = newer[q] /\ newer[q] \in Nat
    BY <1>2, <1>5
  <2> QED
    BY <1>2, <1>4, <2>1, <2>2, <2>3
<1> QED
  BY <1>6, <1>7, <1>8 DEF S7IInv

\* Time ages the entries and the Jobs alike.
LEMMA S7TickKeeps ==
  ASSUME S7IInv, S7Tick
  PROVE  S7IInv'
<1>1. /\ pending \in Seq(Entries) /\ Len(pending) <= PendingMax /\ Unique(pending)
      /\ asked \in [Keys -> Jobs \union {<<>>}] /\ age \in [Keys -> 0..(PendingTTL + 1)]
      /\ newer \in [Keys -> 0..PendingMax] /\ seen \subseteq {q \in Keys : asked[q] # <<>>}
      /\ emptyTokens \in BOOLEAN /\ PendingMax \in Nat /\ PendingTTL \in Nat \ {0}
      /\ Len(pending) \in Nat /\ DOMAIN pending = 1..Len(pending)
  BY S7Assumption, LenProperties DEF S7IInv, S7Types
<1>2. /\ pending' = [i \in 1..Len(pending) |-> [pending[i] EXCEPT !.age = Older(@, AgeCap)]]
      /\ age' = [k \in Keys |-> IF k \in seen THEN Older(age[k], PendingTTL + 1) ELSE 0]
      /\ UNCHANGED <<asked, emptyTokens, seen, newer>>
  BY <1>1 DEF S7Tick
<1>3. \A i \in 1..Len(pending) : pending[i] \in Entries
  BY <1>1, ElementOfSeq
<1>4. ASSUME NEW i \in 1..Len(pending)
      PROVE  /\ pending'[i] \in Entries /\ pending'[i].key = pending[i].key
             /\ pending'[i].items = pending[i].items
             /\ pending'[i].age = Older(pending[i].age, AgeCap)
  <2>1. AgeCap \in Nat
    BY <1>1 DEF AgeCap
  <2>2. pending[i].age \in 0..AgeCap
    BY <1>3 DEF Entries
  <2>3. Older(pending[i].age, AgeCap) \in 0..AgeCap
    BY <2>1, <2>2 DEF Older
  <2>4. pending'[i] = [pending[i] EXCEPT !.age = Older(pending[i].age, AgeCap)]
    BY <1>2
  <2> HIDE DEF AgeCap, Older
  <2> QED
    BY <1>3, <2>3, <2>4 DEF Entries
<1>5. pending' \in Seq(Entries) /\ Len(pending') = Len(pending)
  <2>1. pending' \in [1..Len(pending) -> Entries]
    BY <1>2, <1>4
  <2> QED
    BY <1>1, <2>1, SeqDef, LenProperties
<1>6. S7Types'
  <2>1. age' \in [Keys -> 0..(PendingTTL + 1)]
    BY <1>1, <1>2 DEF Older
  <2>2. Unique(pending)'
    BY <1>1, <1>4, <1>5 DEF Unique
  <2> QED
    BY <1>1, <1>2, <1>5, <2>1, <2>2 DEF S7Types
<1>7. EntriesTell'
  <2> SUFFICES ASSUME NEW i \in 1..Len(pending), pending[i].key \in seen
               PROVE  /\ pending[i].items = asked[pending[i].key]
                      /\ age'[pending[i].key] <= PendingTTL =>
                           Older(pending[i].age, AgeCap) = age'[pending[i].key]
    BY <1>2, <1>4, <1>5 DEF EntriesTell
  <2> DEFINE k == pending[i].key
  <2>1. /\ pending[i].items = asked[k] /\ (age[k] <= PendingTTL => pending[i].age = age[k])
        /\ k \in Keys /\ age[k] \in 0..(PendingTTL + 1) /\ age'[k] = Older(age[k], PendingTTL + 1)
    BY <1>1, <1>2 DEF S7IInv, EntriesTell
  <2> HIDE DEF k
  <2>2. age'[k] <= PendingTTL => Older(pending[i].age, AgeCap) = age'[k]
    BY <1>1, <2>1 DEF Older, AgeCap
  <2> QED
    BY <2>1, <2>2 DEF k
<1>8. JobsRemembered'
  <2> SUFFICES ASSUME NEW q \in seen, age'[q] <= PendingTTL, newer[q] < PendingMax
               PROVE  \E i \in 1..Len(pending) : pending'[i].key = q
                                                 /\ Len(pending) - i <= newer[q]
    BY <1>2, <1>5 DEF JobsRemembered
  <2>1. age[q] <= PendingTTL
    BY <1>1, <1>2 DEF Older
  <2> QED
    BY <1>4, <2>1 DEF S7IInv, JobsRemembered
<1> QED
  BY <1>6, <1>7, <1>8 DEF S7IInv

\* Every frame, captured or not, keeps the invariant.
LEMMA S7StepKeeps == S7IInv /\ [S7Next]_s7vars => S7IInv'
<1> SUFFICES ASSUME S7IInv, [S7Next]_s7vars PROVE S7IInv'
  OBVIOUS
<1>1. ASSUME NEW k \in Keys, NEW job \in Jobs, JobCaptured(k, job) PROVE S7IInv'
  BY <1>1, JobCapturedKeeps
<1>2. ASSUME NEW k \in Keys, NEW job \in Jobs, JobMissed(k, job) PROVE S7IInv'
  BY <1>2, MissedKeeps DEF JobMissed
<1>3. ASSUME NEW k \in Keys, NEW codes, Ack(k, codes) PROVE S7IInv'
  BY <1>3, AckKeeps
<1>4. ASSUME NEW k \in Keys, AckMissed(k) PROVE S7IInv'
  BY <1>4, MissedKeeps DEF AckMissed, Answered
<1>5. CASE S7Tick
  BY <1>5, S7TickKeeps
<1>6. CASE UNCHANGED s7vars
  BY <1>6 DEF s7vars, s7wire, S7IInv, S7Types, EntriesTell, JobsRemembered, Unique
<1> QED
  BY <1>1, <1>2, <1>3, <1>4, <1>5, <1>6 DEF S7Next

\* The map of Jobs in flight keeps its limit, with one entry per key.
THEOREM S7TypesCorrect == S7Spec => []S7TypeOK
<1>1. S7IInv => S7TypeOK
  <2> SUFFICES ASSUME S7IInv PROVE S7TypeOK
    OBVIOUS
  <2>1. DOMAIN pending = 1..Len(pending) /\ \A i \in 1..Len(pending) : pending[i] \in Entries
    BY LenProperties, ElementOfSeq DEF S7IInv, S7Types
  <2>2. IsInjective([i \in DOMAIN pending |-> pending[i].key])
    BY <2>1 DEF S7IInv, S7Types, Unique, IsInjective
  <2> QED
    BY <2>1, <2>2 DEF S7IInv, S7Types, S7TypeOK, Entries
<1> QED
  BY <1>1, S7InitInvariant, S7StepKeeps, PTL DEF S7Spec

\* An answer gives each value to the address it was read at, or nothing; within the
\* TTL and the limit of the map it is not dropped; and no Job outlives the TTL.
THEOREM AnswersAreTrue == S7Spec => AnswersTellTheJob
<1>1. ASSUME S7IInv, NEW k \in seen, NEW codes \in [DOMAIN asked[k] -> BOOLEAN], Ack(k, codes)
      PROVE  /\ emitted' \in {Nothing, Truth(k, codes)}
             /\ age[k] <= PendingTTL /\ newer[k] < PendingMax => emitted' # Nothing
  <2> DEFINE at == {i \in 1..Len(pending) : pending[i].key = k}
  <2>1. /\ IF at = {} THEN emitted' = Nothing
           ELSE \E i \in at : emitted' = _pair_response(pending[i].items, codes, Values(k, codes))
    <3>1. DOMAIN pending = 1..Len(pending)
      BY LenProperties DEF S7IInv, S7Types
    <3> QED
      BY <1>1, <3>1, Zenon DEF Ack, parse_ack, pending_key
  <2>2. /\ _pair_response(asked[k], codes, Values(k, codes)) = Truth(k, codes)
        /\ Truth(k, codes) # Nothing
    BY <1>1, AnswerIsPaired DEF S7IInv
  <2>3. \A i \in at : pending[i].items = asked[k]
    BY <1>1 DEF S7IInv, EntriesTell
  <2>4. at # {} => emitted' = Truth(k, codes)
    BY <2>1, <2>2, <2>3
  <2>5. age[k] <= PendingTTL /\ newer[k] < PendingMax => at # {}
    BY <1>1 DEF S7IInv, JobsRemembered
  <2> HIDE DEF at
  <2> QED
    BY <2>1, <2>2, <2>4, <2>5
<1>2. S7IInv /\ [S7Next]_s7vars => [TellsTheJob]_s7vars
  BY <1>1, JobCapturedKeeps DEF TellsTheJob
<1> QED
  BY <1>2, S7InitInvariant, S7StepKeeps, PTL DEF S7Spec, AnswersTellTheJob

-----------------------------------------------------------------------------
(* OPC UA: the items are those of the message.                             *)

\* All of a sequence is picked: the sequence.
LEMMA AllPicked ==
  ASSUME NEW S, NEW s \in Seq(S)
  PROVE  Picked(s, 1..Len(s)) = s
<1> DEFINE n == Len(s)
           I == 1..n
<1>1. n \in Nat /\ s \in [1..n -> S]
  BY LenProperties
<1>2. IsFiniteSet(I) /\ Cardinality(I) = n
  BY <1>1, FS_Interval
<1>3. ASSUME NEW i \in I PROVE Rank(I, i) = i
  <2>1. {j \in I : j <= i} = 1..i
    BY <1>1
  <2>2. Cardinality(1..i) = i
    BY FS_Interval
  <2> QED
    BY <2>1, <2>2 DEF Rank
<1>4. /\ Picked(s, I) \in Seq(S) /\ Len(Picked(s, I)) = n
      /\ \A i \in I : Picked(s, I)[Rank(I, i)] = s[i]
  <2>1. I \in SUBSET (1..Len(s))
    OBVIOUS
  <2> HIDE DEF I
  <2> QED
    BY <1>2, <2>1, PicksInOrder
<1>5. Picked(s, I) \in [1..n -> S]
  BY <1>4, LenProperties
<1>6. \A i \in 1..n : Picked(s, I)[i] = s[i]
  BY <1>3, <1>4
<1> HIDE DEF I
<1>7. Picked(s, I) = s
  BY <1>1, <1>5, <1>6
<1> QED
  BY <1>7 DEF I

\* Up to p there are as many indexes of I as p leaves over from the others.
LEMMA RanksAddUp ==
  ASSUME NEW n \in Nat, NEW I \in SUBSET (1..n), NEW p \in 1..n
  PROVE  /\ Rank(I, p) \in Nat /\ Rank((1..n) \ I, p) \in Nat
         /\ Rank(I, p) + Rank((1..n) \ I, p) = p
         /\ Rank((1..n) \ I, p) <= n - Cardinality(I)
         /\ (\A j \in (1..n) \ I : j <= p) => Rank((1..n) \ I, p) = n - Cardinality(I)
<1> DEFINE low  == {j \in I : j <= p}
           P    == (1..n) \ I
           gaps == {j \in P : j <= p}
<1>1. IsFiniteSet(1..n) /\ Cardinality(1..n) = n /\ IsFiniteSet(1..p) /\ Cardinality(1..p) = p
  BY FS_Interval
<1>2. IsFiniteSet(I) /\ IsFiniteSet(P)
  BY <1>1, FS_Subset
<1>3. IsFiniteSet(low) /\ IsFiniteSet(gaps) /\ Cardinality(gaps) <= Cardinality(P)
  <2>1. low \in SUBSET I /\ gaps \in SUBSET P
    OBVIOUS
  <2> HIDE DEF low, gaps, P
  <2> QED
    BY <1>2, <2>1, FS_Subset
<1>4. Cardinality(low) + Cardinality(gaps) = p
  <2>0. \A j \in 1..n : (j \in 1..p <=> j <= p) /\ (j \in I \/ j \in P)
    OBVIOUS
  <2>1. low \union gaps = 1..p /\ low \intersect gaps = {}
    <3>1. \A j \in 1..p : j \in low \union gaps
      BY <2>0
    <3>2. \A j \in low \union gaps : j \in 1..p
      BY <2>0
    <3>3. \A j \in low : j \notin gaps
      OBVIOUS
    <3> HIDE DEF low, gaps
    <3> QED
      BY <3>1, <3>2, <3>3
  <2> HIDE DEF low, gaps
  <2>2. Cardinality(low \union gaps)
          = Cardinality(low) + Cardinality(gaps) - Cardinality(low \intersect gaps)
    BY <1>3, FS_Union
  <2>3. Cardinality(low) \in Nat /\ Cardinality(gaps) \in Nat
    BY <1>3, FS_CardinalityType
  <2>4. Cardinality(low \intersect gaps) = 0
    BY <2>1, FS_EmptySet, Zenon
  <2>5. Cardinality(low \union gaps) = p
    BY <1>1, <2>1, Zenon
  <2> QED
    BY <2>2, <2>3, <2>4, <2>5
<1>5. Cardinality(P) = n - Cardinality(I)
  <2>1. I \union P = 1..n /\ I \intersect P = {}
    OBVIOUS
  <2> HIDE DEF P
  <2>2. Cardinality(I \union P) = Cardinality(I) + Cardinality(P) - Cardinality(I \intersect P)
    BY <1>2, FS_Union
  <2>3. Cardinality(I) \in Nat /\ Cardinality(P) \in Nat
    BY <1>2, FS_CardinalityType
  <2>4. Cardinality(I \intersect P) = 0
    BY <2>1, FS_EmptySet, Zenon
  <2>5. Cardinality(I \union P) = n
    BY <1>1, <2>1, Zenon
  <2> QED
    BY <2>2, <2>3, <2>4, <2>5
<1>6. (\A j \in P : j <= p) => gaps = P
  BY Zenon
<1> HIDE DEF low, gaps, P
<1>7. /\ Cardinality(low) \in Nat /\ Cardinality(gaps) \in Nat
      /\ Cardinality(low) + Cardinality(gaps) = p
      /\ Cardinality(gaps) <= n - Cardinality(I)
      /\ (\A j \in P : j <= p) => Cardinality(gaps) = n - Cardinality(I)
  BY <1>3, <1>4, <1>5, <1>6, FS_CardinalityType
<1> QED
  BY <1>7 DEF low, gaps, P, Rank

\* A request's names as the proofs see them: each has a number, and none is in another
\* namespace than 0 but by its index.
Named(names) ==
  \A i \in 1..Len(names) : /\ names[i].form \in {"plain", "indexed"}
                           /\ names[i].form = "plain" => names[i].ns = 0

\* The namespace of a name can be told: no name at or after it lacks an index, or all
\* names up to it are in namespace 0.
NsTold(names, p) ==
  (\E j \in p..Len(names) : names[j].form = "plain") => \A i \in 1..p : names[i].ns = 0

\* The numbers and the namespace indexes of such names, and the namespaces aligned.
LEMMA NamespacesAligned ==
  ASSUME NEW S, NEW names \in Seq(S), Named(names)
  PROVE  /\ Numerics(names) = [i \in 1..Len(names) |-> names[i].num]
         /\ LET ns == _ns_align(Numerics(names), Nsindexes(names))
            IN  \A p \in 1..Len(names) : NsTold(names, p) => ns[p] = names[p].ns
<1> DEFINE n == Len(names)
           I == {i \in 1..n : names[i].form = "indexed"}
           c == Cardinality(I)
           idx == Nsindexes(names)
<1>1. n \in Nat /\ DOMAIN names = 1..n
  BY LenProperties
<1>2. Numbered(names) = names
  <2>1. {i \in DOMAIN names : names[i].form # "string"} = 1..n
    BY <1>1 DEF Named
  <2>2. Numbered(names) = Picked(names, 1..n)
    BY <2>1, Zenon DEF Numbered
  <2> QED
    BY <2>2, AllPicked
<1>3. Numerics(names) = [i \in 1..n |-> names[i].num]
  BY <1>1, <1>2 DEF Numerics
<1>4. I \in SUBSET (1..n) /\ c \in 0..n
  BY <1>1, Ranks
<1>5. /\ idx \in Seq({x.ns : x \in S}) /\ Len(idx) = c
      /\ \A r \in 1..c : \E i \in I : Rank(I, i) = r /\ idx[r] = names[i].ns
  <2> DEFINE ps == Picked(names, I)
  <2>1. /\ ps \in Seq(S) /\ Len(ps) = c
        /\ \A r \in 1..c : \E i \in I : Rank(I, i) = r /\ ps[r] = names[i]
    <3> HIDE DEF I
    <3> QED
      BY <1>4, PicksInOrder
  <2>2. Indexed(names) = ps
    BY <1>1, Zenon DEF Indexed
  <2> HIDE DEF ps, I
  <2>3. DOMAIN ps = 1..c /\ \A r \in 1..c : ps[r] \in S
    BY <2>1, LenProperties
  <2>4. idx = [r \in 1..c |-> ps[r].ns]
    BY <2>2, <2>3, Zenon DEF Nsindexes
  <2> HIDE DEF idx
  <2>5. idx \in Seq({x.ns : x \in S}) /\ Len(idx) = c
    BY <1>4, <2>3, <2>4
  <2> QED
    BY <2>1, <2>4, <2>5
<1> DEFINE ns == _ns_align(Numerics(names), idx)
<1>6. ASSUME NEW p \in 1..n
      PROVE  ns[p] = IF p > n - c THEN idx[p - (n - c)] ELSE 0
  <2>1. Len(Numerics(names)) = n /\ DOMAIN Numerics(names) = 1..n
    BY <1>1, <1>3
  <2> HIDE DEF idx
  <2> QED
    BY <1>1, <1>4, <1>5, <2>1 DEF _ns_align
<1> HIDE DEF idx, ns, c
<1>7. ASSUME NEW p \in 1..n, NsTold(names, p)
      PROVE  ns[p] = names[p].ns
  <2> DEFINE low  == Rank(I, p)
             gaps == Rank((1..n) \ I, p)
  <2>1. /\ low \in Nat /\ gaps \in Nat /\ low + gaps = p /\ gaps <= n - c
        /\ (\A j \in (1..n) \ I : j <= p) => gaps = n - c
    <3> HIDE DEF I
    <3> QED
      BY <1>1, <1>4, RanksAddUp DEF c
  <2>2. \A j \in 1..n : j \notin I <=> names[j].form = "plain"
    BY DEF Named
  <2>3. /\ IsFiniteSet(I) /\ \A i \in I : Rank(I, i) \in 1..c
        /\ \A i, k \in I : i < k => Rank(I, i) < Rank(I, k)
    <3> HIDE DEF I
    <3> QED
      BY <1>1, <1>4, Ranks DEF c
  <2>5. CASE \E j \in p..n : names[j].form = "plain"
    <3>1. \A i \in 1..p : names[i].ns = 0
      BY <1>7, <2>5 DEF NsTold
    <3>2. names[p].ns = 0
      BY <3>1
    <3>3. CASE p <= n - c
      BY <1>1, <1>4, <1>6, <3>2, <3>3
    <3>4. CASE p > n - c
      <4> DEFINE r == p - (n - c)
      <4>1. r \in 1..c
        BY <1>1, <1>4, <3>4
      <4>2. PICK q \in I : Rank(I, q) = r /\ idx[r] = names[q].ns
        BY <1>5, <4>1
      <4>3. q <= p
        <5> SUFFICES ASSUME q > p PROVE FALSE
          BY <1>4, <4>2
        <5> DEFINE lower == {j \in I : j <= p}
                   upper == {j \in I : j <= q}
        <5>1. lower \in SUBSET upper /\ lower # upper
          <6>1. q \in upper /\ q \notin lower
            BY <1>4, <4>2
          <6>2. \A j \in lower : j \in upper
            BY <1>4, <4>2
          <6> QED
            BY <6>1, <6>2
        <5>2. IsFiniteSet(upper)
          BY <2>3, FS_Subset
        <5> HIDE DEF lower, upper
        <5>3. /\ Cardinality(lower) \in Nat /\ Cardinality(upper) \in Nat
              /\ Cardinality(lower) < Cardinality(upper)
          BY <5>1, <5>2, FS_Subset, FS_CardinalityType
        <5>4. Cardinality(lower) = low /\ Cardinality(upper) = r
          BY <4>2 DEF lower, upper, Rank
        <5> QED
          BY <1>1, <1>4, <2>1, <5>3, <5>4
      <4>4. q \in 1..p
        BY <1>4, <4>3
      <4> QED
        BY <1>6, <3>1, <3>2, <3>4, <4>2, <4>4
    <3> QED
      BY <1>1, <1>4, <3>3, <3>4
  <2>6. CASE ~ \E j \in p..n : names[j].form = "plain"
    <3>1. p \in I /\ \A j \in (1..n) \ I : j <= p
      BY <2>2, <2>6
    <3>2. Rank(I, p) = p - (n - c)
      <4>1. Rank(I, p) = low /\ gaps = n - c
        BY <2>1, <3>1
      <4> HIDE DEF I, n, low, gaps
      <4> QED
        BY <1>1, <1>4, <2>1, <4>1
    <3>3. p - (n - c) \in 1..c /\ p > n - c
      BY <1>1, <1>4, <2>3, <3>1, <3>2
    <3>4. PICK q \in I : Rank(I, q) = p - (n - c) /\ idx[p - (n - c)] = names[q].ns
      BY <1>5, <3>3
    <3>5. q = p
      <4>1. ~(q < p) /\ ~(p < q)
        BY <1>4, <2>3, <3>1, <3>2, <3>3, <3>4
      <4> QED
        BY <1>4, <3>1, <3>4, <4>1
    <3> QED
      BY <1>6, <3>3, <3>4, <3>5
  <2> QED
    BY <2>5, <2>6
<1> QED
  BY <1>3, <1>7 DEF ns, idx

\* The type bytes are the Variants in order, and up to an item that can be told each
\* is that of the item at its place.
LEMMA TypesInOrder ==
  ASSUME NEW S, message \in Seq(S), NEW types, types = TypeBytes(message)
  PROVE  /\ Len(message) \in Nat /\ Len(types) \in 0..Len(message)
         /\ types = [i \in 1..Len(types) |-> types[i]]
         /\ \E at \in [1..Len(types) -> 1..Len(message)] :
              /\ \A i \in 1..Len(types) : types[i] = message[at[i]].variant
              /\ \A i, j \in 1..Len(types) : at[i] = at[j] => i = j
              /\ \A i \in 1..Len(message) : Told(i) =>
                   i <= Len(types) /\ \A j \in 1..i : at[j] = j
<1> DEFINE n == Len(message)
           T == {i \in 1..n : message[i].variant # Empty}
           c == Cardinality(T)
           ps == Picked(message, T)
<1>1. n \in Nat /\ DOMAIN message = 1..n
  BY LenProperties
<1>2. /\ T \in SUBSET (1..n) /\ c \in 0..n /\ IsFiniteSet(T) /\ \A i \in T : Rank(T, i) \in 1..c
      /\ \A i, k \in T : i < k => Rank(T, i) < Rank(T, k)
      /\ \A r \in 1..c : \E i \in T : Rank(T, i) = r
  <2>1. T \in SUBSET (1..n)
    OBVIOUS
  <2> HIDE DEF T
  <2> QED
    BY <1>1, <2>1, Ranks
<1>3. /\ ps \in Seq(S) /\ Len(ps) = c
      /\ \A r \in 1..c : \E i \in T : Rank(T, i) = r /\ ps[r] = message[i]
  <2> HIDE DEF T
  <2> QED
    BY <1>2, PicksInOrder
<1>4. DOMAIN ps = 1..c
  BY <1>3, LenProperties
<1>5. types = [i \in DOMAIN ps |-> ps[i].variant]
  BY <1>1, Zenon DEF TypeBytes
<1> HIDE DEF c, ps
<1>6. types = [i \in 1..c |-> ps[i].variant] /\ Len(types) = c
  BY <1>2, <1>4, <1>5
<1> DEFINE at == [r \in 1..c |-> CHOOSE i \in T : Rank(T, i) = r /\ ps[r] = message[i]]
<1>7. \A r \in 1..c : at[r] \in T /\ Rank(T, at[r]) = r /\ ps[r] = message[at[r]]
  BY <1>3, Zenon
<1>8. at \in [1..c -> 1..n]
  BY <1>7
<1> HIDE DEF at
<1>9. \A i \in 1..c : types[i] = message[at[i]].variant
  BY <1>6, <1>7
<1>10. \A i, j \in 1..c : at[i] = at[j] => i = j
  BY <1>7
<1>11. ASSUME NEW i \in 1..n, Told(i)
       PROVE  i <= c /\ \A j \in 1..i : at[j] = j
  <2>1. ASSUME NEW k \in 1..i PROVE k \in T /\ Rank(T, k) = k
    <3>1. \A j \in 1..i : j \in T
      BY <1>1, <1>11 DEF Told
    <3>2. k \in T
      BY <3>1
    <3>3. {j \in T : j <= k} = 1..k
      <4>1. \A j \in T : j <= k => j \in 1..k
        OBVIOUS
      <4>2. \A j \in 1..k : j \in T /\ j <= k
        BY <3>1
      <4> HIDE DEF T
      <4> QED
        BY <4>1, <4>2
    <3>4. Cardinality(1..k) = k
      BY FS_Interval
    <3> QED
      BY <3>2, <3>3, <3>4 DEF Rank
  <2>2. i <= c
    <3>1. i \in T /\ Rank(T, i) = i
      BY <2>1
    <3> QED
      BY <1>2, <3>1
  <2>3. ASSUME NEW k \in 1..i PROVE at[k] = k
    <3>1. k \in 1..c
      BY <1>2, <2>2
    <3>2. at[k] \in T /\ Rank(T, at[k]) = k
      BY <1>7, <3>1
    <3>3. k \in T /\ Rank(T, k) = k
      BY <2>1
    <3>4. ~(at[k] < k) /\ ~(k < at[k]) /\ at[k] \in Int
      BY <1>2, <3>2, <3>3
    <3> QED
      BY <3>4
  <2> QED
    BY <2>2, <2>3
<1>12. types = [i \in 1..c |-> types[i]]
  BY <1>6
<1> QED
  BY <1>1, <1>2, <1>6, <1>8, <1>9, <1>10, <1>11, <1>12

\* Which places of the column's superset an item prints.
LEMMA CellsOfItems ==
  ASSUME NEW S, message \in Seq(S), NEW t
  PROVE  /\ Cells(message) \in Seq([item : 1..Len(message), part : {1, 2}])
         /\ Len(Cells(message)) = 2 * Len(message)
         /\ Printed(message, t) \in SUBSET (1..(2 * Len(message)))
         /\ \A i \in 1..Len(message) :
              /\ 2 * i - 1 \in 1..(2 * Len(message))
              /\ Cells(message)[2 * i - 1] = [item |-> i, part |-> 1]
              /\ message[i].variant.type = t => 2 * i - 1 \in Printed(message, t)
         /\ \A c \in Printed(message, t) : \E i \in 1..Len(message) :
              /\ message[i].variant.type = t
              /\ c \in {2 * i - 1, 2 * i}
              /\ c = 2 * i => message[i].variant.array
<1> DEFINE n == Len(message)
           cells == Cells(message)
<1>1. n \in Nat
  BY LenProperties
<1>2. cells = [c \in 1..(2 * n) |-> [item |-> (c + 1) \div 2, part |-> 2 - (c % 2)]]
  BY DEF Cells
<1>3. \A c \in 1..(2 * n) :
        /\ (c + 1) \div 2 \in 1..n /\ 2 - (c % 2) \in {1, 2}
        /\ c \in {2 * ((c + 1) \div 2) - 1, 2 * ((c + 1) \div 2)}
        /\ c = 2 * ((c + 1) \div 2) => 2 - (c % 2) = 2
  BY <1>1
<1>4. \A i \in 1..n : /\ 2 * i - 1 \in 1..(2 * n)
                      /\ ((2 * i - 1) + 1) \div 2 = i /\ 2 - ((2 * i - 1) % 2) = 1
  BY <1>1
<1>5. \A c \in 1..(2 * n) : /\ cells[c] \in [item : 1..n, part : {1, 2}]
                            /\ cells[c].item = (c + 1) \div 2 /\ cells[c].part = 2 - (c % 2)
  BY <1>2, <1>3
<1>6. cells \in Seq([item : 1..n, part : {1, 2}]) /\ Len(cells) = 2 * n /\ DOMAIN cells = 1..(2 * n)
  BY <1>1, <1>2, <1>5
<1>7. \A c : c \in Printed(message, t) <=>
        /\ c \in 1..(2 * n)
        /\ message[cells[c].item].variant.type = t
        /\ cells[c].part = 1 \/ message[cells[c].item].variant.array
  BY <1>6 DEF Printed
<1> HIDE DEF cells
<1>8. ASSUME NEW i \in 1..n
      PROVE  /\ 2 * i - 1 \in 1..(2 * n) /\ cells[2 * i - 1] = [item |-> i, part |-> 1]
             /\ message[i].variant.type = t => 2 * i - 1 \in Printed(message, t)
  <2>1. cells[2 * i - 1] = [item |-> i, part |-> 1]
    BY <1>2, <1>4
  <2> QED
    BY <1>4, <1>7, <2>1
<1>9. ASSUME NEW c \in Printed(message, t)
      PROVE  \E i \in 1..n : /\ message[i].variant.type = t
                             /\ c \in {2 * i - 1, 2 * i}
                             /\ c = 2 * i => message[i].variant.array
  <2> DEFINE i == (c + 1) \div 2
  <2>1. c \in 1..(2 * n) /\ cells[c].item = i /\ cells[c].part = 2 - (c % 2)
    BY <1>5, <1>7
  <2>2. i \in 1..n /\ c \in {2 * i - 1, 2 * i} /\ (c = 2 * i => cells[c].part # 1)
    BY <1>3, <2>1
  <2> HIDE DEF i
  <2> QED
    BY <1>7, <2>1, <2>2
<1> QED
  BY <1>6, <1>7, <1>8, <1>9 DEF cells

\* What a cursor counts among the first i types.
Counted(types, i) == {j \in 1..i : Readable(types[j]) /\ types[j].type = types[i].type}

\* Every readable type byte finds a value in its column, and an item that can be told
\* its own.
LEMMA ValuesAreRead ==
  ASSUME NEW S, message \in Seq(S), NEW types, types = TypeBytes(message),
         NEW vals, vals = _zip_values(types, message)
  PROVE  /\ Len(message) \in Nat /\ Len(vals) \in 0..Len(message)
         /\ \A i \in 1..Len(vals) : vals[i].unhandled <=> vals[i].value = NotRead
         /\ \A i \in 1..Len(message) : Told(i) =>
              /\ i <= Len(vals)
              /\ vals[i].value = IF Readable(message[i].variant) THEN [item |-> i, part |-> 1]
                                 ELSE NotRead
<1> DEFINE n == Len(message)
           c == Len(types)
<1>1. /\ n \in Nat /\ c \in 0..n /\ types = [i \in 1..c |-> types[i]]
  BY TypesInOrder
<1>2. PICK at \in [1..c -> 1..n] :
        /\ \A i \in 1..c : types[i] = message[at[i]].variant
        /\ \A i, j \in 1..c : at[i] = at[j] => i = j
        /\ \A i \in 1..n : Told(i) => i <= c /\ \A j \in 1..i : at[j] = j
  BY TypesInOrder
<1> HIDE DEF c
<1>3. vals = [i \in 1..c |->
                IF ~Readable(types[i]) THEN [value |-> NotRead, unhandled |-> TRUE]
                ELSE [value |-> IF CursorAt(types, i) <= Len(Column(message, types[i].type))
                                THEN Column(message, types[i].type)[CursorAt(types, i)]
                                ELSE NotRead,
                      unhandled |-> FALSE]]
  <2>1. DOMAIN types = 1..c
    BY <1>1
  <2> QED
    BY <2>1, Zenon DEF _zip_values
<1>4. Len(vals) = c
  BY <1>1, <1>3
<1>5. ASSUME NEW i \in 1..c, Readable(types[i])
      PROVE  LET t   == types[i].type
                 col == Column(message, t)
                 k   == CursorAt(types, i)
             IN  /\ k \in 1..Len(col) /\ col[k] # NotRead
                 /\ i \in 1..n /\ Told(i) => col[k] = [item |-> i, part |-> 1]
  <2> DEFINE t == types[i].type
             J == Counted(types, i)
             C == Printed(message, t)
             col == Picked(Cells(message), C)
             d == Cardinality(C)
             f == [j \in J |-> 2 * at[j] - 1]
  <2>0. Column(message, t) = col /\ CursorAt(types, i) = Cardinality(J)
    BY DEF Column, CursorAt, Counted
  <2>1. /\ Cells(message) \in Seq([item : 1..n, part : {1, 2}]) /\ Len(Cells(message)) = 2 * n
        /\ C \in SUBSET (1..(2 * n))
        /\ \A m \in 1..n :
             /\ 2 * m - 1 \in 1..(2 * n)
             /\ Cells(message)[2 * m - 1] = [item |-> m, part |-> 1]
             /\ message[m].variant.type = t => 2 * m - 1 \in C
        /\ \A x \in C : \E m \in 1..n :
             /\ message[m].variant.type = t
             /\ x \in {2 * m - 1, 2 * m}
             /\ x = 2 * m => message[m].variant.array
    BY CellsOfItems
  <2> HIDE DEF C
  <2>2. /\ IsFiniteSet(C) /\ d \in Nat
        /\ \A x \in C : Rank(C, x) \in 1..d
    <3> DEFINE m == 2 * n
    <3>1. m \in Nat /\ C \in SUBSET (1..m)
      BY <1>1, <2>1
    <3> HIDE DEF m, n
    <3>2. /\ IsFiniteSet(C) /\ Cardinality(C) \in 0..m
          /\ \A x \in C : Rank(C, x) \in 1..Cardinality(C)
      BY <3>1, Ranks
    <3> QED
      BY <3>1, <3>2
  <2>3. /\ col \in Seq([item : 1..n, part : {1, 2}]) /\ Len(col) = d
        /\ \A x \in C : col[Rank(C, x)] = Cells(message)[x]
    BY <2>1, PicksInOrder
  <2> HIDE DEF col
  <2>4. J \in SUBSET (1..i) /\ i \in J /\ IsFiniteSet(J) /\ Cardinality(J) \in 1..i
    <3>1. J \in SUBSET (1..i) /\ i \in J
      BY <1>5 DEF Counted
    <3> DEFINE all == 1..i
    <3> HIDE DEF J
    <3>2. IsFiniteSet(all) /\ Cardinality(all) = i /\ J \in SUBSET all
      <4>1. i \in Nat /\ 1 <= i
        BY <1>1
      <4>2. IsFiniteSet(1..i) /\ Cardinality(1..i) = i
        BY <4>1, FS_Interval
      <4> QED
        BY <3>1, <4>2, Zenon
    <3> HIDE DEF all
    <3>3. IsFiniteSet(J) /\ Cardinality(J) <= i
      <4>1. IsFiniteSet(J) /\ Cardinality(J) <= Cardinality(all)
        BY <3>2, FS_Subset, Zenon
      <4> QED
        BY <3>2, <4>1, Zenon
    <3>4. Cardinality(J) \in Nat /\ Cardinality(J) # 0
      BY <3>1, <3>3, FS_CardinalityType, FS_EmptySet
    <3> QED
      BY <1>1, <3>1, <3>3, <3>4
  <2>5. \A j \in J : j \in 1..c /\ Readable(types[j]) /\ types[j].type = t
    BY <1>1, <2>4 DEF Counted
  <2> HIDE DEF J
  <2>6. f \in Injection(J, C)
    <3>1. ASSUME NEW j \in J PROVE at[j] \in 1..n /\ 2 * at[j] - 1 \in C
      <4>1. j \in 1..c /\ types[j].type = t
        BY <2>5
      <4>2. at[j] \in 1..n /\ message[at[j]].variant.type = t
        BY <1>2, <4>1
      <4> HIDE DEF t
      <4> QED
        BY <2>1, <4>2
    <3>2. f \in [J -> C]
      BY <3>1
    <3>3. \A j, k \in J : f[j] = f[k] => j = k
      <4> SUFFICES ASSUME NEW j \in J, NEW k \in J, f[j] = f[k] PROVE j = k
        OBVIOUS
      <4>1. at[j] = at[k]
        BY <3>1
      <4> QED
        BY <1>2, <2>5, <4>1
    <3> QED
      BY <3>2, <3>3 DEF Injection, IsInjective
  <2>7. Cardinality(J) <= d
    BY <2>2, <2>6, FS_Injection
  <2>8. Cardinality(J) \in 1..d
    BY <1>1, <2>2, <2>4, <2>7
  <2>9. col[Cardinality(J)] # NotRead
    <3>1. col[Cardinality(J)] \in [item : 1..n, part : {1, 2}]
      BY <2>3, <2>8, ElementOfSeq
    <3> QED
      BY <3>1 DEF NotRead
  <2>10. ASSUME i \in 1..n, Told(i) PROVE col[Cardinality(J)] = [item |-> i, part |-> 1]
    <3>1. i <= c /\ \A j \in 1..i : at[j] = j /\ types[j] = message[j].variant
      <4>1. \A j \in 1..i : at[j] = j /\ j \in 1..c
        BY <1>1, <1>2, <2>10
      <4> QED
        BY <1>2, <2>10, <4>1
    <3>2. 2 * i - 1 \in C
      <4>0. types[i] = message[i].variant
        BY <2>10, <3>1
      <4>1. message[i].variant.type = t
        BY <4>0, Zenon
      <4> HIDE DEF t
      <4> QED
        BY <2>1, <2>10, <4>1
    <3> DEFINE D == {x \in C : x <= 2 * i - 1}
    <3>3. f \in Surjection(J, D)
      <4>1. \A j \in J : f[j] = 2 * j - 1 /\ f[j] \in C /\ j \in 1..i
        BY <2>4, <2>6, <3>1 DEF Injection
      <4>2. \A j \in J : f[j] \in D
        BY <4>1
      <4>3. f \in [J -> D]
        BY <4>2
      <4>4. ASSUME NEW x \in D PROVE \E j \in J : f[j] = x
        <5>1. PICK m \in 1..n : /\ message[m].variant.type = t
                                /\ x \in {2 * m - 1, 2 * m}
                                /\ x = 2 * m => message[m].variant.array
          BY <2>1
        <5>2. m \in 1..i /\ (m = i => x = 2 * m - 1)
          BY <5>1
        <5>3. ~message[m].variant.array
          <6>1. CASE m = i
            BY <1>5, <3>1, <6>1 DEF Readable
          <6>2. CASE m # i
            <7>1. m \in 1..(i - 1)
              BY <5>2, <6>2
            <7>2. message[i].variant.type = t
              BY <3>1
            <7> QED
              BY <2>10, <5>1, <7>1, <7>2 DEF Told
          <6> QED
            BY <6>1, <6>2
        <5>4. x = 2 * m - 1
          BY <5>1, <5>3
        <5>5. m \in J
          <6>1. types[m] = message[m].variant /\ t \in Types
            BY <1>5, <3>1, <5>2 DEF Readable
          <6>2. Readable(types[m])
            BY <5>1, <5>3, <6>1 DEF Readable
          <6> QED
            BY <5>1, <5>2, <6>1, <6>2 DEF J, Counted
        <5> QED
          BY <4>1, <5>4, <5>5
      <4> HIDE DEF D, f
      <4> QED
        BY <4>3, <4>4 DEF Surjection
    <3>4. IsFiniteSet(D) /\ Cardinality(D) = Cardinality(J)
      <4>1. f \in Injection(J, D)
        <5>1. f \in [J -> D] /\ IsInjective(f)
          BY <2>6, <3>3 DEF Injection, Surjection
        <5> HIDE DEF f, D
        <5> QED
          BY <5>1 DEF Injection
      <4>2. f \in Bijection(J, D)
        BY <3>3, <4>1 DEF Bijection
      <4> HIDE DEF f, D
      <4> QED
        BY <2>4, <4>2, FS_Bijection DEF ExistsBijection
    <3>5. Rank(C, 2 * i - 1) = Cardinality(J)
      BY <3>4 DEF Rank
    <3> QED
      BY <2>1, <2>3, <2>10, <3>2, <3>5
  <2> HIDE DEF t, d
  <2>11. /\ Cardinality(J) \in 1..Len(col) /\ col[Cardinality(J)] # NotRead
         /\ i \in 1..n /\ Told(i) => col[Cardinality(J)] = [item |-> i, part |-> 1]
    BY <2>3, <2>8, <2>9, <2>10
  <2> QED
    BY <2>0, <2>11 DEF t
<1>6. ASSUME NEW i \in 1..c PROVE vals[i].unhandled <=> vals[i].value = NotRead
  <2>1. CASE ~Readable(types[i])
    BY <1>3, <2>1
  <2>2. CASE Readable(types[i])
    <3> DEFINE col == Column(message, types[i].type)
               k   == CursorAt(types, i)
    <3>1. k \in 1..Len(col) /\ col[k] # NotRead
      BY <1>5, <2>2, Zenon
    <3>2. vals[i] = [value |-> IF k <= Len(col) THEN col[k] ELSE NotRead, unhandled |-> FALSE]
      BY <1>3, <2>2
    <3> HIDE DEF col, k
    <3> QED
      BY <3>1, <3>2
  <2> QED
    BY <2>1, <2>2
<1>7. ASSUME NEW i \in 1..n, Told(i)
      PROVE  /\ i <= c
             /\ vals[i].value = IF Readable(message[i].variant) THEN [item |-> i, part |-> 1]
                                ELSE NotRead
  <2>1. i \in 1..c /\ types[i] = message[i].variant
    BY <1>1, <1>2, <1>7
  <2> QED
    BY <1>3, <1>5, <1>7, <2>1
<1> QED
  BY <1>1, <1>4, <1>6, <1>7

\* Names and values put together: each item has its name, and its value as the columns
\* tell.
LEMMA ItemsArePaired ==
  ASSUME NEW S, message \in Seq(S), NEW X, NEW names \in Seq(X), Len(names) <= Len(message),
         NEW its, its = Paired(names, _zip_values(TypeBytes(message), message))
  PROVE  /\ its \in Seq({its[i] : i \in 1..Len(names)})
         /\ Len(its) = Len(names) /\ DOMAIN its = 1..Len(names)
         /\ \A i \in 1..Len(names) :
              /\ its[i].name = names[i]
              /\ its[i].unhandled <=> its[i].value = NotRead
              /\ Told(i) => its[i].value = IF Readable(message[i].variant)
                                           THEN [item |-> i, part |-> 1] ELSE NotRead
<1> DEFINE n == Len(names)
           vals == _zip_values(TypeBytes(message), message)
<1>1. n \in Nat /\ DOMAIN names = 1..n /\ \A i \in 1..n : names[i] \in X
  BY LenProperties
<1>2. /\ Len(message) \in Nat /\ Len(vals) \in 0..Len(message)
      /\ \A i \in 1..Len(vals) : vals[i].unhandled <=> vals[i].value = NotRead
      /\ \A i \in 1..Len(message) : Told(i) =>
           /\ i <= Len(vals)
           /\ vals[i].value = IF Readable(message[i].variant) THEN [item |-> i, part |-> 1]
                              ELSE NotRead
  BY ValuesAreRead
<1> HIDE DEF vals
<1>3. its = [i \in 1..n |->
               [name      |-> names[i],
                value     |-> (IF i <= Len(vals) THEN vals[i] ELSE NoPair).value,
                unhandled |-> (IF i <= Len(vals) THEN vals[i] ELSE NoPair).unhandled]]
  BY <1>1, Zenon DEF Paired, vals
<1> HIDE DEF n
<1>4. ASSUME NEW i \in 1..n
      PROVE  /\ its[i] = [name |-> names[i], value |-> its[i].value, unhandled |-> its[i].unhandled]
             /\ its[i].name = names[i]
             /\ its[i].value = (IF i <= Len(vals) THEN vals[i] ELSE NoPair).value
             /\ its[i].unhandled = (IF i <= Len(vals) THEN vals[i] ELSE NoPair).unhandled
  BY <1>3
<1>5. ASSUME NEW i \in 1..n
      PROVE  /\ its[i].unhandled <=> its[i].value = NotRead
             /\ Told(i) => its[i].value = IF Readable(message[i].variant)
                                          THEN [item |-> i, part |-> 1] ELSE NotRead
  <2>1. CASE i <= Len(vals)
    <3>1. i \in 1..Len(vals) /\ i \in 1..Len(message)
      BY <1>1, <1>2, <2>1
    <3>2. its[i].value = vals[i].value /\ its[i].unhandled = vals[i].unhandled
      BY <1>4, <2>1, Zenon
    <3> QED
      BY <1>2, <3>1, <3>2, Zenon
  <2>2. CASE ~(i <= Len(vals))
    <3>1. its[i].value = NoPair.value /\ its[i].unhandled = NoPair.unhandled
      BY <1>4, <2>2, Zenon
    <3>2. ~Told(i)
      <4>1. i \in 1..Len(message)
        BY <1>1, <1>2 DEF n
      <4> QED
        BY <1>2, <2>2, <4>1
    <3> QED
      BY <3>1, <3>2 DEF NoPair
  <2> QED
    BY <2>1, <2>2
<1>6. Len(its) = n /\ DOMAIN its = 1..n
  BY <1>1, <1>3
<1>7. its \in Seq({its[i] : i \in 1..n})
  <2>1. its = [i \in 1..n |-> its[i]]
    BY <1>3
  <2> DEFINE Y == {its[i] : i \in 1..n}
  <2>2. \A i \in 1..n : its[i] \in Y
    OBVIOUS
  <2> HIDE DEF Y
  <2>3. its \in [1..n -> Y]
    BY <2>1, <2>2
  <2>4. its \in Seq(Y)
    BY <1>1, <2>3, SeqDef
  <2> QED
    BY <2>4 DEF Y
<1> QED
  BY <1>4, <1>5, <1>6, <1>7 DEF n

\* What the extractor made of the last message it took apart.
OpcuaInv ==
  /\ op \in {"NONE", "PUBLISH_RESPONSE", "WRITE_REQUEST"}
  /\ op = "NONE" => items = <<>>
  /\ op = "PUBLISH_RESPONSE" =>
       /\ message \in Seq([name : Handles, variant : Variants])
       /\ items = _parse_sub_items(message)
       /\ samples = [k \in StateKeys |-> extract_state_samples(items, k)]
  /\ op = "WRITE_REQUEST" =>
       /\ message \in Seq([name : Nodes, variant : Variants])
       /\ items = _parse_write_items(message)

\* No message leaves anything behind for the next.
LEMMA OpcuaInvariant == OpcuaSpec => []OpcuaInv
<1>1. OpcuaInit => OpcuaInv
  BY DEF OpcuaInit, OpcuaInv
<1>2. ASSUME NEW N, NEW msg \in Messages(N) PROVE msg \in Seq([name : N, variant : Variants])
  <2> DEFINE A == [name : N, variant : Variants]
  <2>1. msg \in UNION {[1..m -> A] : m \in 0..MaxItems}
    BY Zenon DEF Messages, BoundedSeq, SeqOf
  <2>2. PICK m \in 0..MaxItems : msg \in [1..m -> A]
    BY <2>1, Zenon
  <2>3. m \in Nat
    BY <2>2
  <2> HIDE DEF A
  <2>4. msg \in Seq(A)
    BY <2>2, <2>3, SeqDef
  <2> QED
    BY <2>4 DEF A
<1>3. OpcuaInv /\ [OpcuaNext]_opcuaVars => OpcuaInv'
  <2> SUFFICES ASSUME OpcuaInv, [OpcuaNext]_opcuaVars PROVE OpcuaInv'
    OBVIOUS
  <2>1. CASE Publish
    BY <1>2, <2>1 DEF Publish, OpcuaInv
  <2>2. CASE WriteRequest
    BY <1>2, <2>2 DEF WriteRequest, OpcuaInv
  <2>3. CASE NextMessage
    BY <2>3 DEF NextMessage, OpcuaInv
  <2>4. CASE UNCHANGED opcuaVars
    BY <2>4 DEF opcuaVars, OpcuaInv
  <2> QED
    BY <2>1, <2>2, <2>3, <2>4 DEF OpcuaNext
<1> QED
  BY <1>1, <1>3, PTL DEF OpcuaSpec

\* The items of a PublishResponse: one per item of the message, each with its handle.
LEMMA PublishedItems ==
  ASSUME OpcuaInv, op = "PUBLISH_RESPONSE"
  PROVE  /\ Len(message) \in Nat /\ DOMAIN message = 1..Len(message)
         /\ items \in Seq({items[i] : i \in 1..Len(message)})
         /\ Len(items) = Len(message) /\ DOMAIN items = 1..Len(message)
         /\ \A i \in 1..Len(message) :
              /\ message[i].name \in Handles /\ items[i].name = message[i].name
              /\ items[i].unhandled <=> items[i].value = NotRead
              /\ Told(i) => items[i].value = IF Readable(message[i].variant)
                                             THEN [item |-> i, part |-> 1] ELSE NotRead
<1> DEFINE Sent  == [name : Handles, variant : Variants]
           names == [i \in 1..Len(message) |-> message[i].name]
<1>1. message \in Seq(Sent) /\ items = _parse_sub_items(message)
  BY DEF OpcuaInv
<1>2. /\ Len(message) \in Nat /\ DOMAIN message = 1..Len(message)
      /\ \A i \in 1..Len(message) : message[i] \in Sent
  <2> HIDE DEF Sent
  <2> QED
    BY <1>1, LenProperties
<1>3. \A i \in 1..Len(message) : message[i].name \in Handles
  BY <1>2
<1> HIDE DEF Sent
<1>4. names \in Seq(Handles) /\ Len(names) = Len(message)
  BY <1>2, <1>3
<1>5. items = Paired(names, _zip_values(TypeBytes(message), message))
  BY <1>1, <1>2, Zenon DEF _parse_sub_items
<1>6. \A i \in 1..Len(message) : names[i] = message[i].name
  OBVIOUS
<1> HIDE DEF names
<1>7. /\ items \in Seq({items[i] : i \in 1..Len(names)})
      /\ Len(items) = Len(names) /\ DOMAIN items = 1..Len(names)
      /\ \A i \in 1..Len(names) :
           /\ items[i].name = names[i]
           /\ items[i].unhandled <=> items[i].value = NotRead
           /\ Told(i) => items[i].value = IF Readable(message[i].variant)
                                          THEN [item |-> i, part |-> 1] ELSE NotRead
  <2>1. Len(names) <= Len(message)
    BY <1>2, <1>4
  <2> QED
    BY <1>1, <1>4, <1>5, <2>1, ItemsArePaired
<1> QED
  BY <1>2, <1>3, <1>4, <1>6, <1>7, Zenon

\* Every node has one of three forms, and an index unless it is in namespace 0.
LEMMA NodesHaveForms ==
  \A x \in Nodes : x.form \in {"plain", "indexed", "string"} /\ (x.form = "plain" => x.ns = 0)
BY OpcuaAssumption

\* The items of a WriteRequest: no more than the message has, each with its value; and
\* all of them, with their own names, if those can be told.
LEMMA WrittenItems ==
  ASSUME OpcuaInv, op = "WRITE_REQUEST"
  PROVE  /\ Len(message) \in Nat /\ DOMAIN message = 1..Len(message)
         /\ DOMAIN items = 1..Len(items) /\ Len(items) \in 0..Len(message)
         /\ \A i \in 1..Len(items) :
              /\ items[i].unhandled <=> items[i].value = NotRead
              /\ Told(i) => items[i].value = IF Readable(message[i].variant)
                                             THEN [item |-> i, part |-> 1] ELSE NotRead
         /\ NamesTold => /\ Len(items) = Len(message)
                         /\ \A i \in 1..Len(message) :
                              items[i].name = [num |-> message[i].name.num,
                                               ns  |-> message[i].name.ns]
<1> DEFINE Sent     == [name : Nodes, variant : Variants]
           All      == Nodes \union {Envelope[i] : i \in DOMAIN Envelope}
           ownNames == [i \in DOMAIN message |-> message[i].name]
           names    == Envelope \o ownNames
           numerics == Numerics(names)
           ns       == _ns_align(numerics, Nsindexes(names))
           n        == IF Len(numerics) >= Len(message) THEN Len(message) ELSE Len(numerics)
           base     == Len(numerics) - n
           targets  == [i \in 1..n |-> [num |-> numerics[base + i], ns |-> ns[base + i]]]
           lead     == Len(Envelope)
           len      == Len(message)
<1>1. message \in Seq(Sent) /\ items = _parse_write_items(message)
  BY DEF OpcuaInv
<1>2. /\ len \in Nat /\ DOMAIN message = 1..len
      /\ \A i \in 1..len : message[i] \in Sent
  <2> HIDE DEF Sent
  <2> QED
    BY <1>1, LenProperties
<1>3. \A i \in 1..len : message[i].name \in Nodes
  BY <1>2
<1> HIDE DEF Sent
<1>4. ownNames \in Seq(Nodes) /\ Len(ownNames) = len /\ \A i \in 1..len : ownNames[i] = message[i].name
  BY <1>2, <1>3
<1>5. /\ Envelope \in Seq({Envelope[i] : i \in DOMAIN Envelope}) /\ lead \in Nat
      /\ DOMAIN Envelope = 1..lead
  BY OpcuaAssumption, LenProperties
<1>6. /\ names \in Seq(All) /\ Len(names) = lead + len
      /\ \A i \in 1..lead : names[i] = Envelope[i]
      /\ \A i \in 1..len : names[lead + i] = message[i].name
  <2> DEFINE E == {Envelope[i] : i \in DOMAIN Envelope}
  <2>1. All = Nodes \union E
    OBVIOUS
  <2> HIDE DEF E, All, ownNames
  <2>2. Envelope \in Seq(All) /\ ownNames \in Seq(All)
    BY <1>4, <1>5, <2>1, SeqDef DEF E
  <2>3. /\ names \in Seq(All) /\ Len(names) = lead + len
        /\ \A i \in 1..(lead + len) : names[i] = IF i <= lead THEN Envelope[i] ELSE ownNames[i - lead]
    <3>1. names = Envelope \o ownNames
      OBVIOUS
    <3> HIDE DEF names, n, base, len, lead
    <3>2. Len(Envelope) = lead /\ Len(ownNames) = len
      BY <1>4 DEF lead
    <3> QED
      BY <2>2, <3>1, <3>2, ConcatProperties
  <2> HIDE DEF names
  <2>4. \A i \in 1..lead : names[i] = Envelope[i]
    BY <1>2, <1>5, <2>3
  <2>5. \A i \in 1..len : names[lead + i] = message[i].name
    <3> TAKE i \in 1..len
    <3>1. lead + i \in 1..(lead + len) /\ ~(lead + i <= lead) /\ (lead + i) - lead = i
      BY <1>2, <1>5
    <3> HIDE DEF len, lead
    <3> QED
      BY <1>4, <2>3, <3>1
  <2> QED
    BY <2>3, <2>4, <2>5
<1>7. Len(numerics) \in Nat
  <2> DEFINE I == {i \in 1..Len(names) : names[i].form # "string"}
  <2> HIDE DEF names
  <2>1. DOMAIN names = 1..Len(names) /\ Len(names) \in Nat
    BY <1>6, LenProperties
  <2>2. Numbered(names) = Picked(names, I)
    BY <2>1, Zenon DEF Numbered
  <2>3. Picked(names, I) \in Seq(All) /\ Len(Picked(names, I)) = Cardinality(I)
    <3>1. I \in SUBSET (1..Len(names))
      OBVIOUS
    <3> HIDE DEF I, All
    <3> QED
      BY <1>6, <3>1, PicksInOrder
  <2> HIDE DEF I, All
  <2>4. DOMAIN Numbered(names) = 1..Cardinality(I) /\ Cardinality(I) \in Nat
    BY <2>2, <2>3, LenProperties
  <2> QED
    BY <2>4 DEF Numerics
<1>8. items = Paired(targets, _zip_values(TypeBytes(message), message))
  BY <1>1, Zenon DEF _parse_write_items
<1>9. n \in 0..len
  <2> HIDE DEF numerics
  <2> QED
    BY <1>2, <1>7
<1>10. targets \in Seq({targets[i] : i \in 1..n}) /\ Len(targets) = n
  <2> HIDE DEF n, base, numerics, ns
  <2> QED
    BY <1>9
<1>11. /\ Len(items) = n /\ DOMAIN items = 1..n
       /\ \A i \in 1..n :
            /\ items[i].name = targets[i]
            /\ items[i].unhandled <=> items[i].value = NotRead
            /\ Told(i) => items[i].value = IF Readable(message[i].variant)
                                           THEN [item |-> i, part |-> 1] ELSE NotRead
  <2>1. Len(targets) <= Len(message)
    BY <1>2, <1>9, <1>10
  <2> DEFINE X == {targets[i] : i \in 1..n}
  <2>2. targets \in Seq(X)
    BY <1>10
  <2> HIDE DEF targets, n, X
  <2>3. /\ Len(items) = Len(targets) /\ DOMAIN items = 1..Len(targets)
        /\ \A i \in 1..Len(targets) :
             /\ items[i].name = targets[i]
             /\ items[i].unhandled <=> items[i].value = NotRead
             /\ Told(i) => items[i].value = IF Readable(message[i].variant)
                                            THEN [item |-> i, part |-> 1] ELSE NotRead
    BY <1>1, <1>8, <2>1, <2>2, ItemsArePaired
  <2> QED
    BY <1>10, <2>3, Zenon
<1>12. ASSUME NamesTold
       PROVE  /\ n = len
              /\ \A i \in 1..len : targets[i] = [num |-> message[i].name.num,
                                                 ns  |-> message[i].name.ns]
  <2> HIDE DEF names
  <2>1. /\ \A i \in 1..len : message[i].name.form # "string"
        /\ \A i, j \in 1..len : i < j /\ message[j].name.form = "plain" => message[i].name.ns = 0
    BY <1>2, <1>12 DEF NamesTold
  <2>2. \A i \in 1..lead : /\ names[i].ns = 0 /\ names[i].form \in {"plain", "indexed"}
    BY <1>5, <1>6, OpcuaAssumption
  <2>3. \A i \in 1..len : /\ names[lead + i] = message[i].name
                          /\ names[lead + i].form \in {"plain", "indexed"}
                          /\ names[lead + i].form = "plain" => names[lead + i].ns = 0
    <3> TAKE i \in 1..len
    <3>1. names[lead + i] = message[i].name /\ message[i].name \in Nodes
      BY <1>3, <1>6
    <3>2. \A x \in Nodes : /\ x.form \in {"plain", "indexed", "string"}
                           /\ x.form = "plain" => x.ns = 0
      BY NodesHaveForms
    <3>3. /\ message[i].name.form \in {"plain", "indexed", "string"}
          /\ message[i].name.form # "string"
          /\ message[i].name.form = "plain" => message[i].name.ns = 0
      BY <2>1, <3>1, <3>2, Zenon
    <3> QED
      BY <3>1, <3>3
  <2>4. \A i \in 1..(lead + len) : i \in 1..lead \/ (i - lead \in 1..len /\ i = lead + (i - lead))
    BY <1>2, <1>5
  <2>5. Named(names)
    <3> SUFFICES ASSUME NEW i \in 1..(lead + len)
                 PROVE  /\ names[i].form \in {"plain", "indexed"}
                        /\ names[i].form = "plain" => names[i].ns = 0
      BY <1>6 DEF Named
    <3>1. CASE i \in 1..lead
      BY <2>2, <3>1
    <3>2. CASE i \notin 1..lead
      <4> DEFINE x == i - lead
      <4>1. x \in 1..len /\ i = lead + x
        BY <2>4, <3>2
      <4> HIDE DEF x
      <4> QED
        BY <2>3, <4>1
    <3> QED
      BY <3>1, <3>2
  <2>6. /\ numerics = [i \in 1..(lead + len) |-> names[i].num]
        /\ \A q \in 1..(lead + len) : NsTold(names, q) => ns[q] = names[q].ns
    <3> HIDE DEF All
    <3> QED
      BY <1>6, <2>5, NamespacesAligned
  <2>7. Len(numerics) = lead + len
    BY <1>2, <1>5, <2>6
  <2>8. n = len /\ base = lead
    <3> DEFINE m == Len(numerics)
    <3>1. n = (IF m >= len THEN len ELSE m) /\ base = m - n
      OBVIOUS
    <3> HIDE DEF m, n, base, len, lead
    <3>2. m = lead + len
      BY <2>7 DEF m
    <3> QED
      BY <1>2, <1>5, <3>1, <3>2
  <2>9. ASSUME NEW i \in 1..len PROVE NsTold(names, lead + i)
    <3> SUFFICES ASSUME NEW j \in (lead + i)..(lead + len), names[j].form = "plain",
                        NEW q \in 1..(lead + i)
                 PROVE  names[q].ns = 0
      BY <1>6 DEF NsTold
    <3>1. CASE q \in 1..lead
      BY <2>2, <3>1
    <3>2. CASE q \notin 1..lead
      <4> DEFINE x == q - lead
                 y == j - lead
      <4>1. /\ x \in 1..len /\ q = lead + x /\ y \in 1..len /\ j = lead + y /\ x <= y
        BY <1>2, <1>5, <3>2
      <4> HIDE DEF x, y
      <4>2. CASE x = y
        BY <2>3, <4>1, <4>2
      <4>3. CASE x # y
        <5>1. x < y
          BY <4>1, <4>3
        <5>2. message[y].name.form = "plain"
          BY <2>3, <4>1
        <5>3. message[x].name.ns = 0
          BY <2>1, <4>1, <5>1, <5>2
        <5> QED
          BY <2>3, <4>1, <5>3
      <4> QED
        BY <4>2, <4>3
    <3> QED
      BY <3>1, <3>2
  <2>10. ASSUME NEW i \in 1..len
         PROVE  targets[i] = [num |-> message[i].name.num, ns |-> message[i].name.ns]
    <3>1. lead + i \in 1..(lead + len)
      BY <1>2, <1>5
    <3>2. numerics[lead + i] = names[lead + i].num /\ ns[lead + i] = names[lead + i].ns
      BY <2>6, <2>9, <3>1
    <3>3. targets[i] = [num |-> numerics[lead + i], ns |-> ns[lead + i]]
      <4> HIDE DEF numerics, ns, n, base
      <4> QED
        BY <2>8
    <3> QED
      BY <2>3, <3>2, <3>3
  <2> QED
    BY <2>8, <2>10
<1> HIDE DEF targets, n
<1>13. NamesTold => /\ Len(items) = len
                    /\ \A i \in 1..len : items[i].name = [num |-> message[i].name.num,
                                                          ns  |-> message[i].name.ns]
  BY <1>11, <1>12
<1> QED
  BY <1>2, <1>9, <1>11, <1>13

\* An item has its own value and its own name whenever the message tells them.
THEOREM ItemsAreTold == OpcuaSpec => []ItemsAreTheirOwn
<1>1. OpcuaInv => ItemsAreTheirOwn
  <2> SUFFICES ASSUME OpcuaInv PROVE ItemsAreTheirOwn
    OBVIOUS
  <2>1. CASE op = "NONE"
    BY <2>1 DEF OpcuaInv, ItemsAreTheirOwn, ValuesAreTheirOwn, TargetsAreTheirOwn
  <2>2. CASE op = "PUBLISH_RESPONSE"
    BY <2>2, PublishedItems DEF ItemsAreTheirOwn, ValuesAreTheirOwn, TargetsAreTheirOwn
  <2>3. CASE op = "WRITE_REQUEST"
    BY <2>3, WrittenItems DEF ItemsAreTheirOwn, ValuesAreTheirOwn, TargetsAreTheirOwn
  <2> QED
    BY <2>1, <2>2, <2>3 DEF OpcuaInv
<1> QED
  BY <1>1, OpcuaInvariant, PTL

\* The samples of a state signal are the values published under its handle, in order.
THEOREM SamplesAreItsOwn == OpcuaSpec => []SamplesAreTheSignal
<1>1. OpcuaInv => SamplesAreTheSignal
  <2> SUFFICES ASSUME OpcuaInv, op = "PUBLISH_RESPONSE", \A i \in DOMAIN message : Told(i)
               PROVE  /\ samples[NoHandle] = <<>>
                      /\ \A h \in Handles :
                           LET itsItems == {i \in DOMAIN message : message[i].name = h
                                                                   /\ Readable(message[i].variant)}
                           IN  /\ Len(samples[h]) = Cardinality(itsItems)
                               /\ \A i \in itsItems : samples[h][Rank(itsItems, i)] = [item |-> i, part |-> 1]
    BY DEF SamplesAreTheSignal
  <2> DEFINE n == Len(message)
             Asked(key) == {i \in DOMAIN items : /\ items[i].name \in resolve_state_key(key)
                                                 /\ items[i].value # NotRead}
  <2>1. /\ n \in Nat /\ DOMAIN message = 1..n /\ DOMAIN items = 1..n /\ Len(items) = n
        /\ items \in Seq({items[i] : i \in 1..n})
        /\ \A i \in 1..n :
             /\ items[i].name = message[i].name
             /\ items[i].value = IF Readable(message[i].variant) THEN [item |-> i, part |-> 1]
                                 ELSE NotRead
    BY PublishedItems
  <2>2. ASSUME NEW key \in StateKeys
        PROVE  /\ Len(samples[key]) = Cardinality(Asked(key))
               /\ samples[key] \in Seq({items[i].value : i \in 1..n})
               /\ \A i \in Asked(key) : samples[key][Rank(Asked(key), i)] = items[i].value
    <3> DEFINE I  == Asked(key)
               ps == Picked(items, I)
    <3>1. samples[key] = [i \in DOMAIN ps |-> ps[i].value]
      <4>1. samples[key] = extract_state_samples(items, key)
        BY DEF OpcuaInv
      <4> QED
        BY <4>1, Zenon DEF extract_state_samples
    <3>2. I \in SUBSET (1..n)
      BY <2>1
    <3> HIDE DEF I
    <3>3. /\ Len(ps) = Cardinality(I) /\ ps \in Seq({items[i] : i \in 1..n})
          /\ \A i \in I : Rank(I, i) \in 1..Cardinality(I) /\ ps[Rank(I, i)] = items[i]
          /\ \A r \in 1..Cardinality(I) : \E i \in I : ps[r] = items[i]
          /\ Cardinality(I) \in Nat
      <4> DEFINE Y == {items[i] : i \in 1..n}
      <4>1. items \in Seq(Y)
        BY <2>1
      <4> HIDE DEF Y
      <4>2. /\ Len(ps) = Cardinality(I) /\ ps \in Seq(Y)
            /\ \A i \in I : ps[Rank(I, i)] = items[i]
            /\ \A r \in 1..Cardinality(I) : \E i \in I : ps[r] = items[i]
        BY <2>1, <3>2, <4>1, PicksInOrder
      <4>3. Cardinality(I) \in Nat /\ \A i \in I : Rank(I, i) \in 1..Cardinality(I)
        BY <2>1, <3>2, Ranks
      <4> QED
        BY <4>2, <4>3 DEF Y
    <3> HIDE DEF ps
    <3>4. DOMAIN ps = 1..Cardinality(I)
      BY <3>3, LenProperties
    <3>5. samples[key] = [r \in 1..Cardinality(I) |-> ps[r].value]
      BY <3>1, <3>4, Zenon
    <3>6. \A r \in 1..Cardinality(I) : ps[r].value \in {items[i].value : i \in 1..n}
      BY <3>2, <3>3
    <3>7. /\ Len(samples[key]) = Cardinality(I)
          /\ samples[key] \in Seq({items[i].value : i \in 1..n})
      <4> DEFINE V == {items[i].value : i \in 1..n}
      <4> HIDE DEF V
      <4>1. \A r \in 1..Cardinality(I) : ps[r].value \in V
        BY <3>6 DEF V
      <4>2. samples[key] \in [1..Cardinality(I) -> V]
        BY <3>5, <4>1
      <4>3. samples[key] \in Seq(V)
        <5> DEFINE d == Cardinality(I)
        <5>1. d \in Nat /\ samples[key] \in [1..d -> V]
          BY <3>3, <4>2
        <5> HIDE DEF d
        <5> QED
          BY <5>1, SeqDef
      <4>4. Len(samples[key]) = Cardinality(I)
        BY <3>3, <3>5
      <4> QED
        BY <4>3, <4>4 DEF V
    <3>8. \A i \in I : samples[key][Rank(I, i)] = items[i].value
      <4> TAKE i \in I
      <4>1. Rank(I, i) \in 1..Cardinality(I) /\ ps[Rank(I, i)] = items[i]
        BY <3>3
      <4>2. samples[key][Rank(I, i)] = ps[Rank(I, i)].value
        BY <3>5, <4>1, Zenon
      <4> QED
        BY <4>1, <4>2, Zenon
    <3> QED
      BY <3>7, <3>8 DEF I
  <2>3. samples[NoHandle] = <<>>
    <3>1. Asked(NoHandle) = {}
      BY OpcuaAssumption DEF resolve_state_key, NoHandle, AnyHandle
    <3>2. NoHandle \in StateKeys /\ Cardinality(Asked(NoHandle)) = 0
      BY <3>1, FS_EmptySet DEF StateKeys
    <3>3. Len(samples[NoHandle]) = 0 /\ samples[NoHandle] \in Seq({items[i].value : i \in 1..n})
      BY <2>2, <3>2
    <3> QED
      BY <3>3, EmptySeq
  <2>4. ASSUME NEW h \in Handles
        PROVE  LET itsItems == {i \in DOMAIN message : message[i].name = h
                                                       /\ Readable(message[i].variant)}
               IN  /\ Len(samples[h]) = Cardinality(itsItems)
                   /\ \A i \in itsItems : samples[h][Rank(itsItems, i)] = [item |-> i, part |-> 1]
    <3> DEFINE itsItems == {i \in DOMAIN message : message[i].name = h /\ Readable(message[i].variant)}
    <3>1. h \in StateKeys /\ resolve_state_key(h) = {h}
      BY OpcuaAssumption DEF StateKeys, resolve_state_key, AnyHandle
    <3>2. \A i \in 1..n : Readable(message[i].variant) <=> items[i].value # NotRead
      <4> TAKE i \in 1..n
      <4>1. [item |-> i, part |-> 1] # NotRead
        BY DEF NotRead
      <4> QED
        BY <2>1, <4>1, Zenon
    <3>3. Asked(h) = itsItems
      BY <2>1, <3>1, <3>2
    <3>4. \A i \in itsItems : items[i].value = [item |-> i, part |-> 1]
      BY <2>1
    <3> HIDE DEF itsItems
    <3>5. /\ Len(samples[h]) = Cardinality(itsItems)
          /\ \A i \in itsItems : samples[h][Rank(itsItems, i)] = [item |-> i, part |-> 1]
      BY <2>2, <3>1, <3>3, <3>4
    <3> QED
      BY <3>5 DEF itsItems
  <2> QED
    BY <2>3, <2>4
<1> QED
  BY <1>1, OpcuaInvariant, PTL

-----------------------------------------------------------------------------
(* The source.                                                             *)

\* Whatever the layer of a source, its extractors and its coalescer run by their own
\* specifications.
LEMMA SourceRunsItsParts == FeedSpec => S7Spec /\ CoalescerSpec /\ OpcuaSpec
<1>1. FeedInit => S7Init /\ CoalescerInit /\ OpcuaInit
  BY DEF FeedInit
<1>2. [FeedNext]_feedVars
        => [S7Next]_s7vars /\ [CoalescerNext]_coalescerVars /\ [OpcuaNext]_opcuaVars
  BY DEF FeedNext, feedVars
<1> QED
  BY <1>1, <1>2, PTL DEF FeedSpec, S7Spec, CoalescerSpec, OpcuaSpec

\* So what is proved of the extractors holds of every captured source.
THEOREM SourcesTellTheTruth ==
  FeedSpec => AnswersTellTheJob /\ []ItemsAreTheirOwn /\ []SamplesAreTheSignal
BY SourceRunsItsParts, AnswersAreTrue, ItemsAreTold, SamplesAreItsOwn

-----------------------------------------------------------------------------
(* The path: a source and the silos.                                       *)

\* On the path, a source and the silos run by their own specifications, so what is
\* proved of them holds there.
LEMMA PathRunsItsParts == PathSpec => FeedSpec /\ SilosSpec
<1>1. PathInit => FeedInit /\ SilosInit
  BY DEF PathInit
<1>2. [PathNext]_pathVars => [FeedNext]_feedVars /\ [SilosNext]_silosVars
  BY DEF PathNext, pathVars
<1> QED
  BY <1>1, <1>2, PTL DEF PathSpec, FeedSpec, SilosSpec

\* What the extractors, the silos, the emitter and the reader keep has its type, for
\* any conversations, writes, windows, endpoints and messages.
THEOREM PathTypesCorrect == PathSpec => []PathTypeOK
<1>1. FeedSpec => []FeedTypeOK
  <2>1. S7TypeOK /\ CoalescerTypeOK => FeedTypeOK
    BY DEF FeedTypeOK
  <2> QED
    BY <2>1, SourceRunsItsParts, S7TypesCorrect, CoalescerTypesCorrect, PTL
<1>2. FeedTypeOK /\ SilosTypeOK => PathTypeOK
  BY DEF PathTypeOK
<1> QED
  BY <1>1, <1>2, PathRunsItsParts, SilosTypesCorrect, PTL
=============================================================================
