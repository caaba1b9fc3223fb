----------------------- MODULE TrainingCompensationProofs -----------------------
(***************************************************************************)
(* Theorems of the training rail, for any companies, artists, corpora,      *)
(* amounts and number of jobs: what the enclave's split and its Merkle trees *)
(* compute, then the money of the two contracts, the jobs that share a       *)
(* wallet and a pool id, and the allocation of each pool.                    *)
(***************************************************************************)
EXTENDS TrainingCompensation, SumTheorems

-----------------------------------------------------------------------------
\* The enclave's allocation.

\* A finite set of numbers can be put in order: take out the greatest.
Ordered(S, order) ==
    /\ order \in [1..Cardinality(S) -> S]
    /\ \A i, k \in 1..Cardinality(S) : i < k => order[i] < order[k]

(* Every set of positions can be put in order. *)
LEMMA OrderExists ==
    ASSUME NEW n \in Nat, NEW S \in SUBSET (1..n)
    PROVE  Ordered(S, InOrder(S))
<1> DEFINE Good == {T \in SUBSET S : \E order : Ordered(T, order)}
<1>0. IsFiniteSet(S)
  <2>1. IsFiniteSet(1..n) BY FS_Interval
  <2> QED BY <2>1, FS_Subset
<1>1. ASSUME NEW T \in SUBSET S, \A U \in SUBSET T : U # T => U \in Good
      PROVE  T \in Good
  <2>1. CASE T = {}
    <3>1. Cardinality(T) = 0 BY <2>1, FS_EmptySet
    <3> DEFINE empty == [i \in 1..0 |-> i]
    <3>2. empty \in [1..0 -> T] /\ 1..0 = {} OBVIOUS
    <3>3. Ordered(T, empty) BY <3>1, <3>2 DEF Ordered
    <3> QED BY <3>3
  <2>2. CASE T # {}
    <3>1. PICK m \in T : \A x \in T : x <= m 
      <4>1. IsFiniteSet(T) BY <1>0, FS_Subset
      <4> QED BY <2>2, <4>1, Greatest
    <3> DEFINE U == T \ {m}
               c == Cardinality(U)
    <3>2. U \in Good BY <1>1
    <3>3. PICK order : Ordered(U, order) BY <3>2
    <3>4. c \in Nat /\ Cardinality(T) = c + 1
      <4>1. IsFiniteSet(T) BY <1>0, FS_Subset
      <4>2. IsFiniteSet(U) /\ Cardinality(U) = Cardinality(T) - 1 BY <4>1, FS_RemoveElement
      <4>3. Cardinality(U) \in Nat /\ Cardinality(T) \in Nat BY <4>1, <4>2, FS_CardinalityType
      <4> QED BY <4>2, <4>3
    <3> DEFINE longer == [i \in 1..(c + 1) |-> IF i = c + 1 THEN m ELSE order[i]]
    <3>5. \A i \in 1..c : order[i] \in U BY <3>3 DEF Ordered
    <3>6. \A x \in U : x \in Nat /\ m \in Nat /\ x < m BY <3>1
    <3> HIDE DEF c
    <3>7. \A i \in 1..c, k \in 1..c : i < k => order[i] < order[k] BY <3>3 DEF Ordered, c
    <3>8. longer \in [1..(c + 1) -> T] BY <3>4, <3>5
    <3>9. ASSUME NEW i \in 1..(c + 1), NEW k \in 1..(c + 1), i < k
          PROVE  longer[i] < longer[k]
      <4>1. i \in 1..c /\ longer[i] = order[i] /\ order[i] \in U BY <3>4, <3>5, <3>9
      <4>2. CASE k = c + 1
        <5>1. longer[k] = m BY <4>2
        <5> QED BY <3>6, <4>1, <5>1
      <4>3. CASE k # c + 1
        <5>1. k \in 1..c /\ longer[k] = order[k] BY <3>4, <4>3
        <5> QED BY <3>7, <3>9, <4>1, <5>1
      <4> QED BY <4>2, <4>3
    <3> HIDE DEF longer
    <3>10. Ordered(T, longer) BY <3>4, <3>8, <3>9 DEF Ordered
    <3> QED BY <3>10
  <2> QED BY <2>1, <2>2
<1>2. S \in Good
  <2> HIDE DEF Good
  <2> QED BY <1>0, <1>1, SetInduction
<1>3. \E order : Ordered(S, order) BY <1>2
<1> QED BY <1>3 DEF Ordered, InOrder

\* The order lists every element of S once.
EachOnce(S, order) ==
    /\ \A i, k \in 1..Cardinality(S) : i # k => order[i] # order[k]
    /\ \A x \in S : \E i \in 1..Cardinality(S) : order[i] = x

\* Such an order has every element, once.
LEMMA OrderIsBijective ==
    ASSUME NEW n \in Nat, NEW S \in SUBSET (1..n), NEW order, Ordered(S, order)
    PROVE  EachOnce(S, order)
<1> DEFINE c == Cardinality(S)
<1>0. IsFiniteSet(S) /\ c \in Nat
  <2>1. IsFiniteSet(1..n) BY FS_Interval
  <2> QED BY <2>1, FS_Subset, FS_CardinalityType
<1>1. ASSUME NEW i \in 1..c, NEW k \in 1..c, i # k PROVE order[i] # order[k]
  <2>1. order[i] \in Nat /\ order[k] \in Nat
    <3>1. order \in [1..c -> S] BY DEF Ordered
    <3>2. order[i] \in S /\ order[k] \in S
      <4> HIDE DEF c
      <4> QED BY <3>1
    <3>3. \A x \in S : x \in Nat OBVIOUS
    <3> QED BY <3>2, <3>3
  <2>2. CASE i < k
    <3>1. order[i] < order[k] BY <2>2 DEF Ordered
    <3> QED BY <2>1, <3>1
  <2>3. CASE k < i
    <3>1. order[k] < order[i] BY <2>3 DEF Ordered
    <3> QED BY <2>1, <3>1
  <2> QED BY <1>0, <1>1, <2>2, <2>3
<1>2. order \in Injection(1..c, S)
  <2>1. order \in [1..c -> S] BY DEF Ordered
  <2> HIDE DEF c
  <2> QED BY <1>1, <2>1 DEF Injection, IsInjective
<1>3. Cardinality(1..c) = c
  <2> HIDE DEF c
  <2> QED BY <1>0, FS_Interval
<1>4. order \in Surjection(1..c, S)
  <2>1. Cardinality(1..c) = Cardinality(S) BY <1>3
  <2> QED BY <1>0, <1>2, <2>1, FS_Injection
<1> QED BY <1>1, <1>4 DEF Surjection, EachOnce

-----------------------------------------------------------------------------
\* The split.

\* A track's share is a natural number.
LEMMA TrackShareIsNat ==
    ASSUME NEW amount \in Nat, NEW n \in Nat \ {0}, NEW i
    PROVE  TrackShare(amount, n, i) \in Nat
<1>1. amount \div n \in Nat OBVIOUS
<1> QED BY <1>1 DEF TrackShare

\* The shares of all tracks use up the amount: the remainder is smaller than
\* the number of tracks, and the first ones take it.
LEMMA SharesAddUp ==
    ASSUME NEW amount \in Nat, NEW n \in Nat \ {0}
    PROVE  SumFunctionOnSet([i \in 1..n |-> TrackShare(amount, n, i)], 1..n) = amount
<1> DEFINE q == amount \div n
           r == amount % n
           f == [i \in 1..n |-> TrackShare(amount, n, i)]
           Extra(k) == IF k <= r THEN k ELSE r
           Good == {k \in 0..n : SumFunctionOnSet(f, 1..k) = k * q + Extra(k)}
<1>1. q \in Nat /\ r \in 0..(n - 1) /\ amount = n * q + r OBVIOUS
<1>2. \A i \in 1..n : f[i] = q + (IF i <= r THEN 1 ELSE 0) BY DEF TrackShare
<1> HIDE DEF q, r, f
<1>3. 0 \in Good
  <2>1. 1..0 = {} OBVIOUS
  <2>2. SumFunctionOnSet(f, 1..0) = 0 BY <2>1, SumEmpty
  <2> QED BY <1>1, <2>2
<1>4. ASSUME NEW k \in 0..(n - 1), k \in Good PROVE k + 1 \in Good
  <2>1. 1..(k + 1) = (1..k) \cup {k + 1} /\ k + 1 \notin 1..k /\ k + 1 \in 1..n OBVIOUS
  <2>2. \A x \in (1..k) \cup {k + 1} : f[x] \in Int BY <1>1, <1>2, <2>1
  <2>3. IsFiniteSet(1..k) BY FS_Interval
  <2>4. SumFunctionOnSet(f, (1..k) \cup {k + 1}) = SumFunctionOnSet(f, 1..k) + f[k + 1]
    BY <2>1, <2>2, <2>3, SumAdd
  <2>5. SumFunctionOnSet(f, 1..k) = k * q + Extra(k) BY <1>4
  <2>6. Extra(k + 1) = Extra(k) + (IF k + 1 <= r THEN 1 ELSE 0) BY <1>1
  <2>7. (k + 1) * q = k * q + q BY <1>1
  <2>8. k * q \in Nat /\ Extra(k) \in Nat BY <1>1
  <2> DEFINE kq == k * q
             kq1 == (k + 1) * q
  <2> HIDE DEF Extra, kq, kq1
  <2>9. SumFunctionOnSet(f, 1..(k + 1)) = kq1 + Extra(k + 1)
    <3>1. f[k + 1] = q + (IF k + 1 <= r THEN 1 ELSE 0) BY <1>2, <2>1
    <3>2. kq \in Nat /\ kq1 = kq + q BY <2>7, <2>8 DEF kq, kq1
    <3>3. SumFunctionOnSet(f, 1..(k + 1)) = kq + Extra(k) + f[k + 1]
      BY <2>1, <2>4, <2>5 DEF kq
    <3> QED BY <1>1, <2>6, <2>8, <3>1, <3>2, <3>3
  <2>10. k + 1 \in 0..n /\ SumFunctionOnSet(f, 1..(k + 1)) = (k + 1) * q + Extra(k + 1)
    BY <2>9 DEF kq1
  <2> QED BY <2>10
<1>5. n \in Good
  <2> HIDE DEF Good
  <2> QED BY <1>3, <1>4, UpTo
<1>6. SumFunctionOnSet(f, 1..n) = n * q + r BY <1>1, <1>5
<1> QED BY <1>1, <1>6 DEF f

\* The first track of an artist in the corpus.
LEMMA FirstTrack ==
    ASSUME NEW corpus \in Seq(Fingerprints), NEW i \in DOMAIN corpus
    PROVE  \E k \in DOMAIN corpus : FirstSeen(corpus, k) /\ tracks[corpus[k]] = tracks[corpus[i]]
<1> DEFINE Same == {k \in 1..i : tracks[corpus[k]] = tracks[corpus[i]]}
           Neg  == {j \in (0 - i)..(0 - 1) : 0 - j \in Same}
<1>0. DOMAIN corpus = 1..Len(corpus) /\ i \in 1..Len(corpus) /\ Len(corpus) \in Nat OBVIOUS
<1>1. i \in Same BY <1>0
<1>2. Neg \in SUBSET Int /\ Neg # {} /\ IsFiniteSet(Neg)
  <2>1. 0 - i \in Neg BY <1>0, <1>1
  <2>2. IsFiniteSet((0 - i)..(0 - 1)) BY <1>0, FS_Interval
  <2>3. Neg \in SUBSET ((0 - i)..(0 - 1)) OBVIOUS
  <2>4. Neg \in SUBSET Int BY <1>0
  <2> HIDE DEF Neg
  <2> QED BY <2>1, <2>2, <2>3, <2>4, FS_Subset
<1>3. PICK m \in Neg : \A j \in Neg : j <= m
  <2> HIDE DEF Neg
  <2> QED BY <1>2, Greatest
<1> DEFINE k == 0 - m
<1>4. k \in Same /\ k \in 1..i /\ m \in Int /\ m = 0 - k BY <1>0, <1>3
<1> HIDE DEF k
<1>5. \A j \in 1..(k - 1) : tracks[corpus[j]] # tracks[corpus[k]]
  <2> SUFFICES ASSUME NEW j \in 1..(k - 1), tracks[corpus[j]] = tracks[corpus[k]] PROVE FALSE
    OBVIOUS
  <2>1. j \in Same BY <1>0, <1>4
  <2>2. 0 - j \in Neg BY <1>0, <1>4, <2>1
  <2>3. 0 - j <= m BY <1>3, <2>2
  <2> QED BY <1>0, <1>4, <2>3
<1> QED BY <1>0, <1>4, <1>5 DEF FirstSeen

\* The tracks that are the first of their artist, in corpus order, and the
\* total of the artist of track i.
FirstTracks(corpus) == {i \in DOMAIN corpus : FirstSeen(corpus, i)}
PerTrack(corpus, amount) == [i \in DOMAIN corpus |-> TrackShare(amount, Len(corpus), i)]
ArtistTotal(corpus, amount, artist) ==
    SumFunctionOnSet(PerTrack(corpus, amount), TracksOf(artist, corpus))

(* An allocation lists, for each artist's first track, the artist and the artist's total. *)
LEMMA AllocateUnfolds ==
    ASSUME NEW corpus, NEW amount
    PROVE  LET order == InOrder(FirstTracks(corpus))
           IN  Allocate(corpus, amount) =
                 [k \in DOMAIN order |->
                    <<tracks[corpus[order[k]]],
                      ArtistTotal(corpus, amount, tracks[corpus[order[k]]])>>]
BY DEF Allocate, FirstTracks, PerTrack, ArtistTotal

\* The corpus is a sequence of registered tracks.
Licensed(corpus) ==
    /\ corpus \in Seq(Fingerprints) /\ corpus # <<>>
    /\ \A i \in DOMAIN corpus : tracks[corpus[i]] \in Artists

(* Every track of a licensed corpus gets a natural number. *)
LEMMA PerTrackIsNat ==
    ASSUME NEW corpus, Licensed(corpus), NEW amount \in Nat
    PROVE  /\ Len(corpus) \in Nat \ {0} /\ DOMAIN corpus = 1..Len(corpus)
           /\ \A i \in DOMAIN corpus : PerTrack(corpus, amount)[i] \in Nat
<1>1. Len(corpus) \in Nat \ {0} /\ DOMAIN corpus = 1..Len(corpus) BY DEF Licensed
<1>2. \A i \in DOMAIN corpus : TrackShare(amount, Len(corpus), i) \in Nat BY <1>1, TrackShareIsNat
<1> QED BY <1>1, <1>2 DEF PerTrack

(* Every artist of a licensed corpus gets a natural number. *)
LEMMA ArtistTotalIsNat ==
    ASSUME NEW corpus, Licensed(corpus), NEW amount \in Nat, NEW artist
    PROVE  ArtistTotal(corpus, amount, artist) \in Nat
<1>1. /\ Len(corpus) \in Nat /\ DOMAIN corpus = 1..Len(corpus)
      /\ \A i \in DOMAIN corpus : PerTrack(corpus, amount)[i] \in Nat
  BY PerTrackIsNat
<1>2. IsFiniteSet(DOMAIN corpus) BY <1>1, FS_Interval
<1>3. TracksOf(artist, corpus) \in SUBSET (DOMAIN corpus) BY DEF TracksOf
<1>4. IsFiniteSet(TracksOf(artist, corpus)) BY <1>2, <1>3, FS_Subset
<1> QED BY <1>1, <1>3, <1>4, SumIsNat DEF ArtistTotal

\* What the order of a corpus is: its first tracks, each once.
LEMMA OrderOfCorpus ==
    ASSUME NEW corpus \in Seq(Fingerprints)
    PROVE  LET order == InOrder(FirstTracks(corpus))
               n     == Cardinality(FirstTracks(corpus))
           IN  /\ n \in Nat
               /\ order \in [1..n -> FirstTracks(corpus)]
               /\ \A i, k \in 1..n : i # k => order[i] # order[k]
               /\ \A x \in FirstTracks(corpus) : \E i \in 1..n : order[i] = x
<1> DEFINE S == FirstTracks(corpus)
           order == InOrder(S)
<1>1. Len(corpus) \in Nat /\ S \in SUBSET (1..Len(corpus)) BY DEF FirstTracks
<1>2. IsFiniteSet(S) /\ Cardinality(S) \in Nat
  <2>1. IsFiniteSet(1..Len(corpus)) BY <1>1, FS_Interval
  <2> HIDE DEF S
  <2> QED BY <1>1, <2>1, FS_Subset, FS_CardinalityType
<1>3. Ordered(S, order)
  <2> HIDE DEF S
  <2> QED BY <1>1, OrderExists
<1>4. EachOnce(S, order)
  <2> DEFINE m == Len(corpus)
  <2>1. m \in Nat /\ S \in SUBSET (1..m) BY <1>1
  <2> HIDE DEF S, order, m
  <2> QED BY <1>3, <2>1, OrderIsBijective
<1>5. order \in [1..Cardinality(S) -> S] BY <1>3 DEF Ordered
<1> QED BY <1>2, <1>4, <1>5 DEF EachOnce

\* The enclave answers one natural share per artist of the corpus.
LEMMA AllocationType ==
    ASSUME NEW corpus, Licensed(corpus), NEW amount \in Nat
    PROVE  Allocate(corpus, amount) \in Seq(Artists \X Nat)
<1> DEFINE S == FirstTracks(corpus)
           order == InOrder(S)
           n == Cardinality(S)
<1>1. corpus \in Seq(Fingerprints) /\ \A i \in DOMAIN corpus : tracks[corpus[i]] \in Artists
  BY DEF Licensed
<1>2. n \in Nat /\ order \in [1..n -> S] BY <1>1, OrderOfCorpus
<1>3. S \subseteq DOMAIN corpus BY DEF FirstTracks
<1>4. Allocate(corpus, amount) =
         [k \in DOMAIN order |-> <<tracks[corpus[order[k]]],
                                   ArtistTotal(corpus, amount, tracks[corpus[order[k]]])>>]
  BY AllocateUnfolds
<1> HIDE DEF S, order, n
<1>5. DOMAIN order = 1..n /\ \A k \in 1..n : tracks[corpus[order[k]]] \in Artists
  BY <1>1, <1>2, <1>3
<1>6. \A artist : ArtistTotal(corpus, amount, artist) \in Nat BY ArtistTotalIsNat
<1>7. Allocate(corpus, amount) =
         [k \in 1..n |-> <<tracks[corpus[order[k]]],
                           ArtistTotal(corpus, amount, tracks[corpus[order[k]]])>>]
  BY <1>4, <1>5
<1>8. \A k \in 1..n : <<tracks[corpus[order[k]]],
                        ArtistTotal(corpus, amount, tracks[corpus[order[k]]])>> \in Artists \X Nat
  BY <1>5, <1>6
<1> QED BY <1>2, <1>7, <1>8

\* No two shares of an allocation are of one artist, and no artist of the
\* corpus is left out.
LEMMA OneSharePerArtist ==
    ASSUME NEW corpus, Licensed(corpus), NEW amount \in Nat
    PROVE  LET shares == Allocate(corpus, amount)
           IN  /\ \A i, k \in DOMAIN shares : i # k => shares[i][1] # shares[k][1]
               /\ {shares[k][1] : k \in DOMAIN shares} = {tracks[corpus[x]] : x \in DOMAIN corpus}
<1> DEFINE S == FirstTracks(corpus)
           order == InOrder(S)
           n == Cardinality(S)
           s == Allocate(corpus, amount)
           D == DOMAIN corpus
<1>1. corpus \in Seq(Fingerprints) BY DEF Licensed
<1>2. /\ n \in Nat /\ order \in [1..n -> S]
      /\ \A i, k \in 1..n : i # k => order[i] # order[k]
      /\ \A x \in S : \E i \in 1..n : order[i] = x
  BY <1>1, OrderOfCorpus
<1>3. Len(corpus) \in Nat \ {0} /\ D = 1..Len(corpus) BY PerTrackIsNat
<1>4. /\ S \subseteq D /\ S \subseteq Nat \ {0}
      /\ \A x \in S : FirstSeen(corpus, x)
  BY <1>3 DEF FirstTracks
<1>5. /\ DOMAIN s = 1..n
      /\ \A k \in 1..n : s[k][1] = tracks[corpus[order[k]]]
  <2>1. DOMAIN order = 1..n BY <1>2
  <2>2. s = [k \in DOMAIN order |-> <<tracks[corpus[order[k]]],
                                     ArtistTotal(corpus, amount, tracks[corpus[order[k]]])>>]
    BY AllocateUnfolds
  <2> HIDE DEF n, order, s
  <2> QED BY <2>1, <2>2
<1>6. ASSUME NEW x \in D PROVE \E k \in 1..n : s[k][1] = tracks[corpus[x]]
  <2>1. PICK y \in D : FirstSeen(corpus, y) /\ tracks[corpus[y]] = tracks[corpus[x]]
    BY <1>1, <1>6, FirstTrack
  <2>2. y \in S BY <2>1 DEF FirstTracks
  <2>3. PICK k \in 1..n : order[k] = y BY <1>2, <2>2
  <2> QED BY <1>5, <2>1, <2>3
<1> HIDE DEF S, order, n, s, D
<1>7. ASSUME NEW i \in 1..n, NEW k \in 1..n, i # k PROVE s[i][1] # s[k][1]
  <2>1. s[i][1] = tracks[corpus[order[i]]] /\ s[k][1] = tracks[corpus[order[k]]] BY <1>5
  <2>2. /\ order[i] \in S /\ order[k] \in S /\ order[i] # order[k] BY <1>2, <1>7
  <2>3. /\ FirstSeen(corpus, order[i]) /\ FirstSeen(corpus, order[k])
        /\ order[i] \in Nat \ {0} /\ order[k] \in Nat \ {0}
    BY <1>4, <2>2
  <2>4. CASE order[i] < order[k]
    <3>1. order[i] \in 1..(order[k] - 1) BY <2>3, <2>4
    <3> QED BY <2>1, <2>3, <3>1 DEF FirstSeen
  <2>5. CASE order[k] < order[i]
    <3>1. order[k] \in 1..(order[i] - 1) BY <2>3, <2>5
    <3> QED BY <2>1, <2>3, <3>1 DEF FirstSeen
  <2> QED BY <2>2, <2>3, <2>4, <2>5
<1>8. \A k \in 1..n : s[k][1] \in {tracks[corpus[x]] : x \in D}
  BY <1>2, <1>4, <1>5
<1>9. {s[k][1] : k \in DOMAIN s} = {tracks[corpus[x]] : x \in D} BY <1>5, <1>6, <1>8
<1> QED BY <1>5, <1>7, <1>9 DEF s, D

\* The enclave's internal consistency check never fires: whatever the corpus,
\* the artists of its tracks and the amount, it signs exactly one share for
\* each artist with a track in the corpus, for nobody else, and the shares
\* add up to the pool to the last unit (ingest, steps 3 and 4).
THEOREM AllocationAddsUp ==
    ASSUME NEW corpus, Licensed(corpus), NEW amount \in Nat
    PROVE  LET shares == Allocate(corpus, amount)
           IN  /\ \A i, k \in DOMAIN shares : i # k => shares[i][1] # shares[k][1]
               /\ {shares[k][1] : k \in DOMAIN shares} = {tracks[corpus[x]] : x \in DOMAIN corpus}
               /\ SumFunctionOnSet([k \in DOMAIN shares |-> shares[k][2]], DOMAIN shares) = amount
<1> DEFINE S == FirstTracks(corpus)
           order == InOrder(S)
           n == Cardinality(S)
           shares == Allocate(corpus, amount)
           f == PerTrack(corpus, amount)
           part == [k \in 1..n |-> TracksOf(tracks[corpus[order[k]]], corpus)]
           D == DOMAIN corpus
<1>1. corpus \in Seq(Fingerprints) BY DEF Licensed
<1>2. /\ n \in Nat /\ order \in [1..n -> S]
      /\ \A i, k \in 1..n : i # k => order[i] # order[k]
      /\ \A x \in S : \E i \in 1..n : order[i] = x
  BY <1>1, OrderOfCorpus
<1>3. S \subseteq D BY DEF FirstTracks
<1>4. shares = [k \in 1..n |-> <<tracks[corpus[order[k]]],
                                 ArtistTotal(corpus, amount, tracks[corpus[order[k]]])>>]
  <2>1. DOMAIN order = 1..n BY <1>2
  <2> HIDE DEF n
  <2> QED BY <2>1, AllocateUnfolds
<1>5. /\ Len(corpus) \in Nat \ {0} /\ D = 1..Len(corpus)
      /\ \A i \in D : f[i] \in Nat
  BY PerTrackIsNat
<1>6. IsFiniteSet(D) /\ IsFiniteSet(1..n)
  <2> HIDE DEF n
  <2> QED BY <1>2, <1>5, FS_Interval
<1>7. [k \in DOMAIN shares |-> shares[k][2]] = [k \in 1..n |-> SumFunctionOnSet(f, part[k])]
  <2>1. DOMAIN shares = 1..n BY <1>4
  <2>2. \A k \in 1..n : shares[k][2] = SumFunctionOnSet(f, part[k])
    BY <1>4 DEF ArtistTotal
  <2> HIDE DEF n, shares, f, part
  <2> QED BY <2>1, <2>2
<1>8. part \in [1..n -> SUBSET D] BY DEF TracksOf
<1>9. \A i, k \in 1..n : i # k => part[i] \cap part[k] = {}
  <2> SUFFICES ASSUME NEW i \in 1..n, NEW k \in 1..n, i # k, NEW x \in D,
                      tracks[corpus[x]] = tracks[corpus[order[i]]],
                      tracks[corpus[x]] = tracks[corpus[order[k]]]
               PROVE  FALSE
    BY DEF TracksOf
  <2>1. /\ order[i] \in D /\ order[k] \in D /\ order[i] # order[k]
        /\ FirstSeen(corpus, order[i]) /\ FirstSeen(corpus, order[k])
    BY <1>2 DEF FirstTracks
  <2>2. order[i] \in Nat /\ order[k] \in Nat /\ order[i] >= 1 /\ order[k] >= 1 BY <1>5, <2>1
  <2>3. CASE order[i] < order[k]
    <3>1. order[i] \in 1..(order[k] - 1) BY <2>2, <2>3
    <3> QED BY <2>1, <3>1 DEF FirstSeen
  <2>4. CASE order[k] < order[i]
    <3>1. order[k] \in 1..(order[i] - 1) BY <2>2, <2>4
    <3> QED BY <2>1, <3>1 DEF FirstSeen
  <2> QED BY <2>1, <2>2, <2>3, <2>4
<1>10. UNION {part[k] : k \in 1..n} = D
  <2>1. ASSUME NEW x \in D PROVE \E k \in 1..n : x \in part[k]
    <3>1. PICK y \in D : FirstSeen(corpus, y) /\ tracks[corpus[y]] = tracks[corpus[x]]
      BY <1>1, FirstTrack
    <3>2. y \in S BY <3>1 DEF FirstTracks
    <3>3. PICK k \in 1..n : order[k] = y BY <1>2, <3>2
    <3>4. x \in part[k] BY <3>1, <3>3 DEF TracksOf
    <3> QED BY <3>4
  <2> HIDE DEF part, n, D
  <2> QED BY <1>8, <2>1
<1>11. SumFunctionOnSet(f, D) = amount
  <2>1. f = [i \in 1..Len(corpus) |-> TrackShare(amount, Len(corpus), i)]
    BY <1>5 DEF PerTrack
  <2> HIDE DEF f, D
  <2> QED BY <1>5, <2>1, SharesAddUp
<1>12. \A i \in D : f[i] \in Int BY <1>5
<1>13. DOMAIN shares = 1..n BY <1>4
<1> HIDE DEF D, f, n, part, order, shares, S
<1>14. Partition(part, 1..n, D) BY <1>6, <1>8, <1>9, <1>10 DEF Partition
<1>15. SumByParts(f, part, 1..n) = SumFunctionOnSet(f, D)
  <2> DEFINE T == 1..n
  <2> HIDE DEF T
  <2>1. SumByParts(f, part, T) = SumFunctionOnSet(f, D) BY <1>12, <1>14, SumPartition DEF T
  <2> QED BY <2>1 DEF T
<1>16. SumFunctionOnSet([k \in DOMAIN shares |-> shares[k][2]], DOMAIN shares) = amount
  BY <1>7, <1>11, <1>13, <1>15 DEF SumByParts
<1> QED BY <1>16, OneSharePerArtist DEF shares

-----------------------------------------------------------------------------
\* The Merkle trees: what a proof hashes to.

(* A set of naturals has a least element. *)
LEMMA Least == ASSUME NEW B \in SUBSET Nat, B # {} PROVE \E m \in B : \A x \in B : m <= x
<1> DEFINE R == OpToRel(<, Nat)
<1>1. IsWellFoundedOn(R, Nat) BY NatLessThanWellFounded
<1>2. \A x, y \in Nat : x < y => <<x, y>> \in R BY DEF OpToRel
<1>3. PICK m \in B : \A y \in B : ~ (<<y, m>> \in R)
  <2> HIDE DEF R
  <2> QED BY <1>1, WFMin
<1> HIDE DEF R
<1>4. \A x \in B : m <= x
  <2> SUFFICES ASSUME NEW x \in B PROVE m <= x OBVIOUS
  <2>1. ~ (<<x, m>> \in R) BY <1>3
  <2>2. x \in Nat /\ m \in Nat OBVIOUS
  <2>3. ~ (x < m) BY <1>2, <2>1, <2>2
  <2> QED BY <2>2, <2>3
<1> QED BY <1>3, <1>4

-----------------------------------------------------------------------------
\* What the verifier computes: the hash of the leaf with one entry of the
\* proof after the other.

Hashed(leaf, proof, g) ==
    g = [s \in SUBSET (DOMAIN proof) |->
            IF s = {} THEN leaf ELSE HashPair(g[s \ {Max(s)}], proof[Max(s)])]
Hashing(leaf, proof)  == CHOOSE g : Hashed(leaf, proof, g)
Computed(leaf, proof) == FoldLeft(HashPair, leaf, proof)

(* The library's fold is the value of the recursion at the whole proof. *)
LEMMA ComputedIsHashed ==
    ASSUME NEW leaf, NEW proof
    PROVE  Computed(leaf, proof) = Hashing(leaf, proof)[DOMAIN proof]
BY DEF Computed, FoldLeft, MapThenFoldSet, Hashing, Hashed

(* The greatest number of a set below a number is in it; that of an interval is its end. *)
LEMMA GreatestOf ==
    ASSUME NEW n \in Nat
    PROVE  /\ \A s \in SUBSET (1..n) : s # {} => Max(s) \in s /\ \A x \in s : x <= Max(s)
           /\ n # 0 => Max(1..n) = n
<1>1. ASSUME NEW s \in SUBSET (1..n), s # {} PROVE Max(s) \in s /\ \A x \in s : x <= Max(s)
  <2>1. IsFiniteSet(s)
    <3>1. IsFiniteSet(1..n) BY FS_Interval
    <3> QED BY <3>1, FS_Subset
  <2>2. PICK m \in s : \A x \in s : x <= m BY <1>1, <2>1, Greatest
  <2> QED BY <2>2 DEF Max
<1>2. ASSUME n # 0 PROVE Max(1..n) = n
  <2>1. n \in 1..n /\ \A x \in 1..n : x <= n BY <1>2
  <2>2. Max(1..n) \in 1..n /\ n <= Max(1..n)
    <3>1. 1..n \in SUBSET (1..n) /\ 1..n # {} BY <2>1
    <3> QED BY <1>1, <2>1, <3>1
  <2> QED BY <2>2
<1> QED BY <1>1, <1>2

(* The recursion behind the fold has a solution, for proofs of any length. *)
LEMMA HashingExists ==
    ASSUME NEW leaf, NEW proof, NEW n \in Nat, DOMAIN proof = 1..n
    PROVE  Hashed(leaf, proof, Hashing(leaf, proof))
<1> DEFINE Chain(m, g) ==
             /\ DOMAIN g = SUBSET (1..m)
             /\ \A s \in SUBSET (1..m) :
                   g[s] = IF s = {} THEN leaf ELSE HashPair(g[s \ {Max(s)}], proof[Max(s)])
           Good == {m \in 0..n : \E g : Chain(m, g)}
<1>1. 0 \in Good
  <2> DEFINE g == [s \in SUBSET (1..0) |-> leaf]
  <2>1. 1..0 = {} OBVIOUS
  <2>2. Chain(0, g) BY <2>1
  <2> HIDE DEF Chain
  <2> QED BY <2>2
<1>2. ASSUME NEW m \in 0..n, m < n, m \in Good PROVE m + 1 \in Good
  <2>1. PICK g : Chain(m, g) BY <1>2
  <2> DEFINE h == [s \in SUBSET (1..(m + 1)) |->
                     IF m + 1 \in s THEN HashPair(g[s \ {m + 1}], proof[m + 1]) ELSE g[s]]
  <2>2. ASSUME NEW s \in SUBSET (1..(m + 1))
        PROVE  h[s] = IF s = {} THEN leaf ELSE HashPair(h[s \ {Max(s)}], proof[Max(s)])
    <3>1. CASE m + 1 \in s
      <4>1. Max(s) = m + 1
        <5>1. m + 1 \in Nat /\ Max(s) \in s /\ m + 1 <= Max(s) BY <3>1, GreatestOf
        <5>2. Max(s) \in 1..(m + 1) BY <5>1
        <5> QED BY <5>1, <5>2
      <4>2. s \ {m + 1} \in SUBSET (1..(m + 1)) /\ h[s \ {m + 1}] = g[s \ {m + 1}] OBVIOUS
      <4> QED BY <3>1, <4>1, <4>2
    <3>2. CASE m + 1 \notin s
      <4>1. s \in SUBSET (1..m) /\ h[s] = g[s] BY <3>2
      <4>2. CASE s = {} BY <2>1, <4>1, <4>2
      <4>3. CASE s # {}
        <5>1. Max(s) \in s BY <4>1, <4>3, GreatestOf
        <5>2. s \ {Max(s)} \in SUBSET (1..(m + 1)) /\ m + 1 \notin s \ {Max(s)} BY <3>2
        <5>3. h[s \ {Max(s)}] = g[s \ {Max(s)}] BY <5>2
        <5>4. g[s] = HashPair(g[s \ {Max(s)}], proof[Max(s)]) BY <2>1, <4>1, <4>3
        <5> QED BY <4>1, <4>3, <5>3, <5>4
      <4> QED BY <4>2, <4>3
    <3> QED BY <3>1, <3>2
  <2>3. Chain(m + 1, h)
    <3>1. DOMAIN h = SUBSET (1..(m + 1)) OBVIOUS
    <3> HIDE DEF h
    <3> QED BY <2>2, <3>1
  <2> HIDE DEF Chain, h
  <2> QED BY <1>2, <2>3
<1>3. n \in Good
  <2> HIDE DEF Good
  <2>1. ASSUME NEW m \in 0..(n - 1), m \in Good PROVE m + 1 \in Good BY <1>2, <2>1
  <2> QED BY <1>1, <2>1, UpTo
<1>4. PICK g : Chain(n, g) BY <1>3
<1> DEFINE H == [s \in SUBSET (1..n) |->
                   IF s = {} THEN leaf ELSE HashPair(g[s \ {Max(s)}], proof[Max(s)])]
           f == [s \in SUBSET (1..n) |-> g[s]]
<1>5. f = [s \in SUBSET (1..n) |->
             IF s = {} THEN leaf ELSE HashPair(f[s \ {Max(s)}], proof[Max(s)])]
  <2>1. \A s \in SUBSET (1..n) : s \ {Max(s)} \in SUBSET (1..n) OBVIOUS
  <2>2. \A s \in SUBSET (1..n) :
           f[s] = IF s = {} THEN leaf ELSE HashPair(f[s \ {Max(s)}], proof[Max(s)])
    BY <1>4, <2>1
  <2> QED BY <2>2
<1> HIDE DEF f
<1>6. Hashed(leaf, proof, f) BY <1>5 DEF Hashed
<1> QED BY <1>6 DEF Hashing

\* g takes the first k + 1 of n entries of a proof from the first k.
Chained(leaf, proof, n, g) ==
    /\ g[1..0] = leaf
    /\ \A k \in 0..n : k < n => g[1..(k + 1)] = HashPair(g[1..k], proof[k + 1])

(* The recursion at the first k entries of a proof. *)
LEMMA HashingStep ==
    ASSUME NEW leaf, NEW proof, NEW n \in Nat, DOMAIN proof = 1..n, NEW g, Hashed(leaf, proof, g)
    PROVE  Chained(leaf, proof, n, g)
<1>1. \A s \in SUBSET (1..n) :
         g[s] = IF s = {} THEN leaf ELSE HashPair(g[s \ {Max(s)}], proof[Max(s)])
  BY DEF Hashed
<1>2. g[1..0] = leaf
  <2>1. 1..0 = {} /\ 1..0 \in SUBSET (1..n) OBVIOUS
  <2> QED BY <1>1, <2>1
<1>3. ASSUME NEW k \in 0..n, k < n PROVE g[1..(k + 1)] = HashPair(g[1..k], proof[k + 1])
  <2>1. 1..(k + 1) \in SUBSET (1..n) /\ 1..(k + 1) # {} /\ (1..(k + 1)) \ {k + 1} = 1..k BY <1>3
  <2>2. Max(1..(k + 1)) = k + 1 BY GreatestOf
  <2>3. g[1..(k + 1)] = HashPair(g[(1..(k + 1)) \ {Max(1..(k + 1))}], proof[Max(1..(k + 1))])
    BY <1>1, <2>1
  <2> QED BY <2>1, <2>2, <2>3
<1> QED BY <1>2, <1>3 DEF Chained

(* An empty proof leaves the leaf, and one more entry is one more hash. *)
LEMMA ComputedGrows ==
    ASSUME NEW leaf, NEW V, NEW proof \in Seq(V), NEW e \in V
    PROVE  /\ Computed(leaf, <<>>) = leaf
           /\ Computed(leaf, Append(proof, e)) = HashPair(Computed(leaf, proof), e)
<1> DEFINE n == Len(proof)
           longer == Append(proof, e)
           g == Hashing(leaf, proof)
           h == Hashing(leaf, longer)
           none == Hashing(leaf, <<>>)
           m == n + 1
<1>1. /\ n \in Nat /\ DOMAIN proof = 1..n /\ DOMAIN longer = 1..(n + 1) /\ DOMAIN <<>> = 1..0
      /\ longer[n + 1] = e /\ \A k \in 1..n : longer[k] = proof[k]
  OBVIOUS
<1>0. m \in Nat /\ 0 \in Nat /\ DOMAIN longer = 1..m BY <1>1
<1> HIDE DEF n, longer, m
<1>2. Hashed(leaf, proof, g) /\ Hashed(leaf, longer, h) /\ Hashed(leaf, <<>>, none)
  BY <1>1, HashingExists
<1> HIDE DEF g, h, none
<1>7. Chained(leaf, proof, n, g) BY <1>1, <1>2, HashingStep
<1>8. Chained(leaf, longer, m, h) BY <1>0, <1>2, HashingStep
<1>9. Chained(leaf, <<>>, 0, none) BY <1>0, <1>1, <1>2, HashingStep
<1>3. Computed(leaf, <<>>) = leaf
  <2>1. Computed(leaf, <<>>) = none[1..0] BY <1>1, ComputedIsHashed DEF none
  <2> QED BY <1>9, <2>1 DEF Chained
<1>4. Computed(leaf, proof) = g[1..n] /\ Computed(leaf, longer) = h[1..(n + 1)]
  BY <1>1, ComputedIsHashed DEF g, h
<1>5. h[1..(n + 1)] = HashPair(h[1..n], e)
  <2>1. n \in 0..m /\ n < m BY <1>1 DEF m
  <2>2. h[1..(n + 1)] = HashPair(h[1..n], longer[n + 1]) BY <1>8, <2>1 DEF Chained
  <2> QED BY <1>1, <2>2
<1>6. h[1..n] = g[1..n]
  <2> DEFINE Good == {k \in 0..n : h[1..k] = g[1..k]}
  <2>1. 0 \in Good
    <3>1. g[1..0] = leaf /\ h[1..0] = leaf BY <1>7, <1>8 DEF Chained
    <3> QED BY <1>1, <3>1
  <2>2. ASSUME NEW k \in 0..n, k < n, k \in Good PROVE k + 1 \in Good
    <3>1. g[1..(k + 1)] = HashPair(g[1..k], proof[k + 1]) BY <1>7, <2>2 DEF Chained
    <3>2. k \in 0..m /\ k < m /\ k + 1 \in 1..n /\ k + 1 \in 0..n BY <1>1, <2>2 DEF m
    <3>3. h[1..(k + 1)] = HashPair(h[1..k], longer[k + 1]) BY <1>8, <3>2 DEF Chained
    <3>4. longer[k + 1] = proof[k + 1] BY <1>1, <3>2
    <3> QED BY <2>2, <3>1, <3>2, <3>3, <3>4
  <2>3. n \in Good
    <3> HIDE DEF Good
    <3>1. ASSUME NEW k \in 0..(n - 1), k \in Good PROVE k + 1 \in Good BY <1>1, <2>2, <3>1
    <3> QED BY <1>1, <2>1, <3>1, UpTo
  <2> QED BY <2>3
<1> QED BY <1>3, <1>4, <1>5, <1>6 DEF longer

-----------------------------------------------------------------------------
\* The tree: halving the leaves ends in one node.

Nodes(l)  == {l[i] : i \in DOMAIN l}
IsLayer(l) == l \in Seq(Nodes(l)) /\ l # <<>>

(* A layer has a node, and the next has one for every two. *)
LEMMA NextLayerHalves ==
    ASSUME NEW l, IsLayer(l)
    PROVE  /\ Len(l) \in Nat \ {0} /\ DOMAIN l = 1..Len(l)
           /\ IsLayer(NextLayer(l)) /\ Len(NextLayer(l)) = (Len(l) + 1) \div 2
           /\ \A i \in 1..((Len(l) + 1) \div 2) :
                 NextLayer(l)[i] = IF 2 * i <= Len(l) THEN HashPair(l[2 * i - 1], l[2 * i])
                                                      ELSE l[2 * i - 1]
<1>1. Len(l) \in Nat \ {0} /\ DOMAIN l = 1..Len(l) BY DEF IsLayer
<1> DEFINE m == (Len(l) + 1) \div 2
           next == NextLayer(l)
<1>2. m \in Nat \ {0} BY <1>1
<1>3. next = [i \in 1..m |-> IF 2 * i <= Len(l) THEN HashPair(l[2 * i - 1], l[2 * i])
                                                ELSE l[2 * i - 1]]
  BY DEF NextLayer
<1> HIDE DEF m, next
<1>4. DOMAIN next = 1..m /\ next \in [1..m -> Nodes(next)]
  <2>1. DOMAIN next = 1..m /\ next = [i \in 1..m |-> next[i]] BY <1>3
  <2>2. \A i \in 1..m : next[i] \in Nodes(next) BY <2>1 DEF Nodes
  <2> QED BY <2>1, <2>2
<1>5. next \in Seq(Nodes(next)) /\ Len(next) = m BY <1>2, <1>4
<1>6. next # <<>> BY <1>2, <1>5
<1>7. \A i \in 1..m : next[i] = IF 2 * i <= Len(l) THEN HashPair(l[2 * i - 1], l[2 * i])
                                                   ELSE l[2 * i - 1]
  BY <1>3
<1> QED BY <1>1, <1>5, <1>6, <1>7 DEF m, next, IsLayer

\* The recursion of Layers.
Stacks(leaves, f) ==
    f = [d \in 0..Len(leaves) |-> IF d = 0 THEN leaves ELSE NextLayer(f[d - 1])]
Stack(leaves) == CHOOSE f : Stacks(leaves, f)
Height(leaves) ==
    CHOOSE h \in 0..Len(leaves) :
        Len(Stack(leaves)[h]) = 1 /\ \A e \in 0..(h - 1) : Len(Stack(leaves)[e]) > 1

(* Layers takes the stack up to its height. *)
LEMMA LayersUnfold ==
    ASSUME NEW leaves
    PROVE  Layers(leaves) = [d \in 1..(Height(leaves) + 1) |-> Stack(leaves)[d - 1]]
BY DEF Layers, Height, Stack, Stacks

(* The recursion has a solution. *)
LEMMA StackExists ==
    ASSUME NEW leaves, Len(leaves) \in Nat
    PROVE  Stacks(leaves, Stack(leaves))
<1> DEFINE n == Len(leaves)
           Built(m, f) == f = [d \in 0..m |-> IF d = 0 THEN leaves ELSE NextLayer(f[d - 1])]
           Good == {m \in 0..n : \E f : Built(m, f)}
<1>1. 0 \in Good
  <2> DEFINE f == [d \in 0..0 |-> leaves]
  <2>1. f = [d \in 0..0 |-> IF d = 0 THEN leaves ELSE NextLayer(f[d - 1])] OBVIOUS
  <2>2. Built(0, f) BY <2>1
  <2> HIDE DEF Built
  <2> QED BY <2>2
<1>2. ASSUME NEW m \in 0..(n - 1), m \in Good PROVE m + 1 \in Good
  <2>1. PICK f : Built(m, f) BY <1>2
  <2> DEFINE g == [d \in 0..(m + 1) |-> IF d = m + 1 THEN NextLayer(f[m]) ELSE f[d]]
  <2>2. ASSUME NEW d \in 0..(m + 1)
        PROVE  g[d] = IF d = 0 THEN leaves ELSE NextLayer(g[d - 1])
    <3>1. \A e \in 0..m : f[e] = IF e = 0 THEN leaves ELSE NextLayer(f[e - 1]) BY <2>1
    <3>2. CASE d = m + 1
      <4>1. g[d] = NextLayer(f[m]) /\ d # 0 /\ d - 1 = m BY <3>2
      <4>2. g[m] = f[m] OBVIOUS
      <4> QED BY <4>1, <4>2
    <3>3. CASE d # m + 1
      <4>1. d \in 0..m /\ g[d] = f[d] BY <3>3
      <4>2. d # 0 => d - 1 \in 0..m /\ g[d - 1] = f[d - 1] BY <4>1
      <4> QED BY <3>1, <4>1, <4>2
    <3> QED BY <3>2, <3>3
  <2>3. Built(m + 1, g)
    <3>1. g = [d \in 0..(m + 1) |-> g[d]] OBVIOUS
    <3> HIDE DEF g
    <3> QED BY <2>2, <3>1
  <2>4. m + 1 \in 0..n BY <1>2
  <2> HIDE DEF Built, g
  <2> QED BY <2>3, <2>4
<1>3. n \in Good
  <2> HIDE DEF Good
  <2> QED BY <1>1, <1>2, UpTo
<1>4. PICK f : Built(n, f) BY <1>3
<1>5. Stacks(leaves, f) BY <1>4 DEF Stacks
<1> QED BY <1>5 DEF Stack

(* Every entry of the stack is a layer, and its length falls to one. *)
LEMMA StackShrinks ==
    ASSUME NEW leaves, IsLayer(leaves)
    PROVE  /\ Len(leaves) \in Nat \ {0}
           /\ Stack(leaves)[0] = leaves
           /\ \A d \in 0..Len(leaves) :
                 /\ IsLayer(Stack(leaves)[d])
                 /\ Len(Stack(leaves)[d]) \in Nat \ {0}
                 /\ Len(Stack(leaves)[d]) = 1 \/ Len(Stack(leaves)[d]) <= Len(leaves) - d
                 /\ d < Len(leaves) => Stack(leaves)[d + 1] = NextLayer(Stack(leaves)[d])
<1> DEFINE n == Len(leaves)
           f == Stack(leaves)
           Fine(d) == IsLayer(f[d]) /\ Len(f[d]) \in Nat \ {0} /\ (Len(f[d]) = 1 \/ Len(f[d]) <= n - d)
           Good == {m \in 0..n : \A d \in 0..m : Fine(d)}
<1>1. n \in Nat \ {0} BY NextLayerHalves
<1>2. f = [d \in 0..n |-> IF d = 0 THEN leaves ELSE NextLayer(f[d - 1])]
  BY <1>1, StackExists DEF Stacks
<1> HIDE DEF n, f
<1>3. f[0] = leaves /\ \A d \in 0..n : d < n => f[d + 1] = NextLayer(f[d]) BY <1>1, <1>2
<1>4. 0 \in Good
  <2>1. Fine(0) BY <1>1, <1>3 DEF n
  <2> HIDE DEF Fine
  <2> QED BY <1>1, <2>1
<1>5. ASSUME NEW m \in 0..(n - 1), m \in Good PROVE m + 1 \in Good
  <2>1. m \in 0..n /\ m < n /\ m + 1 \in 0..n /\ Fine(m) /\ \A d \in 0..m : Fine(d) BY <1>1, <1>5
  <2>2. f[m + 1] = NextLayer(f[m]) BY <1>3, <2>1
  <2>3. IsLayer(f[m + 1]) /\ Len(f[m + 1]) = (Len(f[m]) + 1) \div 2 BY <2>1, <2>2, NextLayerHalves
  <2>4. \A k \in Nat \ {0} : /\ (k + 1) \div 2 \in Nat \ {0}
                             /\ (k = 1 \/ k <= n - m) =>
                                   ((k + 1) \div 2 = 1 \/ (k + 1) \div 2 <= n - (m + 1))
    BY <1>1, <2>1
  <2>5. Fine(m + 1) BY <2>1, <2>3, <2>4
  <2> HIDE DEF Fine
  <2> QED BY <2>1, <2>5
<1>6. n \in Good
  <2> HIDE DEF Good
  <2> QED BY <1>1, <1>4, <1>5, UpTo
<1> QED BY <1>1, <1>3, <1>6 DEF n, f

\* A tree: the leaves at the bottom, one node at the top, and layers in between.
IsTree(tree, leaves) ==
    /\ Len(tree) \in Nat \ {0} /\ DOMAIN tree = 1..Len(tree)
    /\ tree[1] = leaves /\ Len(tree[Len(tree)]) = 1
    /\ \A d \in 1..Len(tree) : IsLayer(tree[d]) /\ Len(tree[d]) \in Nat \ {0}
    /\ \A d \in 1..Len(tree) : d < Len(tree) => tree[d + 1] = NextLayer(tree[d])

(* What buildTree makes of any list of leaves is a tree. *)
LEMMA LayersAreATree ==
    ASSUME NEW leaves, IsLayer(leaves)
    PROVE  IsTree(Layers(leaves), leaves)
<1> DEFINE n == Len(leaves)
           f == Stack(leaves)
           B == {h \in 0..n : Len(f[h]) = 1}
           Low(h) == Len(f[h]) = 1 /\ \A e \in 0..(h - 1) : Len(f[e]) > 1
           top == Height(leaves)
           tree == Layers(leaves)
<1>1. /\ n \in Nat \ {0} /\ f[0] = leaves
      /\ \A d \in 0..n : /\ IsLayer(f[d]) /\ Len(f[d]) \in Nat \ {0}
                         /\ Len(f[d]) = 1 \/ Len(f[d]) <= n - d
                         /\ d < n => f[d + 1] = NextLayer(f[d])
  BY StackShrinks
<1>2. top = CHOOSE h \in 0..n : Low(h) BY DEF Height
<1>3. tree = [d \in 1..(top + 1) |-> f[d - 1]] BY LayersUnfold
<1> HIDE DEF n, f, top, tree
<1>4. \E h \in 0..n : Low(h)
  <2>1. n - 1 \in B
    <3>1. n - 1 \in 0..n /\ (Len(f[n - 1]) = 1 \/ Len(f[n - 1]) <= n - (n - 1)) /\ Len(f[n - 1]) \in Nat \ {0}
      BY <1>1
    <3>2. \A k \in Nat \ {0} : k = 1 \/ k <= n - (n - 1) => k = 1 BY <1>1
    <3>3. Len(f[n - 1]) = 1 BY <3>1, <3>2
    <3> QED BY <3>1, <3>3
  <2>2. PICK h \in B : \A x \in B : h <= x
    <3>1. \A h \in 0..n : h \in Nat BY <1>1
    <3>2. B \in SUBSET Nat BY <3>1
    <3> HIDE DEF B
    <3> QED BY <2>1, <3>2, Least
  <2>3. h \in 0..n /\ Len(f[h]) = 1 OBVIOUS
  <2>4. ASSUME NEW e \in 0..(h - 1) PROVE Len(f[e]) > 1
    <3>1. e \in 0..n /\ e < h /\ Len(f[e]) \in Nat \ {0} BY <1>1, <2>3
    <3>2. e \notin B
      <4> HIDE DEF B
      <4> QED BY <2>2, <2>3, <3>1
    <3>3. Len(f[e]) # 1 BY <3>1, <3>2
    <3>4. \A k \in Nat \ {0} : k # 1 => k > 1 OBVIOUS
    <3> HIDE DEF B
    <3> QED BY <3>1, <3>3, <3>4
  <2> QED BY <2>3, <2>4
<1>5. top \in 0..n /\ Low(top) BY <1>2, <1>4
<1>6. tree \in Seq({f[d] : d \in 0..n}) /\ Len(tree) = top + 1 /\ DOMAIN tree = 1..(top + 1)
  <2>1. tree \in [1..(top + 1) -> {f[d] : d \in 0..n}]
    <3>1. \A d \in 1..(top + 1) : d - 1 \in 0..n BY <1>1, <1>5
    <3> QED BY <1>3, <3>1
  <2>2. top + 1 \in Nat BY <1>1, <1>5
  <2> QED BY <2>1, <2>2
<1>7. \A d \in 1..(top + 1) : tree[d] = f[d - 1] BY <1>3
<1>8. tree[1] = leaves /\ Len(tree[top + 1]) = 1 BY <1>1, <1>5, <1>7
<1>9. ASSUME NEW d \in 1..(top + 1)
      PROVE  /\ IsLayer(tree[d]) /\ Len(tree[d]) \in Nat \ {0}
             /\ d < top + 1 => tree[d + 1] = NextLayer(tree[d])
  <2>1. tree[d] = f[d - 1] /\ d - 1 \in 0..n BY <1>1, <1>5, <1>7
  <2>2. d < top + 1 => d + 1 \in 1..(top + 1) /\ tree[d + 1] = f[d - 1 + 1] /\ d - 1 < n
    BY <1>1, <1>5, <1>7
  <2> QED BY <1>1, <2>1, <2>2
<1>10. top + 1 \in Nat \ {0} BY <1>1, <1>5
<1> QED BY <1>6, <1>8, <1>9, <1>10 DEF IsTree, tree

(* A node's parent is its hash with its sibling, or the node itself. *)
LEMMA ParentOf ==
    ASSUME NEW l, IsLayer(l), NEW x \in Nat, x < Len(l)
    PROVE  /\ x \div 2 \in Nat /\ x \div 2 < Len(NextLayer(l)) /\ Sibling(x) \in Nat
           /\ NextLayer(l)[x \div 2 + 1] =
                IF Sibling(x) < Len(l) THEN HashPair(l[x + 1], l[Sibling(x) + 1]) ELSE l[x + 1]
<1> DEFINE n == Len(l)
           h == x \div 2
<1>1. /\ n \in Nat \ {0} /\ Len(NextLayer(l)) = (n + 1) \div 2
      /\ \A i \in 1..((n + 1) \div 2) :
            NextLayer(l)[i] = IF 2 * i <= n THEN HashPair(l[2 * i - 1], l[2 * i]) ELSE l[2 * i - 1]
  BY NextLayerHalves
<1>2. x < n OBVIOUS
<1> HIDE DEF n
<1>3. h \in Nat /\ h < (n + 1) \div 2 /\ h + 1 \in 1..((n + 1) \div 2) BY <1>1, <1>2
<1>4. CASE x % 2 = 1
  <2>1. x = 2 * h + 1 /\ Sibling(x) = 2 * h BY <1>4 DEF Sibling
  <2> HIDE DEF h
  <2>2. 2 * (h + 1) <= n /\ 2 * (h + 1) - 1 = Sibling(x) + 1 /\ 2 * (h + 1) = x + 1 /\ Sibling(x) < n
    BY <1>1, <1>2, <1>3, <2>1
  <2>3. NextLayer(l)[h + 1] = HashPair(l[Sibling(x) + 1], l[x + 1]) BY <1>1, <1>3, <2>2
  <2>4. HashPair(l[Sibling(x) + 1], l[x + 1]) = HashPair(l[x + 1], l[Sibling(x) + 1])
    BY DEF HashPair
  <2> QED BY <1>1, <1>3, <2>1, <2>2, <2>3, <2>4 DEF h, n
<1>5. CASE x % 2 # 1
  <2>1. x = 2 * h /\ Sibling(x) = 2 * h + 1 BY <1>5 DEF Sibling
  <2> HIDE DEF h
  <2>2. 2 * (h + 1) = Sibling(x) + 1 /\ 2 * (h + 1) - 1 = x + 1 /\ (2 * (h + 1) <= n <=> Sibling(x) < n)
    BY <1>1, <1>2, <1>3, <2>1
  <2>3. NextLayer(l)[h + 1] = IF Sibling(x) < n THEN HashPair(l[x + 1], l[Sibling(x) + 1]) ELSE l[x + 1]
    BY <1>1, <1>3, <2>2
  <2> QED BY <1>1, <1>3, <2>1, <2>3 DEF h, n
<1> QED BY <1>4, <1>5

\* The recursions of GetProof: the index at each layer, and the siblings so far.
Climbs(tree, k, f) ==
    f = [d \in 1..Len(tree) |-> IF d = 1 THEN k - 1 ELSE f[d - 1] \div 2]
Climb(tree, k) == CHOOSE f : Climbs(tree, k, f)
Collects(tree, index, q) ==
    q = [d \in 1..Len(tree) |->
            IF d = 1 THEN <<>>
            ELSE LET sibling == Sibling(index[d - 1])
                 IN  IF sibling < Len(tree[d - 1])
                     THEN Append(q[d - 1], tree[d - 1][sibling + 1]) ELSE q[d - 1]]
Collected(tree, index) == CHOOSE q : Collects(tree, index, q)

(* GetProof is what has been collected at the top. *)
LEMMA GetProofUnfolds ==
    ASSUME NEW leaves, NEW k
    PROVE  LET tree == Layers(leaves)
           IN  GetProof(leaves, k) = Collected(tree, Climb(tree, k))[Len(tree)]
BY DEF GetProof, Collected, Collects, Climb, Climbs

(* The index has a solution. *)
LEMMA ClimbExists ==
    ASSUME NEW tree, NEW k, Len(tree) \in Nat
    PROVE  Climbs(tree, k, Climb(tree, k))
<1> DEFINE n == Len(tree)
           Built(m, f) == f = [d \in 1..m |-> IF d = 1 THEN k - 1 ELSE f[d - 1] \div 2]
           Good == {m \in 0..n : \E f : Built(m, f)}
<1>1. 0 \in Good
  <2> DEFINE f == [d \in 1..0 |-> k]
  <2>1. 1..0 = {} OBVIOUS
  <2>2. f = [d \in 1..0 |-> IF d = 1 THEN k - 1 ELSE f[d - 1] \div 2] BY <2>1
  <2>3. Built(0, f) BY <2>2
  <2> HIDE DEF Built
  <2> QED BY <2>3
<1>2. ASSUME NEW m \in 0..(n - 1), m \in Good PROVE m + 1 \in Good
  <2>1. PICK f : Built(m, f) BY <1>2
  <2> DEFINE g == [d \in 1..(m + 1) |-> IF d = m + 1 THEN IF d = 1 THEN k - 1 ELSE f[m] \div 2 ELSE f[d]]
  <2>2. ASSUME NEW d \in 1..(m + 1)
        PROVE  g[d] = IF d = 1 THEN k - 1 ELSE g[d - 1] \div 2
    <3>1. \A e \in 1..m : f[e] = IF e = 1 THEN k - 1 ELSE f[e - 1] \div 2 BY <2>1
    <3>2. CASE d = m + 1
      <4>1. g[d] = IF d = 1 THEN k - 1 ELSE f[m] \div 2 BY <3>2
      <4>2. d # 1 => d - 1 = m /\ g[m] = f[m] BY <3>2
      <4> QED BY <4>1, <4>2
    <3>3. CASE d # m + 1
      <4>1. d \in 1..m /\ g[d] = f[d] BY <3>3
      <4>2. d # 1 => d - 1 \in 1..m /\ g[d - 1] = f[d - 1] BY <4>1
      <4> QED BY <3>1, <4>1, <4>2
    <3> QED BY <3>2, <3>3
  <2>3. Built(m + 1, g)
    <3>1. g = [d \in 1..(m + 1) |-> g[d]] OBVIOUS
    <3> HIDE DEF g
    <3> QED BY <2>2, <3>1
  <2>4. m + 1 \in 0..n BY <1>2
  <2> HIDE DEF Built, g
  <2> QED BY <2>3, <2>4
<1>3. n \in Good
  <2> HIDE DEF Good
  <2> QED BY <1>1, <1>2, UpTo
<1>4. PICK f : Built(n, f) BY <1>3
<1>5. Climbs(tree, k, f) BY <1>4 DEF Climbs
<1> QED BY <1>5 DEF Climb

\* One level of what is collected.
Pushed(tree, index, d, s) ==
    LET sibling == Sibling(index[d])
    IN  IF sibling < Len(tree[d]) THEN Append(s, tree[d][sibling + 1]) ELSE s

(* What is collected has a solution. *)
LEMMA CollectedExists ==
    ASSUME NEW tree, NEW index, Len(tree) \in Nat
    PROVE  Collects(tree, index, Collected(tree, index))
<1> DEFINE n == Len(tree)
           Built(m, q) == q = [d \in 1..m |-> IF d = 1 THEN <<>> ELSE Pushed(tree, index, d - 1, q[d - 1])]
           Good == {m \in 0..n : \E q : Built(m, q)}
<1>1. 0 \in Good
  <2> DEFINE q == [d \in 1..0 |-> d]
  <2>1. 1..0 = {} OBVIOUS
  <2>2. q = [d \in 1..0 |-> IF d = 1 THEN <<>> ELSE Pushed(tree, index, d - 1, q[d - 1])] BY <2>1
  <2>3. Built(0, q) BY <2>2
  <2> HIDE DEF Built
  <2> QED BY <2>3
<1>2. ASSUME NEW m \in 0..(n - 1), m \in Good PROVE m + 1 \in Good
  <2>1. PICK q : Built(m, q) BY <1>2
  <2> DEFINE r == [d \in 1..(m + 1) |->
                     IF d = m + 1 THEN IF d = 1 THEN <<>> ELSE Pushed(tree, index, m, q[m]) ELSE q[d]]
  <2>2. ASSUME NEW d \in 1..(m + 1)
        PROVE  r[d] = IF d = 1 THEN <<>> ELSE Pushed(tree, index, d - 1, r[d - 1])
    <3>1. \A e \in 1..m : q[e] = IF e = 1 THEN <<>> ELSE Pushed(tree, index, e - 1, q[e - 1]) BY <2>1
    <3>2. CASE d = m + 1
      <4>1. r[d] = IF d = 1 THEN <<>> ELSE Pushed(tree, index, m, q[m]) BY <3>2
      <4>2. d # 1 => d - 1 = m /\ r[m] = q[m] BY <3>2
      <4> HIDE DEF r
      <4> QED BY <4>1, <4>2
    <3>3. CASE d # m + 1
      <4>1. d \in 1..m /\ r[d] = q[d] BY <3>3
      <4>2. d # 1 => d - 1 \in 1..m /\ r[d - 1] = q[d - 1] BY <4>1
      <4> HIDE DEF r
      <4> QED BY <3>1, <4>1, <4>2
    <3> QED BY <3>2, <3>3
  <2>3. Built(m + 1, r)
    <3>1. r = [d \in 1..(m + 1) |-> r[d]] OBVIOUS
    <3> HIDE DEF r
    <3> QED BY <2>2, <3>1
  <2>4. m + 1 \in 0..n BY <1>2
  <2> HIDE DEF Built, r
  <2> QED BY <2>3, <2>4
<1>3. n \in Good
  <2> HIDE DEF Good
  <2> QED BY <1>1, <1>2, UpTo
<1>4. PICK q : Built(n, q) BY <1>3
<1>5. Collects(tree, index, q) BY <1>4 DEF Collects, Pushed
<1> QED BY <1>5 DEF Collected

(* Every leaf's proof is accepted: hashing the leaf with its siblings climbs the tree. *)
THEOREM ProofsVerify ==
    ASSUME NEW leaves, IsLayer(leaves), NEW k \in 1..Len(leaves)
    PROVE  Verify(GetProof(leaves, k), Root(leaves), leaves[k])
<1> DEFINE tree == Layers(leaves)
           n == Len(tree)
           x == Climb(tree, k)
           q == Collected(tree, x)
           V == UNION {Nodes(tree[d]) : d \in 1..n}
           Met(d) == /\ x[d] \in Nat /\ x[d] < Len(tree[d])
                    /\ q[d] \in Seq(V)
                    /\ Computed(leaves[k], q[d]) = tree[d][x[d] + 1]
           Good == {d \in 0..(n - 1) : Met(d + 1)}
<1>1. IsTree(tree, leaves) BY LayersAreATree
<1>2. GetProof(leaves, k) = q[n] BY GetProofUnfolds
<1>3. Root(leaves) = tree[n][1] BY DEF Root, Last
<1> HIDE DEF tree
<1>4. n \in Nat \ {0} BY <1>1 DEF IsTree
<1>5. Climbs(tree, k, x) BY <1>4, ClimbExists
<1> HIDE DEF x
<1>6. Collects(tree, x, q) BY <1>4, CollectedExists
<1> HIDE DEF q
<1>7. x[1] = k - 1 /\ \A d \in 1..n : d < n => x[d + 1] = x[d] \div 2
  BY <1>4, <1>5 DEF Climbs
<1>8. q[1] = <<>> /\ \A d \in 1..n : d < n => q[d + 1] = Pushed(tree, x, d, q[d])
  <2>1. q = [d \in 1..n |-> IF d = 1 THEN <<>> ELSE Pushed(tree, x, d - 1, q[d - 1])]
    BY <1>6 DEF Collects, Pushed
  <2>2. \A d \in 1..n : d < n => d + 1 \in 1..n /\ d + 1 # 1 /\ d + 1 - 1 = d BY <1>4
  <2>3. 1 \in 1..n BY <1>4
  <2> HIDE DEF n
  <2> QED BY <2>1, <2>2, <2>3
<1>9. 0 \in Good
  <2>1. tree[1] = leaves /\ k \in 1..Len(leaves) /\ Len(leaves) \in Nat BY <1>1, <1>4 DEF IsTree
  <2>2. x[1] \in Nat /\ x[1] < Len(tree[1]) /\ x[1] + 1 = k BY <1>7, <2>1
  <2>3. q[1] \in Seq(V) BY <1>8
  <2>4. Computed(leaves[k], q[1]) = tree[1][x[1] + 1] 
    <3>1. <<>> \in Seq({0}) /\ 0 \in {0} OBVIOUS
    <3> QED BY <1>8, <2>1, <2>2, <3>1, ComputedGrows
  <2>5. Met(0 + 1) BY <2>2, <2>3, <2>4
  <2> HIDE DEF Met
  <2> QED BY <1>4, <2>5
<1>10. ASSUME NEW i \in 0..(n - 1 - 1), i \in Good PROVE i + 1 \in Good
  <2> DEFINE d == i + 1
             l == tree[d]
             s == Sibling(x[d])
  <2>1. d \in 1..n /\ d < n /\ Met(d) /\ i + 1 \in 0..(n - 1) BY <1>4, <1>10
  <2>2. IsLayer(l) /\ Len(l) \in Nat \ {0} /\ tree[d + 1] = NextLayer(l) /\ d + 1 \in 1..n
    BY <1>1, <2>1 DEF IsTree
  <2>3. x[d] \in Nat /\ x[d] < Len(l) /\ q[d] \in Seq(V) /\ Computed(leaves[k], q[d]) = l[x[d] + 1]
    BY <2>1
  <2>4. x[d + 1] = x[d] \div 2 /\ q[d + 1] = Pushed(tree, x, d, q[d]) BY <1>7, <1>8, <2>1
  <2>5. /\ x[d] \div 2 \in Nat /\ x[d] \div 2 < Len(NextLayer(l)) /\ s \in Nat
        /\ NextLayer(l)[x[d] \div 2 + 1] =
             IF s < Len(l) THEN HashPair(l[x[d] + 1], l[s + 1]) ELSE l[x[d] + 1]
    BY <2>2, <2>3, ParentOf
  <2>6. q[d + 1] = IF s < Len(l) THEN Append(q[d], l[s + 1]) ELSE q[d] BY <2>4 DEF Pushed
  <2>7. CASE s < Len(l)
    <3>1. l[s + 1] \in V
      <4>1. s + 1 \in DOMAIN l
        <5>1. DOMAIN l = 1..Len(l) BY <2>2, NextLayerHalves
        <5>2. s \in Nat /\ Len(l) \in Nat BY <2>2, <2>5
        <5> HIDE DEF s, l
        <5> QED BY <2>7, <5>1, <5>2
      <4>2. l[s + 1] \in Nodes(tree[d]) BY <4>1 DEF Nodes
      <4> QED BY <2>1, <4>2
    <3> HIDE DEF V, d, l, s
    <3>2. q[d + 1] \in Seq(V) BY <2>3, <2>6, <2>7, <3>1
    <3>3. Computed(leaves[k], q[d + 1]) = HashPair(l[x[d] + 1], l[s + 1])
      BY <2>3, <2>6, <2>7, <3>1, ComputedGrows
    <3>4. tree[d + 1][x[d + 1] + 1] = HashPair(l[x[d] + 1], l[s + 1]) BY <2>2, <2>4, <2>5, <2>7
    <3>5. Met(d + 1) BY <2>2, <2>4, <2>5, <3>2, <3>3, <3>4
    <3> HIDE DEF Met
    <3> QED BY <2>1, <3>5 DEF d
  <2>8. CASE ~ (s < Len(l))
    <3> HIDE DEF V, d, l, s
    <3>1. q[d + 1] = q[d] /\ tree[d + 1][x[d + 1] + 1] = l[x[d] + 1] BY <2>2, <2>4, <2>5, <2>6, <2>8
    <3>2. Met(d + 1) BY <2>2, <2>3, <2>4, <2>5, <3>1
    <3> HIDE DEF Met
    <3> QED BY <2>1, <3>2 DEF d
  <2> QED BY <2>7, <2>8
<1>11. n - 1 \in Good
  <2>1. n - 1 \in Nat BY <1>4
  <2> HIDE DEF Good
  <2> QED BY <1>9, <1>10, <2>1, UpTo
<1>12. Met(n) BY <1>4, <1>11
<1>13. x[n] = 0 BY <1>1, <1>12 DEF IsTree
<1>14. Computed(leaves[k], q[n]) = tree[n][1] BY <1>12, <1>13
<1> QED BY <1>2, <1>3, <1>14 DEF Verify, Computed

-----------------------------------------------------------------------------
\* The money of the two contracts.

CorpusRoots == {CorpusRoot(corpus) : corpus \in Corpora}
ShareRoots  == {Root(Leaves(shares)) : shares \in Seq(Artists \X Nat)}

PoolRecords ==
    [company : Companies, corpusRoot : CorpusRoots, amount : Nat,
     distributed : BOOLEAN, withdrawn : BOOLEAN]
AllocationRecords ==
    [submitted : {TRUE}, root : ShareRoots, total : Nat, claimedAmount : Nat]

HeldFor(p) == IF Exists(p) THEN pools[p].amount ELSE 0
Held == [p \in PoolIds |-> HeldFor(p)]
Owed == [p \in PoolIds |-> Unpaid(p)]

PoolsTyped ==
    /\ pools \in [PoolIds -> PoolRecords \cup {NoPool}]
    /\ nextPoolId \in 1..(MaxPools + 1)
    /\ \A p \in PoolIds : Exists(p) <=> p < nextPoolId
AllocationsTyped ==
    /\ allocations \in [PoolIds -> AllocationRecords \cup {NoAllocation}]
    /\ claimed \in [PoolIds -> SUBSET Artists]
BalancesTyped == balance \in [Accounts -> Nat]

\* What is left of a pool, and whether it is open.
PoolKept(p) ==
    /\ pools[p].amount > 0 <=> Open(p)
    /\ ~(pools[p].distributed /\ pools[p].withdrawn)
PoolsKept == \A p \in PoolIds : Exists(p) => PoolKept(p)
PoolMoney  == balance[PoolContract] = SumFunctionOnSet(Held, PoolIds)
ClaimMoney == balance[ClaimContract] >= SumFunctionOnSet(Owed, PoolIds)

MoneyInv ==
    /\ PoolsTyped /\ AllocationsTyped /\ BalancesTyped
    /\ PoolsKept /\ PoolMoney /\ ClaimMoney

\* There are finitely many pools, and the parties of a transfer are apart.
LEMMA PoolIdsAreFinite == IsFiniteSet(PoolIds)
<1>1. 1 \in Int /\ MaxPools \in Int BY RailAssumption
<1>2. IsFiniteSet(1..MaxPools) BY <1>1, FS_Interval
<1> QED BY <1>2 DEF PoolIds

(* Contracts, owner, companies and artists are accounts, and the contracts nobody else. *)
LEMMA Parties ==
    /\ Nobody \notin Companies
    /\ PoolContract \in Accounts /\ ClaimContract \in Accounts /\ Owner \in Accounts
    /\ Companies \subseteq Accounts /\ Artists \subseteq Accounts
    /\ PoolContract # ClaimContract /\ PoolContract # Owner /\ ClaimContract # Owner
    /\ \A x \in Companies \cup Artists : x # PoolContract /\ x # ClaimContract
BY RailAssumption DEF Accounts, Companies

\* What a transfer between two accounts does to the balances.
LEMMA TransferMoves ==
    ASSUME BalancesTyped, NEW from \in Accounts, NEW to \in Accounts, from # to,
           NEW amount \in Nat, amount <= balance[from], balance' = Transfer(from, to, amount)
    PROVE  /\ BalancesTyped'
           /\ balance'[from] = balance[from] - amount
           /\ balance'[to] = balance[to] + amount
           /\ \A x \in Accounts : x # from /\ x # to => balance'[x] = balance[x]
<1>1. balance' = [x \in Accounts |-> IF x = to THEN balance[x] + amount
                                     ELSE IF x = from THEN balance[x] - amount
                                     ELSE balance[x]]
  BY DEF Transfer, BalancesTyped
<1>2. \A x \in Accounts : balance[x] \in Nat BY DEF BalancesTyped
<1>3. balance[from] - amount \in Nat BY <1>2
<1> QED BY <1>1, <1>2, <1>3 DEF BalancesTyped

\* A pool's and an allocation's part of the sums are numbers.
LEMMA HeldIsNat ==
    PoolsTyped => \A p \in PoolIds : /\ HeldFor(p) \in Nat /\ Held[p] = HeldFor(p)
                                     /\ Exists(p) => pools[p] \in PoolRecords
<1> SUFFICES ASSUME PoolsTyped, NEW p \in PoolIds
             PROVE  HeldFor(p) \in Nat /\ (Exists(p) => pools[p] \in PoolRecords)
  BY DEF Held
<1>1. pools[p] \in PoolRecords \cup {NoPool} BY DEF PoolsTyped
<1>2. Exists(p) => pools[p] \in PoolRecords BY <1>1 DEF Exists, NoPool
<1> QED BY <1>2 DEF HeldFor, PoolRecords

(* An allocation on chain is either submitted, with its amounts, or the empty record. *)
LEMMA AllocationKinds ==
    \A a \in AllocationRecords \cup {NoAllocation} :
        \/ a.submitted = TRUE /\ a.total \in Nat /\ a.claimedAmount \in Nat
           /\ a \in AllocationRecords
        \/ a.submitted = FALSE /\ a = NoAllocation
<1>1. \A a \in AllocationRecords : a.submitted = TRUE BY DEF AllocationRecords
<1>2. \A a \in AllocationRecords : a.total \in Nat /\ a.claimedAmount \in Nat
  BY DEF AllocationRecords
<1>3. NoAllocation.submitted = FALSE BY DEF NoAllocation
<1> QED BY <1>1, <1>2, <1>3

(* What an allocation still owes is an integer. *)
LEMMA OwedIsInt ==
    AllocationsTyped => \A p \in PoolIds : Unpaid(p) \in Int /\ Owed[p] = Unpaid(p)
<1> SUFFICES ASSUME AllocationsTyped, NEW p \in PoolIds PROVE Unpaid(p) \in Int
  BY DEF Owed
<1>1. allocations[p] \in AllocationRecords \cup {NoAllocation} BY DEF AllocationsTyped
<1> QED BY <1>1, AllocationKinds DEF Unpaid

\* A step that changes one pool changes the sum by that pool's change; the
\* same for one allocation.
LEMMA HeldChanges ==
    ASSUME PoolsTyped, PoolsTyped', NEW p \in PoolIds,
           \A q \in PoolIds : q # p => pools'[q] = pools[q]
    PROVE  SumFunctionOnSet(Held, PoolIds)'
             = SumFunctionOnSet(Held, PoolIds) - HeldFor(p) + HeldFor(p)'
<1>1. \A q \in PoolIds : Held[q] \in Int /\ Held[q] = HeldFor(q) BY HeldIsNat
<1>2. \A q \in PoolIds : Held'[q] \in Int /\ Held'[q] = HeldFor(q)'
  <2> SUFFICES ASSUME NEW q \in PoolIds PROVE HeldFor(q)' \in Nat BY DEF Held
  <2>1. pools'[q] \in PoolRecords \cup {NoPool} BY DEF PoolsTyped
  <2> QED BY <2>1 DEF HeldFor, PoolRecords, Exists, NoPool
<1>3. \A q \in PoolIds \ {p} : Held'[q] = Held[q]
  BY <1>1, <1>2 DEF HeldFor, Exists
<1>4. SumFunctionOnSet(Held', PoolIds) = SumFunctionOnSet(Held, PoolIds) - Held[p] + Held'[p]
  <2>1. IsFiniteSet(PoolIds) BY PoolIdsAreFinite
  <2>2. \A q \in PoolIds : Held[q] \in Int /\ Held'[q] \in Int BY <1>1, <1>2
  <2> QED BY <1>3, <2>1, <2>2, SumChange
<1>5. PoolIds' = PoolIds BY DEF PoolIds
<1> QED BY <1>1, <1>2, <1>4, <1>5

(* When one allocation changes, the sum owed changes by what it owes more. *)
LEMMA OwedChanges ==
    ASSUME AllocationsTyped, AllocationsTyped', NEW p \in PoolIds,
           \A q \in PoolIds : q # p => allocations'[q] = allocations[q]
    PROVE  SumFunctionOnSet(Owed, PoolIds)'
             = SumFunctionOnSet(Owed, PoolIds) - Unpaid(p) + Unpaid(p)'
<1>1. \A q \in PoolIds : Owed[q] \in Int /\ Owed[q] = Unpaid(q) BY OwedIsInt
<1>2. \A q \in PoolIds : Owed'[q] \in Int /\ Owed'[q] = Unpaid(q)'
  <2> SUFFICES ASSUME NEW q \in PoolIds PROVE Unpaid(q)' \in Int BY DEF Owed
  <2>1. allocations'[q] \in AllocationRecords \cup {NoAllocation} BY DEF AllocationsTyped
  <2> QED BY <2>1, AllocationKinds DEF Unpaid
<1>3. \A q \in PoolIds \ {p} : Owed'[q] = Owed[q]
  BY <1>1, <1>2 DEF Unpaid
<1>4. SumFunctionOnSet(Owed', PoolIds) = SumFunctionOnSet(Owed, PoolIds) - Owed[p] + Owed'[p]
  <2>1. IsFiniteSet(PoolIds) BY PoolIdsAreFinite
  <2>2. \A q \in PoolIds : Owed[q] \in Int /\ Owed'[q] \in Int BY <1>1, <1>2
  <2> QED BY <1>3, <2>1, <2>2, SumChange
<1> QED BY <1>1, <1>2, <1>4

\* The sums are numbers, and a pool's part is at most the pool contract's
\* balance.
LEMMA SumsAreInt ==
    ASSUME PoolsTyped, AllocationsTyped
    PROVE  /\ SumFunctionOnSet(Held, PoolIds) \in Int
           /\ SumFunctionOnSet(Owed, PoolIds) \in Int
           /\ \A p \in PoolIds : HeldFor(p) <= SumFunctionOnSet(Held, PoolIds)
<1>1. \A q \in PoolIds : Held[q] \in Nat /\ Held[q] = HeldFor(q) BY HeldIsNat
<1>2. \A q \in PoolIds : Owed[q] \in Int BY OwedIsInt
<1>3. \A q \in PoolIds : Held[q] \in Int BY <1>1
<1>4. \A q \in PoolIds : Held[q] \in Nat BY <1>1
<1>5. IsFiniteSet(PoolIds) BY PoolIdsAreFinite
<1>6. SumFunctionOnSet(Held, PoolIds) \in Int BY <1>3, <1>5, SumIsInt
<1>7. SumFunctionOnSet(Owed, PoolIds) \in Int BY <1>2, <1>5, SumIsInt
<1>8. \A p \in PoolIds : Held[p] <= SumFunctionOnSet(Held, PoolIds)
  BY <1>4, <1>5, SumAtLeast
<1>9. \A p \in PoolIds : HeldFor(p) <= SumFunctionOnSet(Held, PoolIds) BY <1>1, <1>8
<1> QED BY <1>6, <1>7, <1>9

-----------------------------------------------------------------------------
\* The contracts' operations keep the books.

\* One pool's record is rewritten, and the pool contract's balance moves by
\* as much as the pool.
LEMMA PoolRewritten ==
    ASSUME MoneyInv, NEW p \in PoolIds, NEW r \in PoolRecords,
           pools' = [pools EXCEPT ![p] = r],
           r.amount > 0 <=> (~r.distributed /\ ~r.withdrawn), ~(r.distributed /\ r.withdrawn),
           nextPoolId' \in 1..(MaxPools + 1),
           \A q \in PoolIds : (q < nextPoolId \/ q = p) <=> q < nextPoolId',
           balance'[PoolContract] = balance[PoolContract] - HeldFor(p) + r.amount
    PROVE  PoolsTyped' /\ PoolsKept' /\ PoolMoney'
<1>1. PoolsTyped /\ PoolsKept /\ PoolMoney /\ AllocationsTyped BY DEF MoneyInv
<1>2. pools \in [PoolIds -> PoolRecords \cup {NoPool}] BY <1>1 DEF PoolsTyped
<1>3. pools' \in [PoolIds -> PoolRecords \cup {NoPool}] BY <1>2
<1>4. pools'[p] = r /\ \A q \in PoolIds : q # p => pools'[q] = pools[q] BY <1>2
<1>5. r.company # Nobody /\ r.amount \in Nat BY Parties DEF PoolRecords
<1>6. Exists(p)' BY <1>4, <1>5 DEF Exists
<1>7. \A q \in PoolIds : q # p => (Exists(q)' <=> Exists(q)) BY <1>4 DEF Exists
<1>8. \A q \in PoolIds : Exists(q) <=> q < nextPoolId BY <1>1 DEF PoolsTyped
<1>9. \A q \in PoolIds : Exists(q)' <=> q < nextPoolId' BY <1>6, <1>7, <1>8
<1>10. PoolsTyped' BY <1>3, <1>9 DEF PoolsTyped, PoolIds
<1>11. PoolsKept'
  <2> SUFFICES ASSUME NEW q \in PoolIds, Exists(q)' PROVE PoolKept(q)' BY DEF PoolsKept, PoolIds
  <2>1. CASE q = p BY <1>4, <1>6, <2>1 DEF PoolKept, Open
  <2>2. CASE q # p
    <3>1. Exists(q) BY <1>7, <2>2
    <3>2. PoolKept(q) BY <1>1, <3>1 DEF PoolsKept
    <3>3. pools'[q] = pools[q] BY <1>4, <2>2
    <3> QED BY <3>2, <3>3 DEF PoolKept, Open, Exists
  <2> QED BY <2>1, <2>2
<1>12. HeldFor(p)' = r.amount BY <1>4, <1>6 DEF HeldFor
<1>13. SumFunctionOnSet(Held, PoolIds)'
         = SumFunctionOnSet(Held, PoolIds) - HeldFor(p) + HeldFor(p)'
  BY <1>1, <1>4, <1>10, HeldChanges
<1>14. balance[PoolContract] = SumFunctionOnSet(Held, PoolIds) BY <1>1 DEF PoolMoney
<1>15. PoolMoney' BY <1>12, <1>13, <1>14 DEF PoolMoney
<1> QED BY <1>10, <1>11, <1>15

\* The claim contract's side stands when the allocations do and it loses no
\* money.
LEMMA ClaimSideStands ==
    ASSUME MoneyInv, UNCHANGED claimVars, balance'[ClaimContract] >= balance[ClaimContract],
           BalancesTyped'
    PROVE  AllocationsTyped' /\ ClaimMoney'
<1>1. AllocationsTyped /\ ClaimMoney /\ BalancesTyped /\ PoolsTyped BY DEF MoneyInv
<1>2. AllocationsTyped' BY <1>1 DEF AllocationsTyped, claimVars, PoolIds
<1>3. Owed' = Owed BY DEF Owed, Unpaid, claimVars, PoolIds
<1>4. SumFunctionOnSet(Owed, PoolIds)' = SumFunctionOnSet(Owed, PoolIds) BY <1>3 DEF PoolIds
<1>5. SumFunctionOnSet(Owed, PoolIds) \in Int BY <1>1, SumsAreInt
<1>6. balance[ClaimContract] >= SumFunctionOnSet(Owed, PoolIds) BY <1>1 DEF ClaimMoney
<1>7. balance[ClaimContract] \in Nat /\ balance'[ClaimContract] \in Nat
  BY <1>1, Parties DEF BalancesTyped
<1>8. ClaimMoney' BY <1>4, <1>5, <1>6, <1>7 DEF ClaimMoney
<1> QED BY <1>2, <1>8

\* A pool in the contract's books is backed by its balance.
LEMMA PoolIsInBalance ==
    ASSUME MoneyInv, NEW p \in PoolIds
    PROVE  HeldFor(p) \in Nat /\ HeldFor(p) <= balance[PoolContract]
<1>1. PoolsTyped /\ AllocationsTyped /\ PoolMoney BY DEF MoneyInv
<1>2. HeldFor(p) \in Nat BY <1>1, HeldIsNat
<1>3. HeldFor(p) <= SumFunctionOnSet(Held, PoolIds) BY <1>1, SumsAreInt
<1> QED BY <1>1, <1>2, <1>3 DEF PoolMoney

(* A new pool brings its amount. *)
LEMMA CreateKeepsMoney ==
    ASSUME MoneyInv, NEW company \in Companies, NEW root \in CorpusRoots, NEW amount \in Amounts,
           NEW granted, CreatePool(company, root, amount, granted), UNCHANGED claimVars
    PROVE  MoneyInv'
<1> DEFINE p == nextPoolId
           r == [company |-> company, corpusRoot |-> root, amount |-> amount,
                 distributed |-> FALSE, withdrawn |-> FALSE]
<1>1. PoolsTyped /\ BalancesTyped BY DEF MoneyInv
<1>2. amount \in Nat /\ amount > 0 BY RailAssumption
<1>3. /\ p \in PoolIds /\ amount <= balance[company] /\ pools' = [pools EXCEPT ![p] = r]
      /\ nextPoolId' = nextPoolId + 1 /\ balance' = Transfer(company, PoolContract, amount)
  BY DEF CreatePool
<1>4. company \in Accounts /\ PoolContract \in Accounts /\ company # PoolContract
      /\ company # ClaimContract /\ ClaimContract \in Accounts /\ ClaimContract # PoolContract
  BY Parties
<1>5. /\ BalancesTyped'
      /\ balance'[PoolContract] = balance[PoolContract] + amount
      /\ \A x \in Accounts : x # company /\ x # PoolContract => balance'[x] = balance[x]
  BY <1>1, <1>2, <1>3, <1>4, TransferMoves
<1>6. r \in PoolRecords /\ r.amount = amount /\ r.distributed = FALSE /\ r.withdrawn = FALSE
  BY <1>2 DEF PoolRecords
<1>7. ~Exists(p) /\ HeldFor(p) = 0 BY <1>1, <1>3 DEF PoolsTyped, HeldFor, PoolIds
<1>8. nextPoolId' \in 1..(MaxPools + 1) BY <1>3, RailAssumption DEF PoolIds
<1>9. \A q \in PoolIds : (q < nextPoolId \/ q = p) <=> q < nextPoolId' BY <1>3 DEF PoolIds
<1>10. balance[PoolContract] \in Nat /\ balance[ClaimContract] \in Nat
  BY <1>1, <1>4 DEF BalancesTyped
<1>11. balance'[PoolContract] = balance[PoolContract] - HeldFor(p) + r.amount
  BY <1>2, <1>5, <1>6, <1>7, <1>10
<1>12. balance'[ClaimContract] >= balance[ClaimContract] BY <1>4, <1>5, <1>10
<1> HIDE DEF p, r
<1>13. PoolsTyped' /\ PoolsKept' /\ PoolMoney'
  <2>1. r.amount > 0 <=> (~r.distributed /\ ~r.withdrawn) BY <1>2, <1>6
  <2>2. ~(r.distributed /\ r.withdrawn) BY <1>6
  <2> QED BY <1>3, <1>6, <1>8, <1>9, <1>11, <2>1, <2>2, PoolRewritten
<1>14. AllocationsTyped' /\ ClaimMoney' BY <1>5, <1>12, ClaimSideStands
<1> QED BY <1>5, <1>13, <1>14 DEF MoneyInv

\* A pool is paid out to somebody.
LEMMA PoolLeaves ==
    ASSUME MoneyInv, NEW p \in PoolIds, Exists(p), NEW r \in PoolRecords,
           r.amount = 0, r.distributed # r.withdrawn,
           pools' = [pools EXCEPT ![p] = r], UNCHANGED nextPoolId,
           NEW to \in Accounts, to # PoolContract,
           balance' = Transfer(PoolContract, to, pools[p].amount)
    PROVE  /\ PoolsTyped' /\ PoolsKept' /\ PoolMoney' /\ BalancesTyped'
           /\ pools[p].amount \in Nat
           /\ balance'[ClaimContract] = balance[ClaimContract]
                                          + (IF to = ClaimContract THEN pools[p].amount ELSE 0)
<1>1. PoolsTyped /\ BalancesTyped BY DEF MoneyInv
<1>2. HeldFor(p) = pools[p].amount BY DEF HeldFor
<1>3. pools[p].amount \in Nat /\ pools[p].amount <= balance[PoolContract]
  BY <1>2, PoolIsInBalance
<1>4. PoolContract \in Accounts /\ ClaimContract \in Accounts /\ PoolContract # ClaimContract
  BY Parties
<1>5. /\ BalancesTyped'
      /\ balance'[PoolContract] = balance[PoolContract] - pools[p].amount
      /\ balance'[to] = balance[to] + pools[p].amount
      /\ \A x \in Accounts : x # PoolContract /\ x # to => balance'[x] = balance[x]
  <2> DEFINE amount == pools[p].amount
  <2>1. amount \in Nat /\ amount <= balance[PoolContract]
        /\ balance' = Transfer(PoolContract, to, amount)
    BY <1>3
  <2> HIDE DEF amount
  <2>2. /\ BalancesTyped'
        /\ balance'[PoolContract] = balance[PoolContract] - amount
        /\ balance'[to] = balance[to] + amount
        /\ \A x \in Accounts : x # PoolContract /\ x # to => balance'[x] = balance[x]
    BY <1>1, <1>4, <2>1, TransferMoves
  <2> QED BY <2>2 DEF amount
<1>6. balance[PoolContract] \in Nat /\ balance[ClaimContract] \in Nat
  BY <1>1, <1>4 DEF BalancesTyped
<1>7. balance'[PoolContract] = balance[PoolContract] - HeldFor(p) + r.amount
  BY <1>2, <1>3, <1>5, <1>6
<1>8. \A q \in PoolIds : (q < nextPoolId \/ q = p) <=> q < nextPoolId' BY <1>1 DEF PoolsTyped
<1>9. nextPoolId' \in 1..(MaxPools + 1) BY <1>1 DEF PoolsTyped
<1>10. r.amount > 0 <=> (~r.distributed /\ ~r.withdrawn)
  <2>1. r.distributed \in BOOLEAN /\ r.withdrawn \in BOOLEAN BY DEF PoolRecords
  <2> QED BY <2>1
<1>11. ~(r.distributed /\ r.withdrawn)
  <2>1. r.distributed \in BOOLEAN /\ r.withdrawn \in BOOLEAN BY DEF PoolRecords
  <2> QED BY <2>1
<1>12. PoolsTyped' /\ PoolsKept' /\ PoolMoney'
  BY <1>7, <1>8, <1>9, <1>10, <1>11, PoolRewritten
<1>13. balance'[ClaimContract] = balance[ClaimContract]
                                   + (IF to = ClaimContract THEN pools[p].amount ELSE 0)
  <2>1. CASE to = ClaimContract BY <1>5, <2>1
  <2>2. CASE to # ClaimContract BY <1>4, <1>5, <1>6, <2>2
  <2> QED BY <2>1, <2>2
<1> QED BY <1>3, <1>5, <1>12, <1>13

\* What distributeToClaimContract leaves of an open pool.
LEMMA DistributedPool ==
    ASSUME MoneyInv, NEW p \in PoolIds, NEW sender, NEW to,
           DistributeToClaimContract(sender, p, to)
    PROVE  LET r == [pools[p] EXCEPT !.distributed = TRUE, !.amount = 0]
           IN  /\ Exists(p) /\ r \in PoolRecords
               /\ r.amount = 0 /\ r.distributed # r.withdrawn
               /\ pools' = [pools EXCEPT ![p] = r]
<1>1. PoolsTyped BY DEF MoneyInv
<1>2. Exists(p) /\ ~pools[p].distributed /\ ~pools[p].withdrawn BY DEF DistributeToClaimContract
<1>3. pools[p] \in PoolRecords BY <1>1, <1>2, HeldIsNat
<1> DEFINE r == [pools[p] EXCEPT !.distributed = TRUE, !.amount = 0]
<1>4. r \in PoolRecords BY <1>3 DEF PoolRecords
<1>5. r.amount = 0 /\ r.distributed = TRUE /\ r.withdrawn = pools[p].withdrawn
  BY <1>3 DEF PoolRecords
<1>6. pools[p].withdrawn = FALSE BY <1>2, <1>3 DEF PoolRecords
<1>7. pools' = [pools EXCEPT ![p] = r] BY <1>1, <1>3 DEF DistributeToClaimContract, PoolsTyped, PoolRecords
<1> QED BY <1>2, <1>4, <1>5, <1>6, <1>7

(* Distributing a pool moves its amount to the claim contract or the owner. *)
LEMMA DistributeKeepsMoney ==
    ASSUME MoneyInv, NEW p \in PoolIds, NEW to \in {ClaimContract, Owner}, NEW sender,
           DistributeToClaimContract(sender, p, to), UNCHANGED claimVars
    PROVE  MoneyInv'
<1> DEFINE r == [pools[p] EXCEPT !.distributed = TRUE, !.amount = 0]
<1>1. /\ Exists(p) /\ r \in PoolRecords /\ r.amount = 0 /\ r.distributed # r.withdrawn
      /\ pools' = [pools EXCEPT ![p] = r]
  BY DistributedPool
<1>2. UNCHANGED nextPoolId /\ balance' = Transfer(PoolContract, to, pools[p].amount)
  BY DEF DistributeToClaimContract
<1>3. to \in Accounts /\ to # PoolContract BY Parties
<1> HIDE DEF r
<1>4. /\ PoolsTyped' /\ PoolsKept' /\ PoolMoney' /\ BalancesTyped'
      /\ pools[p].amount \in Nat
      /\ balance'[ClaimContract] = balance[ClaimContract]
                                     + (IF to = ClaimContract THEN pools[p].amount ELSE 0)
  BY <1>1, <1>2, <1>3, PoolLeaves
<1>5. balance[ClaimContract] \in Nat BY Parties DEF MoneyInv, BalancesTyped
<1>6. balance'[ClaimContract] >= balance[ClaimContract] BY <1>4, <1>5
<1>7. AllocationsTyped' /\ ClaimMoney' BY <1>4, <1>6, ClaimSideStands
<1> QED BY <1>4, <1>7 DEF MoneyInv

(* Withdrawing a pool returns its amount to the company. *)
LEMMA WithdrawKeepsMoney ==
    ASSUME MoneyInv, NEW p \in PoolIds, NEW company \in Companies,
           WithdrawPool(company, p), UNCHANGED claimVars
    PROVE  MoneyInv'
<1> DEFINE r == [pools[p] EXCEPT !.withdrawn = TRUE, !.amount = 0]
<1>1. PoolsTyped BY DEF MoneyInv
<1>2. Exists(p) /\ ~pools[p].distributed /\ ~pools[p].withdrawn BY DEF WithdrawPool
<1>3. pools[p] \in PoolRecords BY <1>1, <1>2, HeldIsNat
<1>4. r \in PoolRecords BY <1>3 DEF PoolRecords
<1>5. r.amount = 0 /\ r.withdrawn = TRUE /\ r.distributed = pools[p].distributed
  BY <1>3 DEF PoolRecords
<1>6. pools[p].distributed = FALSE BY <1>2, <1>3 DEF PoolRecords
<1>7. pools' = [pools EXCEPT ![p] = r] BY <1>1, <1>3 DEF WithdrawPool, PoolsTyped, PoolRecords
<1>8. UNCHANGED nextPoolId /\ balance' = Transfer(PoolContract, company, pools[p].amount)
  BY DEF WithdrawPool
<1>9. company \in Accounts /\ company # PoolContract /\ company # ClaimContract BY Parties
<1> HIDE DEF r
<1>10. /\ PoolsTyped' /\ PoolsKept' /\ PoolMoney' /\ BalancesTyped'
       /\ pools[p].amount \in Nat
       /\ balance'[ClaimContract] = balance[ClaimContract]
                                      + (IF company = ClaimContract THEN pools[p].amount ELSE 0)
  <2>1. r.distributed # r.withdrawn BY <1>5, <1>6
  <2> QED BY <1>2, <1>4, <1>5, <1>7, <1>8, <1>9, <2>1, PoolLeaves
<1>11. balance[ClaimContract] \in Nat BY Parties DEF MoneyInv, BalancesTyped
<1>12. balance'[ClaimContract] >= balance[ClaimContract] BY <1>10, <1>11
<1>13. AllocationsTyped' /\ ClaimMoney' BY <1>10, <1>12, ClaimSideStands
<1> QED BY <1>10, <1>13 DEF MoneyInv

\* The pool's money and the debt to its artists arrive in one transaction.
LEMMA SubmitKeepsMoney ==
    ASSUME MoneyInv, NEW p \in PoolIds, NEW root \in ShareRoots,
           SubmitAllocation(Ingestor, p, root)
    PROVE  MoneyInv'
<1> DEFINE r == [pools[p] EXCEPT !.distributed = TRUE, !.amount = 0]
           a == [submitted |-> TRUE, root |-> root, total |-> pools[p].amount, claimedAmount |-> 0]
<1>1. DistributeToClaimContract(ClaimContract, p, ClaimContract) BY DEF SubmitAllocation
<1>2. /\ Exists(p) /\ r \in PoolRecords /\ r.amount = 0 /\ r.distributed # r.withdrawn
      /\ pools' = [pools EXCEPT ![p] = r]
  BY <1>1, DistributedPool
<1>3. UNCHANGED nextPoolId /\ balance' = Transfer(PoolContract, ClaimContract, pools[p].amount)
  BY <1>1 DEF DistributeToClaimContract
<1>4. ClaimContract \in Accounts /\ ClaimContract # PoolContract BY Parties
<1>5. /\ ~allocations[p].submitted /\ allocations' = [allocations EXCEPT ![p] = a]
      /\ UNCHANGED claimed
  BY DEF SubmitAllocation
<1> HIDE DEF r
<1>6. /\ PoolsTyped' /\ PoolsKept' /\ PoolMoney' /\ BalancesTyped'
      /\ pools[p].amount \in Nat
      /\ balance'[ClaimContract] = balance[ClaimContract] + pools[p].amount
  BY <1>2, <1>3, <1>4, PoolLeaves
<1>7. AllocationsTyped /\ PoolsTyped /\ ClaimMoney BY DEF MoneyInv
<1>8. allocations \in [PoolIds -> AllocationRecords \cup {NoAllocation}]
  BY <1>7 DEF AllocationsTyped
<1>9. a \in AllocationRecords BY <1>6 DEF AllocationRecords
<1>10. a.submitted = TRUE /\ a.total = pools[p].amount /\ a.claimedAmount = 0 OBVIOUS
<1> HIDE DEF a
<1>11. allocations'[p] = a /\ \A q \in PoolIds : q # p => allocations'[q] = allocations[q]
  BY <1>5, <1>8
<1>12. AllocationsTyped'
  <2>1. allocations' \in [PoolIds -> AllocationRecords \cup {NoAllocation}] BY <1>5, <1>8, <1>9
  <2> QED BY <1>5, <1>7, <2>1 DEF AllocationsTyped, PoolIds
<1>13. Unpaid(p) = 0 BY <1>5 DEF Unpaid
<1>14. Unpaid(p)' = pools[p].amount BY <1>6, <1>10, <1>11 DEF Unpaid
<1>15. SumFunctionOnSet(Owed, PoolIds)'
         = SumFunctionOnSet(Owed, PoolIds) - Unpaid(p) + Unpaid(p)'
  BY <1>7, <1>11, <1>12, OwedChanges
<1>16. SumFunctionOnSet(Owed, PoolIds) \in Int BY <1>7, SumsAreInt
<1>17. balance[ClaimContract] \in Nat BY Parties DEF MoneyInv, BalancesTyped
<1>18. ClaimMoney' BY <1>6, <1>7, <1>13, <1>14, <1>15, <1>16, <1>17 DEF ClaimMoney
<1> QED BY <1>6, <1>12, <1>18 DEF MoneyInv

\* A claim takes as much from the contract as from its debt, whatever the
\* proof shows.
LEMMA ClaimKeepsMoney ==
    ASSUME MoneyInv, NEW p \in PoolIds, NEW artist \in Artists, NEW amount \in Nat, NEW proof,
           Claim(artist, p, amount, proof)
    PROVE  MoneyInv'
<1>1. AllocationsTyped /\ PoolsTyped /\ ClaimMoney /\ BalancesTyped /\ PoolsKept /\ PoolMoney
  BY DEF MoneyInv
<1> DEFINE a == [allocations[p] EXCEPT !.claimedAmount = @ + amount]
<1>2. /\ allocations[p].submitted /\ amount <= balance[ClaimContract]
      /\ claimed' = [claimed EXCEPT ![p] = @ \cup {artist}]
      /\ allocations' = [allocations EXCEPT ![p] = a]
      /\ balance' = Transfer(ClaimContract, artist, amount)
      /\ UNCHANGED poolVars
  <2>1. balance[ClaimContract] \in Nat BY <1>1, Parties DEF BalancesTyped
  <2> QED BY <2>1 DEF Claim
<1>3. allocations \in [PoolIds -> AllocationRecords \cup {NoAllocation}]
      /\ claimed \in [PoolIds -> SUBSET Artists]
  BY <1>1 DEF AllocationsTyped
<1>4. allocations[p] \in AllocationRecords BY <1>2, <1>3, AllocationKinds
<1>5. /\ a \in AllocationRecords /\ a.submitted = TRUE /\ a.total = allocations[p].total
      /\ a.claimedAmount = allocations[p].claimedAmount + amount
      /\ a.total \in Nat /\ allocations[p].claimedAmount \in Nat
  <2>1. /\ allocations[p].claimedAmount \in Nat /\ allocations[p].total \in Nat
        /\ allocations[p].submitted = TRUE
    BY <1>2, <1>4, AllocationKinds
  <2>2. a.claimedAmount = allocations[p].claimedAmount + amount BY <1>4 DEF AllocationRecords
  <2>3. a.total = allocations[p].total BY <1>4 DEF AllocationRecords
  <2>4. a.submitted = allocations[p].submitted BY <1>4 DEF AllocationRecords
  <2>5. allocations[p].claimedAmount + amount \in Nat BY <2>1
  <2>6. a \in AllocationRecords BY <1>4, <2>5 DEF AllocationRecords
  <2> HIDE DEF a
  <2> QED BY <2>1, <2>2, <2>3, <2>4, <2>6
<1> HIDE DEF a
<1>6. allocations'[p] = a /\ \A q \in PoolIds : q # p => allocations'[q] = allocations[q]
  BY <1>2, <1>3
<1>7. AllocationsTyped'
  <2>1. allocations' \in [PoolIds -> AllocationRecords \cup {NoAllocation}] BY <1>2, <1>3, <1>5
  <2>2. claimed' \in [PoolIds -> SUBSET Artists] BY <1>2, <1>3
  <2> QED BY <2>1, <2>2 DEF AllocationsTyped, PoolIds
<1>8. artist \in Accounts /\ ClaimContract \in Accounts /\ PoolContract \in Accounts
      /\ artist # ClaimContract /\ artist # PoolContract /\ PoolContract # ClaimContract
  BY Parties
<1>9. /\ BalancesTyped'
      /\ balance'[ClaimContract] = balance[ClaimContract] - amount
      /\ balance'[PoolContract] = balance[PoolContract]
  BY <1>1, <1>2, <1>8, TransferMoves
<1>10. Unpaid(p) = allocations[p].total - allocations[p].claimedAmount BY <1>2 DEF Unpaid
<1>11. Unpaid(p)' = a.total - a.claimedAmount BY <1>5, <1>6 DEF Unpaid
<1>12. SumFunctionOnSet(Owed, PoolIds)'
         = SumFunctionOnSet(Owed, PoolIds) - Unpaid(p) + Unpaid(p)'
  BY <1>1, <1>6, <1>7, OwedChanges
<1>13. SumFunctionOnSet(Owed, PoolIds) \in Int BY <1>1, SumsAreInt
<1>14. balance[ClaimContract] \in Nat BY <1>1, <1>8 DEF BalancesTyped
<1>15. ClaimMoney'
  <2>1. balance[ClaimContract] >= SumFunctionOnSet(Owed, PoolIds) BY <1>1 DEF ClaimMoney
  <2>2. Unpaid(p)' = Unpaid(p) - amount /\ Unpaid(p) \in Int BY <1>5, <1>10, <1>11
  <2>3. SumFunctionOnSet(Owed, PoolIds)' = SumFunctionOnSet(Owed, PoolIds) - amount
    BY <1>12, <1>13, <2>2
  <2> QED BY <1>9, <1>13, <1>14, <2>1, <2>3 DEF ClaimMoney
<1>16. PoolsTyped' BY <1>1, <1>2 DEF poolVars, PoolsTyped, Exists, PoolIds
<1>17. PoolsKept' BY <1>1, <1>2 DEF poolVars, PoolsKept, PoolKept, Open, Exists, PoolIds
<1>18. Held' = Held /\ PoolIds' = PoolIds
  BY <1>2 DEF poolVars, Held, HeldFor, Exists, PoolIds
<1>19. PoolMoney' BY <1>1, <1>9, <1>18 DEF PoolMoney
<1> QED BY <1>7, <1>9, <1>15, <1>16, <1>17, <1>19 DEF MoneyInv

\* Nothing else moves money.
LEMMA MoneyStands ==
    ASSUME MoneyInv, UNCHANGED <<balance, poolVars, claimVars>>
    PROVE  MoneyInv'
<1>1. AllocationsTyped /\ PoolsTyped /\ ClaimMoney /\ BalancesTyped /\ PoolsKept /\ PoolMoney
  BY DEF MoneyInv
<1>2. PoolsTyped' /\ PoolsKept'
  BY <1>1 DEF poolVars, PoolsTyped, PoolsKept, PoolKept, Open, Exists, PoolIds
<1>3. Held' = Held /\ Owed' = Owed /\ PoolIds' = PoolIds
  BY DEF poolVars, claimVars, Held, HeldFor, Exists, Owed, Unpaid, PoolIds
<1>4. PoolMoney' /\ ClaimMoney' BY <1>1, <1>3 DEF PoolMoney, ClaimMoney
<1>5. AllocationsTyped' /\ BalancesTyped'
  BY <1>1 DEF claimVars, AllocationsTyped, BalancesTyped, PoolIds, Accounts
<1> QED BY <1>2, <1>4, <1>5 DEF MoneyInv

-----------------------------------------------------------------------------
\* The jobs of the server.

Labels == {"idle", "approve", "readId", "create", "ingest", "attest", "submit", "claim",
           "done", "error"}
JobRecords ==
    [corpus : Corpora \cup {<<>>}, amount : Amounts \cup {0}, nonce : Nat,
     poolId : 0..(MaxPools + 1), madeId : 0..MaxPools, pool : PoolRecords \cup {NoPool},
     leaves : Seq(Artists \X Nat), paid : Nat]

WalletTyped ==
    /\ tracks \in [Fingerprints -> Artists \cup {Nobody}]
    /\ nonce \in Nat /\ allowance \in Amounts \cup {0}
    /\ authorizedDistributor \in {Owner, ClaimContract}
    /\ authorizedIngestor \in {Owner, Ingestor}

JobsTyped ==
    /\ pc \in [Jobs -> Labels]
    /\ job \in [Jobs -> JobRecords]

\* What a job x that waits at a label knows.
Fits(label, x) ==
    /\ label \notin {"idle", "done", "error"} => x.corpus \in Corpora /\ x.amount \in Amounts
    /\ label = "attest" => x.pool \in PoolRecords
    /\ x.paid <= Len(x.leaves)
    /\ label \in {"approve", "readId", "create", "ingest", "attest"} => x.paid = 0 /\ x.leaves = <<>>
    /\ label \in {"approve", "readId", "create"} => x.madeId = 0
    /\ (x.leaves # <<>> \/ label \in {"attest", "submit", "claim"}) => x.poolId \in PoolIds

NoneOfOurs(from, to) == \A p \in from..to : pools[p].company # Company

\* The wallet's nonce guards the id a job has read: while createPool can
\* still go through, no transaction of the wallet has come in between, so
\* the pools made since the reading are other companies'.
Aims(j) ==
    /\ pc[j] \in {"readId", "create"} =>
          /\ job[j].nonce < nonce
          /\ job[j].nonce + 1 = nonce => allowance = job[j].amount
    /\ pc[j] = "create" =>
          /\ job[j].poolId \in 1..nextPoolId
          /\ job[j].nonce + 1 = nonce => NoneOfOurs(job[j].poolId, nextPoolId - 1)
    /\ job[j].madeId # 0 =>
          /\ job[j].poolId \in 1..job[j].madeId /\ job[j].madeId < nextPoolId
          /\ NoneOfOurs(job[j].poolId, job[j].madeId - 1)

JobsFit == \A j \in Jobs : Fits(pc[j], job[j])
JobsAim == \A j \in Jobs : Aims(j)

RailInv == MoneyInv /\ WalletTyped /\ JobsTyped /\ JobsFit /\ JobsAim

\* The step of one job.
LEMMA JobMoves ==
    ASSUME JobsTyped, JobsFit, NEW j \in Jobs, NEW label \in Labels, NEW x \in JobRecords,
           Goto(j, label, x), Fits(label, x)
    PROVE  /\ JobsTyped' /\ JobsFit'
           /\ pc'[j] = label /\ job'[j] = x
           /\ \A k \in Jobs : k # j => pc'[k] = pc[k] /\ job'[k] = job[k]
<1>1. pc \in [Jobs -> Labels] /\ job \in [Jobs -> JobRecords] BY DEF JobsTyped
<1>2. pc' = [pc EXCEPT ![j] = label] /\ job' = [job EXCEPT ![j] = x] BY DEF Goto
<1>3. pc' \in [Jobs -> Labels] /\ job' \in [Jobs -> JobRecords] BY <1>1, <1>2
<1>4. /\ pc'[j] = label /\ job'[j] = x
      /\ \A k \in Jobs : k # j => pc'[k] = pc[k] /\ job'[k] = job[k]
  BY <1>1, <1>2
<1>5. JobsTyped'
  <2>1. JobRecords' = JobRecords
    BY DEF JobRecords, PoolRecords, CorpusRoots, NoPool, Companies, CorpusRoot
  <2> QED BY <1>3 DEF JobsTyped, Labels, JobRecords, PoolRecords, CorpusRoots, NoPool, Companies
<1>6. JobsFit'
  <2> SUFFICES ASSUME NEW k \in Jobs PROVE Fits(pc'[k], job'[k]) 
    BY DEF JobsFit, Fits, PoolRecords, CorpusRoots, PoolIds, Companies
  <2>1. CASE k = j BY <1>4, <2>1
  <2>2. CASE k # j BY <1>4, <2>2 DEF JobsFit
  <2> QED BY <2>1, <2>2
<1> QED BY <1>4, <1>5, <1>6

\* What the rest of the world does between two steps of a job: the wallet is
\* left alone and at most another company makes a pool, or the wallet's nonce
\* moves on.
World ==
    /\ nextPoolId' \in {nextPoolId, nextPoolId + 1}
    /\ \A p \in PoolIds : p < nextPoolId => pools'[p].company = pools[p].company
    /\ \/ /\ UNCHANGED <<nonce, allowance>>
          /\ nextPoolId' = nextPoolId + 1 => pools'[nextPoolId].company # Company
       \/ nonce' = nonce + 1

(* A job that does not move aims at the pool it aimed at. *)
LEMMA WaitingJobAims ==
    ASSUME RailInv, World, NEW k \in Jobs, pc'[k] = pc[k], job'[k] = job[k]
    PROVE  Aims(k)'
<1>1. Aims(k) /\ job[k] \in JobRecords /\ nonce \in Nat
  BY DEF RailInv, JobsAim, JobsTyped, WalletTyped
<1>2. nextPoolId \in 1..(MaxPools + 1) /\ MaxPools \in Nat
  BY RailAssumption DEF RailInv, MoneyInv, PoolsTyped
<1>3. /\ job[k].nonce \in Nat /\ job[k].poolId \in 0..(MaxPools + 1)
      /\ job[k].madeId \in 0..MaxPools
  BY <1>1 DEF JobRecords
<1>4. ASSUME NEW from \in 1..(MaxPools + 1), NEW to \in 0..(MaxPools + 1), to < nextPoolId,
             NoneOfOurs(from, to)
      PROVE  \A p \in from..to : pools'[p].company # Company
  BY <1>2, <1>4 DEF NoneOfOurs, World, PoolIds
<1>5. pc[k] \in {"readId", "create"} =>
          /\ job[k].nonce < nonce'
          /\ job[k].nonce + 1 = nonce' => allowance' = job[k].amount
  BY <1>1, <1>3 DEF Aims, World
<1>6. pc[k] = "create" =>
          /\ job[k].poolId \in 1..nextPoolId'
          /\ job[k].nonce + 1 = nonce' =>
                \A p \in job[k].poolId..(nextPoolId' - 1) : pools'[p].company # Company
  <2> SUFFICES ASSUME pc[k] = "create"
               PROVE  /\ job[k].poolId \in 1..nextPoolId'
                      /\ job[k].nonce + 1 = nonce' =>
                            \A p \in job[k].poolId..(nextPoolId' - 1) : pools'[p].company # Company
    OBVIOUS
  <2>1. job[k].poolId \in 1..nextPoolId' BY <1>1, <1>2 DEF Aims, World
  <2>2. ASSUME job[k].nonce + 1 = nonce', NEW p \in job[k].poolId..(nextPoolId' - 1)
        PROVE  pools'[p].company # Company
    <3>1. /\ nonce' = nonce /\ (nextPoolId' = nextPoolId + 1 => pools'[nextPoolId].company # Company)
      BY <1>1, <1>3, <2>2 DEF Aims, World
    <3>2. NoneOfOurs(job[k].poolId, nextPoolId - 1) BY <1>1, <2>2, <3>1 DEF Aims
    <3>3. CASE p < nextPoolId
      <4>1. job[k].poolId \in 1..(MaxPools + 1) /\ nextPoolId - 1 \in 0..(MaxPools + 1)
            /\ p \in job[k].poolId..(nextPoolId - 1)
        BY <1>1, <1>2, <1>3, <2>2, <3>3 DEF Aims
      <4> QED BY <1>2, <1>4, <3>2, <4>1
    <3>4. CASE p >= nextPoolId
      <4>1. nextPoolId' = nextPoolId \/ nextPoolId' = nextPoolId + 1 BY DEF World
      <4>2. nextPoolId \in Int /\ job[k].poolId \in Int BY <1>2, <1>3
      <4>3. p \in Int /\ p <= nextPoolId' - 1 BY <2>2, <4>1, <4>2
      <4>4. p = nextPoolId /\ nextPoolId' = nextPoolId + 1 BY <3>4, <4>1, <4>2, <4>3
      <4> QED BY <3>1, <4>4
    <3> QED BY <1>2, <1>3, <2>2, <3>3, <3>4
  <2> QED BY <2>1, <2>2
<1>7. job[k].madeId # 0 =>
          /\ job[k].poolId \in 1..job[k].madeId /\ job[k].madeId < nextPoolId'
          /\ \A p \in job[k].poolId..(job[k].madeId - 1) : pools'[p].company # Company
  <2> SUFFICES ASSUME job[k].madeId # 0
               PROVE  /\ job[k].poolId \in 1..job[k].madeId /\ job[k].madeId < nextPoolId'
                      /\ \A p \in job[k].poolId..(job[k].madeId - 1) : pools'[p].company # Company
    OBVIOUS
  <2>1. /\ job[k].poolId \in 1..job[k].madeId /\ job[k].madeId < nextPoolId
        /\ NoneOfOurs(job[k].poolId, job[k].madeId - 1)
    BY <1>1 DEF Aims
  <2>2. job[k].poolId \in 1..(MaxPools + 1) /\ job[k].madeId - 1 \in 0..(MaxPools + 1)
        /\ job[k].madeId - 1 < nextPoolId
    BY <1>2, <1>3, <2>1
  <2>3. \A p \in job[k].poolId..(job[k].madeId - 1) : pools'[p].company # Company
    BY <1>4, <2>1, <2>2
  <2> QED BY <1>2, <1>3, <2>1, <2>3 DEF World
<1> QED BY <1>5, <1>6, <1>7 DEF Aims, NoneOfOurs

\* What the invariant says of job j.
LEMMA JobFacts ==
    ASSUME RailInv, NEW j \in Jobs
    PROVE  /\ job[j] \in JobRecords /\ pc[j] \in Labels
           /\ Fits(pc[j], job[j]) /\ Aims(j)
           /\ nonce \in Nat /\ allowance \in Amounts \cup {0}
           /\ nextPoolId \in 1..(MaxPools + 1) /\ MaxPools \in Nat
BY RailAssumption
DEF RailInv, JobsTyped, JobsFit, JobsAim, WalletTyped, MoneyInv, PoolsTyped

\* A step of job j keeps the invariant if it keeps the money, the wallet and
\* job j's own aim.
LEMMA JobStepKeeps ==
    ASSUME RailInv, NEW j \in Jobs, NEW label \in Labels, NEW x \in JobRecords,
           Goto(j, label, x), Fits(label, x), World, MoneyInv', WalletTyped', Aims(j)'
    PROVE  RailInv'
<1>1. JobsTyped /\ JobsFit BY DEF RailInv
<1>2. /\ JobsTyped' /\ JobsFit'
      /\ \A k \in Jobs : k # j => pc'[k] = pc[k] /\ job'[k] = job[k]
  BY <1>1, JobMoves
<1>3. ASSUME NEW k \in Jobs PROVE Aims(k)'
  <2>1. CASE k = j BY <2>1
  <2>2. CASE k # j BY <1>2, <2>2, WaitingJobAims
  <2> QED BY <2>1, <2>2
<1>4. JobsAim' BY <1>3 DEF JobsAim
<1> QED BY <1>2, <1>4 DEF RailInv

(* A step of a job that leaves the chain alone keeps the invariant, if the job fits its label. *)
LEMMA QuietStepKeeps ==
    ASSUME RailInv, NEW j \in Jobs, NEW label \in Labels, NEW x \in JobRecords,
           Goto(j, label, x), Fits(label, x), Aims(j)',
           UNCHANGED <<tracks, token, nonce, poolVars, claimVars, roles>>
    PROVE  RailInv'
<1>1. UNCHANGED <<tracks, balance, allowance, nonce, pools, nextPoolId, claimVars,
                  authorizedDistributor, authorizedIngestor>>
  BY DEF token, poolVars, roles
<1>2. World
  <2>1. nextPoolId \in Int BY JobFacts
  <2> QED BY <1>1, <2>1 DEF World
<1>3. MoneyInv'
  <2>1. UNCHANGED <<balance, poolVars, claimVars>> BY <1>1 DEF poolVars
  <2> QED BY <2>1, MoneyStands DEF RailInv
<1>4. WalletTyped' BY <1>1 DEF RailInv, WalletTyped
<1> QED BY <1>2, <1>3, <1>4, JobStepKeeps

\* A step of nobody's job.
LEMMA OtherStepKeeps ==
    ASSUME RailInv, UNCHANGED jobVars, World, MoneyInv', WalletTyped'
    PROVE  RailInv'
<1>1. UNCHANGED <<pc, job>> BY DEF jobVars
<1>2. JobsTyped'
  BY <1>1 DEF RailInv, JobsTyped, JobRecords, PoolRecords, CorpusRoots, Companies, Labels
<1>3. JobsFit'
  BY <1>1 DEF RailInv, JobsFit, Fits, PoolIds, PoolRecords, CorpusRoots, Companies
<1>4. \A k \in Jobs : Aims(k)' BY <1>1, WaitingJobAims
<1> QED BY <1>2, <1>3, <1>4 DEF RailInv, JobsAim

(* The record of no job is empty. *)
LEMMA NoJobIsEmpty ==
    /\ NoJob \in JobRecords /\ NoJob.leaves = <<>> /\ NoJob.paid = 0 /\ NoJob.madeId = 0
    /\ Len(<<>>) = 0
BY RailAssumption DEF NoJob, JobRecords

(* A job that begins has made no pool. *)
LEMMA BeginKeeps == ASSUME RailInv, NEW j \in Jobs, Begin(j) PROVE RailInv'
<1>1. PICK corpus \in Corpora, amount \in Amounts :
         Goto(j, "approve", [NoJob EXCEPT !.corpus = corpus, !.amount = amount, !.nonce = nonce])
  BY DEF Begin
<1> DEFINE x == [NoJob EXCEPT !.corpus = corpus, !.amount = amount, !.nonce = nonce]
<1>2. nonce \in Nat /\ JobsTyped /\ JobsFit BY JobFacts DEF RailInv
<1>3. x \in JobRecords BY <1>2, NoJobIsEmpty DEF JobRecords
<1>4. x.corpus = corpus /\ x.amount = amount /\ x.leaves = <<>> /\ x.paid = 0 /\ x.madeId = 0
  BY DEF NoJob
<1>5. Goto(j, "approve", x) /\ "approve" \in Labels BY <1>1 DEF Labels
<1> HIDE DEF x
<1>6. Fits("approve", x) BY <1>4, NoJobIsEmpty DEF Fits
<1>7. pc'[j] = "approve" /\ job'[j] = x BY <1>2, <1>3, <1>5, <1>6, JobMoves
<1>8. Aims(j)' BY <1>4, <1>7 DEF Aims
<1> QED BY <1>3, <1>5, <1>6, <1>8, QuietStepKeeps DEF Begin

(* Approving the pool contract moves no money. *)
LEMMA ApproveKeeps == ASSUME RailInv, NEW j \in Jobs, Approve(j) PROVE RailInv'
<1> DEFINE x == job[j]
<1>1. /\ x \in JobRecords /\ Fits(pc[j], x) /\ nonce \in Nat /\ JobsTyped /\ JobsFit
  BY JobFacts DEF RailInv
<1>2. /\ pc[j] = "approve" /\ x.nonce = nonce /\ allowance' = x.amount /\ nonce' = nonce + 1
      /\ Goto(j, "readId", x) /\ UNCHANGED <<tracks, balance, poolVars, claimVars, roles>>
  BY DEF Approve, At
<1>3. x.amount \in Amounts BY <1>1, <1>2 DEF Fits
<1>4. "readId" \in Labels BY DEF Labels
<1>5. Fits("readId", x) BY <1>1, <1>2 DEF Fits
<1> HIDE DEF x
<1>6. pc'[j] = "readId" /\ job'[j] = x BY <1>1, <1>2, <1>4, <1>5, JobMoves
<1>7. x.madeId = 0 BY <1>1, <1>2 DEF Fits
<1>8. Aims(j)' BY <1>1, <1>2, <1>6, <1>7 DEF Aims
<1>9. World
  <2>1. nextPoolId \in Int BY JobFacts
  <2> QED BY <1>2, <2>1 DEF World, poolVars
<1>10. MoneyInv' BY <1>2, MoneyStands DEF RailInv
<1>11. WalletTyped' BY <1>1, <1>2, <1>3 DEF RailInv, WalletTyped, roles
<1> QED BY <1>1, <1>2, <1>4, <1>5, <1>8, <1>9, <1>10, <1>11, JobStepKeeps

(* The next id a job reads is the one its pool gets, if nobody creates one before it. *)
LEMMA ReadPoolIdKeeps == ASSUME RailInv, NEW j \in Jobs, ReadPoolId(j) PROVE RailInv'
<1> DEFINE x == [job[j] EXCEPT !.poolId = nextPoolId]
<1>1. /\ job[j] \in JobRecords /\ Fits(pc[j], job[j]) /\ Aims(j) /\ nonce \in Nat
      /\ nextPoolId \in 1..(MaxPools + 1) /\ JobsTyped /\ JobsFit
  BY JobFacts DEF RailInv
<1>2. /\ pc[j] = "readId" /\ Goto(j, "create", x)
      /\ UNCHANGED <<tracks, token, nonce, poolVars, claimVars, roles>>
  BY DEF ReadPoolId, At
<1>3. x \in JobRecords
  <2>1. nextPoolId \in 0..(MaxPools + 1)
    <3>1. MaxPools \in Nat BY JobFacts
    <3> QED BY <1>1, <3>1
  <2> QED BY <1>1, <2>1 DEF JobRecords
<1>4. /\ x.corpus = job[j].corpus /\ x.amount = job[j].amount /\ x.nonce = job[j].nonce
      /\ x.poolId = nextPoolId /\ x.madeId = job[j].madeId
      /\ x.leaves = job[j].leaves /\ x.paid = job[j].paid
  BY <1>1 DEF JobRecords
<1>5. "create" \in Labels BY DEF Labels
<1> HIDE DEF x
<1>6. Fits("create", x)
  <2>1. x.leaves = <<>> /\ x.paid = 0 BY <1>1, <1>2, <1>4 DEF Fits
  <2> QED BY <1>1, <1>2, <1>4, <2>1 DEF Fits
<1>7. pc'[j] = "create" /\ job'[j] = x BY <1>1, <1>2, <1>3, <1>5, <1>6, JobMoves
<1>8. x.madeId = 0 BY <1>6 DEF Fits
<1>9. UNCHANGED <<nonce, allowance, nextPoolId>> BY <1>2 DEF token, poolVars
<1>10. x.nonce < nonce' /\ (x.nonce + 1 = nonce' => allowance' = x.amount)
  BY <1>1, <1>2, <1>4, <1>9 DEF Aims
<1>11. x.poolId \in 1..nextPoolId' /\ x.poolId..(nextPoolId' - 1) = {} BY <1>1, <1>4, <1>9
<1>12. Aims(j)' BY <1>7, <1>8, <1>10, <1>11 DEF Aims, NoneOfOurs
<1> QED BY <1>2, <1>3, <1>5, <1>6, <1>12, QuietStepKeeps

\* The id the pool gets is the one that was read, or all pools from that one
\* on are other companies'.
LEMMA CreateKeeps == ASSUME RailInv, NEW j \in Jobs, Create(j) PROVE RailInv'
<1> DEFINE x == [job[j] EXCEPT !.madeId = nextPoolId]
           root == CorpusRoot(job[j].corpus)
           amount == job[j].amount
<1>1. /\ job[j] \in JobRecords /\ Fits(pc[j], job[j]) /\ Aims(j) /\ nonce \in Nat
      /\ nextPoolId \in 1..(MaxPools + 1) /\ JobsTyped /\ JobsFit /\ MoneyInv
  BY JobFacts DEF RailInv
<1>2. /\ pc[j] = "create" /\ job[j].nonce + 1 = nonce
      /\ CreatePool(Company, root, amount, allowance)
      /\ allowance' = allowance - amount /\ nonce' = nonce + 1 /\ Goto(j, "ingest", x)
      /\ UNCHANGED <<tracks, claimVars, roles>>
  BY DEF Create, At
<1>3. /\ nextPoolId \in PoolIds /\ nextPoolId' = nextPoolId + 1
      /\ pools' = [pools EXCEPT ![nextPoolId] =
                     [company |-> Company, corpusRoot |-> root, amount |-> amount,
                      distributed |-> FALSE, withdrawn |-> FALSE]]
  BY <1>2 DEF CreatePool
<1>4. job[j].corpus \in Corpora /\ amount \in Amounts BY <1>1, <1>2 DEF Fits
<1>5. nextPoolId \in 0..MaxPools BY <1>3 DEF PoolIds
<1>6. x \in JobRecords BY <1>1, <1>5 DEF JobRecords
<1>7. /\ x.corpus = job[j].corpus /\ x.amount = amount
      /\ x.poolId = job[j].poolId /\ x.madeId = nextPoolId
      /\ x.leaves = job[j].leaves /\ x.paid = job[j].paid
  BY <1>1 DEF JobRecords
<1>8. root \in CorpusRoots BY <1>4 DEF CorpusRoots
<1>9. Company \in Companies BY DEF Companies
<1> HIDE DEF x, root, amount
<1>10. MoneyInv' BY <1>1, <1>2, <1>4, <1>8, <1>9, CreateKeepsMoney
<1>11. "ingest" \in Labels /\ Fits("ingest", x)
  <2>1. x.leaves = <<>> /\ x.paid = 0 BY <1>1, <1>2, <1>7 DEF Fits
  <2>2. Len(x.leaves) = 0 BY <2>1
  <2> QED BY <1>4, <1>7, <2>1, <2>2 DEF Fits, Labels
<1>12. pc'[j] = "ingest" /\ job'[j] = x BY <1>1, <1>2, <1>6, <1>11, JobMoves
<1>13. allowance = amount BY <1>1, <1>2 DEF Aims, amount
<1>14. WalletTyped'
  <2>1. amount \in Nat BY <1>4, RailAssumption
  <2>2. allowance' = 0 BY <1>2, <1>13, <2>1
  <2> QED BY <1>1, <1>2, <2>2 DEF RailInv, WalletTyped, roles
<1>15. \A p \in PoolIds : p < nextPoolId => pools'[p] = pools[p]
  <2>1. pools \in [PoolIds -> PoolRecords \cup {NoPool}] BY <1>1 DEF MoneyInv, PoolsTyped
  <2>2. \A p \in PoolIds : p < nextPoolId => p # nextPoolId BY DEF PoolIds
  <2> QED BY <1>3, <2>1, <2>2
<1>16. World BY <1>2, <1>3, <1>15 DEF World
<1>17. Aims(j)'
  <2>1. job[j].poolId \in 1..nextPoolId /\ NoneOfOurs(job[j].poolId, nextPoolId - 1)
    BY <1>1, <1>2 DEF Aims
  <2>2. \A p \in x.poolId..(x.madeId - 1) : pools'[p].company # Company
    <3> SUFFICES ASSUME NEW p \in job[j].poolId..(nextPoolId - 1)
                 PROVE  pools'[p].company # Company
      BY <1>7
    <3>1. p \in PoolIds /\ p < nextPoolId
      <4>1. MaxPools \in Nat BY JobFacts
      <4>2. nextPoolId \in 1..MaxPools BY <1>3 DEF PoolIds
      <4>3. job[j].poolId \in Nat /\ job[j].poolId >= 1 BY <2>1, <4>2
      <4> QED BY <4>1, <4>2, <4>3 DEF PoolIds
    <3> QED BY <1>15, <2>1, <3>1 DEF NoneOfOurs
  <2>3. x.poolId \in 1..x.madeId /\ x.madeId < nextPoolId' BY <1>1, <1>3, <1>7, <2>1
  <2> QED BY <1>12, <2>2, <2>3 DEF Aims, NoneOfOurs
<1> QED BY <1>2, <1>6, <1>10, <1>11, <1>14, <1>16, <1>17, JobStepKeeps

\* The label a job moves to asks nothing of its aim but what it had.
LEMMA LaterAims ==
    ASSUME RailInv, NEW j \in Jobs, NEW label, label \notin {"readId", "create"},
           pc'[j] = label, job'[j].poolId = job[j].poolId, job'[j].madeId = job[j].madeId,
           \A p \in PoolIds : pools'[p].company = pools[p].company, UNCHANGED nextPoolId
    PROVE  Aims(j)'
<1>1. /\ Aims(j) /\ job[j] \in JobRecords /\ MaxPools \in Nat
      /\ nextPoolId \in 1..(MaxPools + 1)
  BY JobFacts
<1>2. job[j].madeId \in 0..MaxPools /\ job[j].poolId \in 0..(MaxPools + 1)
  BY <1>1 DEF JobRecords
<1>3. ASSUME job[j].madeId # 0
      PROVE  /\ job[j].poolId \in 1..job[j].madeId /\ job[j].madeId < nextPoolId
             /\ \A p \in job[j].poolId..(job[j].madeId - 1) : pools'[p].company # Company
  <2>1. /\ job[j].poolId \in 1..job[j].madeId /\ job[j].madeId < nextPoolId
        /\ NoneOfOurs(job[j].poolId, job[j].madeId - 1)
    BY <1>1, <1>3 DEF Aims
  <2>2. \A p \in job[j].poolId..(job[j].madeId - 1) : p \in PoolIds
    BY <1>1, <1>2, <2>1 DEF PoolIds
  <2> QED BY <2>1, <2>2 DEF NoneOfOurs
<1> QED BY <1>3 DEF Aims, NoneOfOurs

(* The pool a job reads back is the one with the id it expects. *)
LEMMA ReadPoolKeeps == ASSUME RailInv, NEW j \in Jobs, ReadPool(j) PROVE RailInv'
<1> DEFINE q == job[j].poolId
           x == [job[j] EXCEPT !.pool = pools[q]]
<1>1. /\ job[j] \in JobRecords /\ Fits(pc[j], job[j]) /\ JobsTyped /\ JobsFit /\ PoolsTyped
  BY JobFacts DEF RailInv, MoneyInv
<1>2. /\ pc[j] = "ingest" /\ q \in PoolIds /\ Exists(q) /\ Goto(j, "attest", x)
      /\ UNCHANGED <<tracks, token, nonce, poolVars, claimVars, roles>>
  BY DEF ReadPool, At
<1>3. pools[q] \in PoolRecords BY <1>1, <1>2, HeldIsNat
<1> DEFINE record == pools[q]
<1> HIDE DEF record
<1>4. x \in JobRecords
  <2>1. [job[j] EXCEPT !.pool = record] \in JobRecords BY <1>1, <1>3 DEF JobRecords, record
  <2> QED BY <2>1 DEF record
<1>5. /\ x.corpus = job[j].corpus /\ x.amount = job[j].amount
      /\ x.poolId = q /\ x.madeId = job[j].madeId
      /\ x.leaves = job[j].leaves /\ x.paid = job[j].paid /\ x.pool = pools[q]
  BY <1>1 DEF JobRecords
<1>6. "attest" \in Labels BY DEF Labels
<1> HIDE DEF x
<1>7. Fits("attest", x)
  <2>1. x.leaves = <<>> /\ x.paid = 0 BY <1>1, <1>2, <1>5 DEF Fits
  <2> QED BY <1>1, <1>2, <1>3, <1>5, <2>1 DEF Fits
<1>8. pc'[j] = "attest" /\ job'[j] = x BY <1>1, <1>2, <1>4, <1>6, <1>7, JobMoves
<1>9. Aims(j)'
  <2>1. UNCHANGED <<pools, nextPoolId>> BY <1>2 DEF poolVars
  <2>2. job'[j].poolId = job[j].poolId /\ job'[j].madeId = job[j].madeId BY <1>5, <1>8
  <2> QED BY <1>8, <2>1, <2>2, LaterAims
<1> QED BY <1>2, <1>4, <1>6, <1>7, <1>9, QuietStepKeeps

(* The enclave's allocation is of the corpus and the amount of the job's pool. *)
LEMMA AttestKeeps == ASSUME RailInv, NEW j \in Jobs, Attest(j) PROVE RailInv'
<1> DEFINE corpus == job[j].corpus
           shares == Allocate(corpus, job[j].pool.amount)
           x == [job[j] EXCEPT !.leaves = shares]
<1>1. /\ job[j] \in JobRecords /\ Fits(pc[j], job[j]) /\ JobsTyped /\ JobsFit
      /\ tracks \in [Fingerprints -> Artists \cup {Nobody}]
  BY JobFacts DEF RailInv, WalletTyped
<1>2. /\ pc[j] = "attest" /\ Goto(j, "submit", x)
      /\ \A i \in DOMAIN corpus : tracks[corpus[i]] # Nobody
      /\ UNCHANGED <<tracks, token, nonce, poolVars, claimVars, roles>>
  BY DEF Attest, At
<1>3. corpus \in Corpora /\ job[j].pool \in PoolRecords BY <1>1, <1>2 DEF Fits
<1>4. job[j].pool.amount \in Nat BY <1>3 DEF PoolRecords
<1>5. Licensed(corpus)
  <2>1. corpus \in Seq(Fingerprints) /\ corpus # <<>> BY <1>3, RailAssumption
  <2>2. \A i \in DOMAIN corpus : corpus[i] \in Fingerprints BY <2>1
  <2>3. \A i \in DOMAIN corpus : tracks[corpus[i]] \in Artists BY <1>1, <1>2, <2>2
  <2> QED BY <2>1, <2>3 DEF Licensed
<1>6. shares \in Seq(Artists \X Nat)
  <2> HIDE DEF corpus
  <2> QED BY <1>4, <1>5, AllocationType
<1> HIDE DEF shares
<1>7. x \in JobRecords BY <1>1, <1>6 DEF JobRecords
<1>8. /\ x.corpus = job[j].corpus /\ x.amount = job[j].amount
      /\ x.poolId = job[j].poolId /\ x.madeId = job[j].madeId
      /\ x.leaves = shares /\ x.paid = job[j].paid
  BY <1>1 DEF JobRecords
<1>9. "submit" \in Labels BY DEF Labels
<1> HIDE DEF x
<1>10. Fits("submit", x)
  <2>1. x.paid = 0 /\ job[j].poolId \in PoolIds /\ job[j].amount \in Amounts
    BY <1>1, <1>2, <1>8 DEF Fits
  <2>2. Len(x.leaves) \in Nat BY <1>6, <1>8
  <2> QED BY <1>3, <1>8, <2>1, <2>2 DEF Fits
<1>11. pc'[j] = "submit" /\ job'[j] = x BY <1>1, <1>2, <1>7, <1>9, <1>10, JobMoves
<1>12. Aims(j)'
  <2>1. UNCHANGED <<pools, nextPoolId>> BY <1>2 DEF poolVars
  <2>2. job'[j].poolId = job[j].poolId /\ job'[j].madeId = job[j].madeId BY <1>8, <1>11
  <2> QED BY <1>11, <2>1, <2>2, LaterAims
<1> QED BY <1>2, <1>7, <1>9, <1>10, <1>12, QuietStepKeeps

(* A job that fails leaves the chain as it is. *)
LEMMA FailKeeps == ASSUME RailInv, NEW j \in Jobs, Fail(j) PROVE RailInv'
<1> DEFINE kept == [job[j] EXCEPT !.nonce = 0, !.paid = 0]
           x == IF job[j].leaves = <<>> THEN NoJob ELSE kept
<1>1. /\ job[j] \in JobRecords /\ Fits(pc[j], job[j]) /\ JobsTyped /\ JobsFit
  BY JobFacts DEF RailInv
<1>2. /\ Goto(j, "error", x) /\ UNCHANGED <<tracks, token, nonce, poolVars, claimVars, roles>>
  BY DEF Fail
<1>3. kept \in JobRecords BY <1>1 DEF JobRecords
<1>4. /\ kept.poolId = job[j].poolId /\ kept.madeId = job[j].madeId
      /\ kept.leaves = job[j].leaves /\ kept.paid = 0
  BY <1>1 DEF JobRecords
<1>5. Len(kept.leaves) \in Nat
  <2>1. kept.leaves \in Seq(Artists \X Nat) BY <1>3 DEF JobRecords
  <2> QED BY <2>1
<1> HIDE DEF kept
<1>6. x \in JobRecords BY <1>3, NoJobIsEmpty
<1>7. "error" \in Labels BY DEF Labels
<1>8. Fits("error", x)
  <2>1. CASE job[j].leaves = <<>> BY <2>1, NoJobIsEmpty DEF Fits
  <2>2. CASE job[j].leaves # <<>>
    <3>1. x = kept /\ job[j].poolId \in PoolIds BY <1>1, <2>2 DEF Fits
    <3> HIDE DEF x
    <3> QED BY <1>4, <1>5, <3>1 DEF Fits
  <2> QED BY <2>1, <2>2
<1>9. pc'[j] = "error" /\ job'[j] = x
  <2> HIDE DEF x
  <2> QED BY <1>1, <1>2, <1>6, <1>7, <1>8, JobMoves
<1>10. UNCHANGED <<pools, nextPoolId>> BY <1>2 DEF poolVars
<1>11. Aims(j)'
  <2>1. CASE job[j].leaves = <<>>
    <3>1. job'[j].madeId = 0 BY <1>9, <2>1, NoJobIsEmpty
    <3> QED BY <1>9, <3>1 DEF Aims
  <2>2. CASE job[j].leaves # <<>>
    <3>1. job'[j].poolId = job[j].poolId /\ job'[j].madeId = job[j].madeId BY <1>4, <1>9, <2>2
    <3> QED BY <1>9, <1>10, <3>1, LaterAims
  <2> QED BY <2>1, <2>2
<1> HIDE DEF x
<1> QED BY <1>2, <1>6, <1>7, <1>8, <1>11, QuietStepKeeps

\* No operation of a pool changes whose it is.
LEMMA DistributeKeepsCompany ==
    ASSUME MoneyInv, NEW p \in PoolIds, NEW sender, NEW to,
           DistributeToClaimContract(sender, p, to)
    PROVE  \A q \in PoolIds : pools'[q].company = pools[q].company
<1> DEFINE r == [pools[p] EXCEPT !.distributed = TRUE, !.amount = 0]
<1>1. Exists(p) /\ r \in PoolRecords /\ pools' = [pools EXCEPT ![p] = r] BY DistributedPool
<1>2. PoolsTyped BY DEF MoneyInv
<1>3. pools[p] \in PoolRecords BY <1>1, <1>2, HeldIsNat
<1>4. r.company = pools[p].company BY <1>3 DEF PoolRecords
<1> HIDE DEF r
<1> QED BY <1>1, <1>2, <1>4 DEF PoolsTyped

(* Withdrawing a pool leaves every pool with its company. *)
LEMMA WithdrawKeepsCompany ==
    ASSUME MoneyInv, NEW p \in PoolIds, NEW company, WithdrawPool(company, p)
    PROVE  \A q \in PoolIds : pools'[q].company = pools[q].company
<1> DEFINE r == [pools[p] EXCEPT !.withdrawn = TRUE, !.amount = 0]
<1>1. PoolsTyped /\ Exists(p) BY DEF MoneyInv, WithdrawPool
<1>2. pools[p] \in PoolRecords BY <1>1, HeldIsNat
<1>3. pools' = [pools EXCEPT ![p] = r] BY <1>1, <1>2 DEF WithdrawPool, PoolsTyped, PoolRecords
<1>4. r.company = pools[p].company BY <1>2 DEF PoolRecords
<1> HIDE DEF r
<1> QED BY <1>1, <1>3, <1>4 DEF PoolsTyped

\* A step that leaves the wallet and the pools' owners alone.
LEMMA WorldStands ==
    ASSUME RailInv, UNCHANGED <<nonce, allowance, nextPoolId>>,
           \A q \in PoolIds : pools'[q].company = pools[q].company
    PROVE  World
<1>1. nextPoolId \in Int BY DEF RailInv, MoneyInv, PoolsTyped
<1> QED BY <1>1 DEF World

(* Submitting an allocation pulls the amount of its pool. *)
LEMMA SubmitKeeps == ASSUME RailInv, NEW j \in Jobs, Submit(j) PROVE RailInv'
<1> DEFINE x == job[j]
           p == x.poolId
           root == Root(Leaves(x.leaves))
<1>1. /\ x \in JobRecords /\ Fits(pc[j], x) /\ JobsTyped /\ JobsFit /\ MoneyInv
  BY JobFacts DEF RailInv
<1>2. /\ pc[j] = "submit" /\ SubmitAllocation(Ingestor, p, root) /\ Goto(j, "claim", x)
      /\ UNCHANGED <<tracks, nonce, roles>>
  BY DEF Submit, At
<1>3. x.leaves \in Seq(Artists \X Nat) BY <1>1 DEF JobRecords
<1>4. root \in ShareRoots BY <1>3 DEF ShareRoots
<1>5. p \in PoolIds BY <1>1, <1>2 DEF Fits
<1> HIDE DEF x, p, root
<1>6. DistributeToClaimContract(ClaimContract, p, ClaimContract) BY <1>2 DEF SubmitAllocation
<1>7. MoneyInv' BY <1>1, <1>2, <1>4, <1>5, SubmitKeepsMoney
<1>8. \A q \in PoolIds : pools'[q].company = pools[q].company
  BY <1>1, <1>5, <1>6, DistributeKeepsCompany
<1>9. UNCHANGED <<nonce, allowance, nextPoolId>> BY <1>2, <1>6 DEF DistributeToClaimContract
<1>10. World BY <1>8, <1>9, WorldStands
<1>11. "claim" \in Labels /\ Fits("claim", x) BY <1>1, <1>2 DEF Fits, Labels
<1>12. pc'[j] = "claim" /\ job'[j] = x BY <1>1, <1>2, <1>11, JobMoves
<1>13. Aims(j)' BY <1>8, <1>9, <1>12, LaterAims DEF x
<1>14. WalletTyped' BY <1>2, <1>9 DEF RailInv, WalletTyped, roles
<1> QED BY <1>1, <1>2, <1>7, <1>10, <1>11, <1>13, <1>14, JobStepKeeps

\* A share of a response is claimed for an artist of the rail.
LEMMA ClaimShareKeepsMoney ==
    ASSUME RailInv, NEW j \in Jobs, NEW k \in DOMAIN job[j].leaves, ClaimShare(j, k)
    PROVE  MoneyInv' /\ UNCHANGED <<allowance, pools, nextPoolId>>
<1> DEFINE shares == job[j].leaves
           share == shares[k]
           p == job[j].poolId
           proof == GetProof(Leaves(shares), k)
<1>1. /\ job[j] \in JobRecords /\ Fits(pc[j], job[j]) /\ MoneyInv
  BY JobFacts DEF RailInv
<1>2. shares \in Seq(Artists \X Nat) BY <1>1 DEF JobRecords
<1>3. share \in Artists \X Nat BY <1>2
<1>4. share[1] \in Artists /\ share[2] \in Nat BY <1>3
<1>5. p \in PoolIds
  <2>1. shares # <<>> OBVIOUS
  <2> QED BY <1>1, <2>1 DEF Fits
<1>6. Claim(share[1], p, share[2], proof) BY DEF ClaimShare
<1>7. UNCHANGED <<allowance, pools, nextPoolId>> BY <1>6 DEF Claim, poolVars
<1> HIDE DEF share, p, proof
<1> QED BY <1>1, <1>4, <1>5, <1>6, <1>7, ClaimKeepsMoney

(* A claim pays a leaf once, out of what the allocation still owes. *)
LEMMA ClaimNextKeeps == ASSUME RailInv, NEW j \in Jobs, ClaimNext(j) PROVE RailInv'
<1>1. /\ job[j] \in JobRecords /\ Fits(pc[j], job[j]) /\ JobsTyped /\ JobsFit /\ MoneyInv
  BY JobFacts DEF RailInv
<1>2. pc[j] = "claim" /\ UNCHANGED <<tracks, nonce, roles>> BY DEF ClaimNext, At
<1>3. job[j].leaves \in Seq(Artists \X Nat) /\ job[j].paid \in Nat BY <1>1 DEF JobRecords
<1>4. job[j].paid <= Len(job[j].leaves) /\ Len(job[j].leaves) \in Nat
  BY <1>1, <1>3 DEF Fits
<1>5. CASE job[j].paid = Len(job[j].leaves)
  <2> DEFINE x == job[j]
  <2>1. Goto(j, "done", x) /\ UNCHANGED <<tracks, token, nonce, poolVars, claimVars, roles>>
    BY <1>2, <1>5 DEF ClaimNext
  <2>2. "done" \in Labels BY DEF Labels
  <2>3. Fits("done", x) BY <1>1, <1>2 DEF Fits
  <2> HIDE DEF x
  <2>4. pc'[j] = "done" /\ job'[j] = x BY <1>1, <2>1, <2>2, <2>3, JobMoves DEF x
  <2>5. UNCHANGED <<pools, nextPoolId>> BY <2>1 DEF poolVars
  <2>6. Aims(j)' BY <2>4, <2>5, LaterAims DEF x
  <2> QED BY <1>1, <2>1, <2>2, <2>3, <2>6, QuietStepKeeps DEF x
<1>6. CASE job[j].paid # Len(job[j].leaves)
  <2> DEFINE x == [job[j] EXCEPT !.paid = @ + 1]
             k == job[j].paid + 1
  <2>1. ClaimShare(j, k) /\ Goto(j, "claim", x) BY <1>6 DEF ClaimNext
  <2>2. k \in DOMAIN job[j].leaves /\ k \in Nat /\ k <= Len(job[j].leaves) BY <1>3, <1>4, <1>6
  <2>3. x \in JobRecords
    <3>1. job[j].paid + 1 \in Nat BY <1>3
    <3>2. x = [job[j] EXCEPT !.paid = job[j].paid + 1] OBVIOUS
    <3> DEFINE paid == job[j].paid + 1
    <3>3. [job[j] EXCEPT !.paid = paid] \in JobRecords
      <4> HIDE DEF paid
      <4> QED BY <1>1, <3>1 DEF JobRecords, paid
    <3> QED BY <3>2, <3>3
  <2>4. /\ x.corpus = job[j].corpus /\ x.amount = job[j].amount
        /\ x.poolId = job[j].poolId /\ x.madeId = job[j].madeId
        /\ x.leaves = job[j].leaves /\ x.paid = k
    BY <1>1 DEF JobRecords
  <2> HIDE DEF x, k
  <2>5. "claim" \in Labels BY DEF Labels
  <2>6. Fits("claim", x) BY <1>1, <1>2, <2>2, <2>4 DEF Fits
  <2>7. pc'[j] = "claim" /\ job'[j] = x BY <1>1, <2>1, <2>3, <2>5, <2>6, JobMoves
  <2>8. MoneyInv' /\ UNCHANGED <<allowance, pools, nextPoolId>>
    BY <2>1, <2>2, ClaimShareKeepsMoney
  <2>9. Aims(j)' BY <2>4, <2>7, <2>8, LaterAims
  <2>10. World BY <1>2, <2>8, WorldStands
  <2>11. WalletTyped' BY <1>2, <2>8 DEF RailInv, WalletTyped, roles
  <2> QED BY <2>1, <2>3, <2>5, <2>6, <2>8, <2>9, <2>10, <2>11, JobStepKeeps
<1> QED BY <1>5, <1>6

(* Every step of a job keeps the invariant. *)
LEMMA JobStepInv == ASSUME RailInv, NEW j \in Jobs, JobStep(j) PROVE RailInv'
BY BeginKeeps, ApproveKeeps, ReadPoolIdKeeps, CreateKeeps, ReadPoolKeeps, AttestKeeps,
   SubmitKeeps, ClaimNextKeeps, FailKeeps
DEF JobStep

\* Everyone else keeps it too.
LEMMA ArtistClaimsKeeps ==
    ASSUME RailInv, NEW j \in Jobs, NEW k \in DOMAIN job[j].leaves, ArtistClaims(j, k)
    PROVE  RailInv'
<1>1. ClaimShare(j, k) /\ UNCHANGED <<tracks, nonce, roles, jobVars>> BY DEF ArtistClaims
<1>2. MoneyInv' /\ UNCHANGED <<allowance, pools, nextPoolId>> BY <1>1, ClaimShareKeepsMoney
<1>3. World BY <1>1, <1>2, WorldStands
<1>4. WalletTyped' BY <1>1, <1>2 DEF RailInv, WalletTyped, roles
<1> QED BY <1>1, <1>2, <1>3, <1>4, OtherStepKeeps

(* Registering a track moves no money and no job. *)
LEMMA RegisterTrackKeeps ==
    ASSUME RailInv, NEW r \in Registrations, RegisterTrack(r[1], r[2])
    PROVE  RailInv'
<1>1. /\ tracks' = [tracks EXCEPT ![r[2]] = r[1]]
      /\ UNCHANGED <<token, nonce, poolVars, claimVars, roles, jobVars>>
  BY DEF RegisterTrack
<1>2. r[1] \in Artists /\ r[2] \in Fingerprints BY RailAssumption
<1>3. MoneyInv'
  <2>1. UNCHANGED <<balance, poolVars, claimVars>> BY <1>1 DEF token
  <2> QED BY <2>1, MoneyStands DEF RailInv
<1>4. World BY <1>1, WorldStands DEF token, poolVars
<1>5. WalletTyped' BY <1>1, <1>2 DEF RailInv, WalletTyped, token, roles
<1> QED BY <1>1, <1>3, <1>4, <1>5, OtherStepKeeps

(* A company that withdraws gets what its pool holds. *)
LEMMA CompanyWithdrawsKeeps ==
    ASSUME RailInv, NEW p \in PoolIds, CompanyWithdraws(p) PROVE RailInv'
<1>1. PICK c \in Companies : WithdrawPool(c, p)
  BY DEF CompanyWithdraws, Companies
<1>2. nonce' = nonce \/ nonce' = nonce + 1 BY DEF CompanyWithdraws
<1>3. UNCHANGED <<tracks, claimVars, roles, jobVars>> BY DEF CompanyWithdraws
<1>4. UNCHANGED <<allowance, nextPoolId>> BY <1>1 DEF WithdrawPool
<1>5. MoneyInv BY DEF RailInv
<1>6. MoneyInv' BY <1>1, <1>3, <1>5, WithdrawKeepsMoney
<1>7. \A q \in PoolIds : pools'[q].company = pools[q].company
  BY <1>1, <1>5, WithdrawKeepsCompany
<1>8. World
  <2>1. nextPoolId \in Int BY <1>5 DEF MoneyInv, PoolsTyped
  <2> QED BY <1>2, <1>4, <1>7, <2>1 DEF World
<1>9. WalletTyped' BY <1>2, <1>3, <1>4 DEF RailInv, WalletTyped, roles
<1> QED BY <1>3, <1>6, <1>8, <1>9, OtherStepKeeps

(* A pool somebody else creates takes an id a job may have read. *)
LEMMA OutsiderCreatesKeeps ==
    ASSUME RailInv, NEW c \in Outsiders, NEW corpus \in Corpora, NEW amount \in Amounts,
           OutsiderCreates(c, corpus, amount)
    PROVE  RailInv'
<1> DEFINE root == CorpusRoot(corpus)
<1>1. /\ CreatePool(c, root, amount, amount)
      /\ UNCHANGED <<tracks, allowance, nonce, claimVars, roles, jobVars>>
  BY DEF OutsiderCreates
<1>2. root \in CorpusRoots BY DEF CorpusRoots
<1> HIDE DEF root
<1>3. c \in Companies /\ c # Company BY RailAssumption DEF Companies
<1>4. MoneyInv BY DEF RailInv
<1>5. MoneyInv' BY <1>1, <1>2, <1>3, <1>4, CreateKeepsMoney
<1> DEFINE r == [company |-> c, corpusRoot |-> root, amount |-> amount,
                 distributed |-> FALSE, withdrawn |-> FALSE]
<1>6. /\ nextPoolId \in PoolIds /\ nextPoolId' = nextPoolId + 1
      /\ pools' = [pools EXCEPT ![nextPoolId] = r]
  BY <1>1 DEF CreatePool
<1>7. r.company = c OBVIOUS
<1> HIDE DEF r
<1>8. pools \in [PoolIds -> PoolRecords \cup {NoPool}] BY <1>4 DEF MoneyInv, PoolsTyped
<1>9. pools'[nextPoolId] = r /\ \A q \in PoolIds : q < nextPoolId => pools'[q] = pools[q]
  <2>1. \A q \in PoolIds : q < nextPoolId => q # nextPoolId BY DEF PoolIds
  <2> QED BY <1>6, <1>8, <2>1
<1>10. World BY <1>1, <1>3, <1>6, <1>7, <1>9 DEF World
<1>11. WalletTyped' BY <1>1 DEF RailInv, WalletTyped, roles
<1> QED BY <1>1, <1>5, <1>10, <1>11, OtherStepKeeps

(* The owner may distribute to the claim contract or to itself. *)
LEMMA OwnerDistributesKeeps ==
    ASSUME RailInv, NEW p \in PoolIds, NEW to \in {ClaimContract, Owner}, OwnerDistributes(p, to)
    PROVE  RailInv'
<1>1. /\ DistributeToClaimContract(Owner, p, to)
      /\ UNCHANGED <<tracks, nonce, claimVars, roles, jobVars>>
  BY DEF OwnerDistributes
<1>2. MoneyInv /\ UNCHANGED <<nextPoolId, allowance>>
  BY <1>1 DEF RailInv, DistributeToClaimContract
<1>3. MoneyInv' BY <1>1, <1>2, DistributeKeepsMoney
<1>4. \A q \in PoolIds : pools'[q].company = pools[q].company
  BY <1>1, <1>2, DistributeKeepsCompany
<1>5. World BY <1>1, <1>2, <1>4, WorldStands
<1>6. WalletTyped' BY <1>1, <1>2 DEF RailInv, WalletTyped, roles
<1> QED BY <1>1, <1>3, <1>5, <1>6, OtherStepKeeps

(* Changing roles keeps the invariant, if the new holders are known. *)
LEMMA RolesKeep ==
    ASSUME RailInv, UNCHANGED <<tracks, token, nonce, poolVars, claimVars, jobVars>>,
           authorizedDistributor' \in {Owner, ClaimContract},
           authorizedIngestor' \in {Owner, Ingestor}
    PROVE  RailInv'
<1>1. MoneyInv'
  <2>1. UNCHANGED <<balance, poolVars, claimVars>> BY DEF token
  <2> QED BY <2>1, MoneyStands DEF RailInv
<1>2. World BY WorldStands DEF token, poolVars
<1>3. WalletTyped' BY DEF RailInv, WalletTyped, token
<1> QED BY <1>1, <1>2, <1>3, OtherStepKeeps

(* The rail starts with no pool, no allocation and no job. *)
LEMMA RailInit == Init => RailInv
<1> SUFFICES ASSUME Init PROVE RailInv OBVIOUS
<1>1. MaxPools \in Nat /\ InitialFunds \in Nat BY RailAssumption
<1>2. \A p \in PoolIds : ~Exists(p) BY DEF Init, Exists, NoPool
<1>3. PoolsTyped BY <1>1, <1>2 DEF Init, PoolsTyped, PoolIds
<1>4. AllocationsTyped BY DEF Init, AllocationsTyped
<1>5. BalancesTyped BY <1>1 DEF Init, BalancesTyped
<1>6. PoolsKept BY <1>2 DEF PoolsKept
<1>7. PoolMoney
  <2>1. \A p \in PoolIds : Held[p] = 0 BY <1>2 DEF Held, HeldFor
  <2>2. IsFiniteSet(PoolIds) BY PoolIdsAreFinite
  <2>3. SumFunctionOnSet(Held, PoolIds) = 0 BY <2>1, <2>2, SumZero
  <2>4. balance[PoolContract] = 0 BY Parties DEF Init
  <2> QED BY <2>3, <2>4 DEF PoolMoney
<1>8. ClaimMoney
  <2>1. \A p \in PoolIds : Owed[p] = 0 BY DEF Owed, Unpaid, Init, NoAllocation
  <2>2. IsFiniteSet(PoolIds) BY PoolIdsAreFinite
  <2>3. SumFunctionOnSet(Owed, PoolIds) = 0 BY <2>1, <2>2, SumZero
  <2>4. balance[ClaimContract] = 0 BY Parties DEF Init
  <2> QED BY <2>3, <2>4 DEF ClaimMoney
<1>9. WalletTyped BY DEF Init, WalletTyped
<1>10. JobsTyped BY NoJobIsEmpty DEF Init, JobsTyped, Labels
<1>11. JobsFit BY NoJobIsEmpty DEF Init, JobsFit, Fits
<1>12. JobsAim BY NoJobIsEmpty DEF Init, JobsAim, Aims
<1> QED BY <1>3, <1>4, <1>5, <1>6, <1>7, <1>8, <1>9, <1>10, <1>11, <1>12 DEF RailInv, MoneyInv

(* Every step of the rail keeps the invariant. *)
LEMMA RailStep == RailInv /\ [Next]_vars => RailInv'
<1> SUFFICES ASSUME RailInv, [Next]_vars PROVE RailInv' OBVIOUS
<1>1. ASSUME NEW j \in Jobs, JobStep(j) PROVE RailInv' BY <1>1, JobStepInv
<1>2. ASSUME NEW j \in Jobs, NEW k \in DOMAIN job[j].leaves, ArtistClaims(j, k) PROVE RailInv'
  BY <1>2, ArtistClaimsKeeps
<1>3. ASSUME NEW r \in Registrations, RegisterTrack(r[1], r[2]) PROVE RailInv'
  BY <1>3, RegisterTrackKeeps
<1>4. ASSUME NEW p \in PoolIds, CompanyWithdraws(p) PROVE RailInv'
  BY <1>4, CompanyWithdrawsKeeps
<1>5. ASSUME NEW p \in PoolIds, NEW to \in {ClaimContract, Owner}, OwnerDistributes(p, to)
      PROVE  RailInv'
  BY <1>5, OwnerDistributesKeeps
<1>6. ASSUME NEW c \in Outsiders, NEW corpus \in Corpora, NEW amount \in Amounts,
             OutsiderCreates(c, corpus, amount)
      PROVE  RailInv'
  BY <1>6, OutsiderCreatesKeeps
<1>7. ASSUME NEW a \in {Owner, ClaimContract}, SetAuthorizedDistributor(a) PROVE RailInv'
  <2>1. authorizedIngestor' \in {Owner, Ingestor}
    BY <1>7 DEF SetAuthorizedDistributor, RailInv, WalletTyped
  <2> QED BY <1>7, <2>1, RolesKeep DEF SetAuthorizedDistributor
<1>8. ASSUME NEW a \in {Owner, Ingestor}, SetAuthorizedIngestor(a) PROVE RailInv'
  <2>1. authorizedDistributor' \in {Owner, ClaimContract}
    BY <1>8 DEF SetAuthorizedIngestor, RailInv, WalletTyped
  <2> QED BY <1>8, <2>1, RolesKeep DEF SetAuthorizedIngestor
<1>9. CASE UNCHANGED vars
  <2>1. UNCHANGED <<tracks, token, nonce, poolVars, claimVars, jobVars, roles>>
    BY <1>9 DEF vars
  <2>2. authorizedDistributor' \in {Owner, ClaimContract} /\ authorizedIngestor' \in {Owner, Ingestor}
    BY <2>1 DEF roles, RailInv, WalletTyped
  <2> QED BY <2>1, <2>2, RolesKeep
<1> QED BY <1>1, <1>2, <1>3, <1>4, <1>5, <1>6, <1>7, <1>8, <1>9 DEF Next

(* The inductive invariant of the rail holds in every reachable state. *)
LEMMA RailHolds == Spec => []RailInv
<1>1. Init => RailInv BY RailInit
<1>2. RailInv /\ [Next]_vars => RailInv' BY RailStep
<1> QED BY <1>1, <1>2, PTL DEF Spec

-----------------------------------------------------------------------------
\* The allocation of a pool.

\* What a response is worth, and what of it is still open.
SharesOf(s)    == [k \in DOMAIN s |-> s[k][2]]
Worth(s)       == SumFunctionOnSet(SharesOf(s), DOMAIN s)
OpenShares(p, s) == {k \in DOMAIN s : s[k][1] \notin claimed[p]}
OpenWorth(p, s)  == SumFunctionOnSet(SharesOf(s), OpenShares(p, s))

\* A response names every artist once.
Response(s) ==
    /\ s \in Seq(Artists \X Nat) /\ s # <<>>
    /\ \A i, k \in DOMAIN s : i # k => s[i][1] # s[k][1]

\* Two jobs that made a pool read different ids: the nonce of the later one
\* is the one after the earlier one's, so it read its id afterwards.
Apart ==
    \A j, k \in Jobs : j # k /\ job[j].madeId # 0 /\ job[k].madeId # 0
                         => job[j].poolId # job[k].poolId
Later(j) ==
    pc[j] = "create" /\ job[j].nonce + 1 = nonce
        => \A k \in Jobs : job[k].madeId < job[j].poolId

\* What a job has by where it is: a pool, a response, the amount of its pool.
Holds(j) ==
    /\ pc[j] = "idle" => job[j].leaves = <<>>
    /\ pc[j] \in {"ingest", "attest", "submit", "claim"} => job[j].madeId # 0
    /\ pc[j] \in {"submit", "claim"} => job[j].leaves # <<>>
    /\ job[j].leaves # <<>> => job[j].madeId # 0 /\ Response(job[j].leaves)
Worked(j) == job[j].leaves # <<>> /\ Open(job[j].poolId)
Priced(j) ==
    /\ pc[j] = "attest" /\ Open(job[j].poolId) => job[j].pool.amount = pools[job[j].poolId].amount
    /\ Worked(j) => Worth(job[j].leaves) = pools[job[j].poolId].amount

\* An allocation is the response of one job, less what has been claimed.
Answers(j, p) ==
    /\ job[j].poolId = p /\ job[j].leaves # <<>>
    /\ Root(Leaves(job[j].leaves)) = allocations[p].root
Backed(p) ==
    /\ ~allocations[p].submitted => claimed[p] = {}
    /\ allocations[p].submitted =>
          \E j \in Jobs : /\ Answers(j, p)
                          /\ allocations[p].claimedAmount + OpenWorth(p, job[j].leaves)
                               = allocations[p].total

JobsHold == \A j \in Jobs : Holds(j) /\ Priced(j) /\ Later(j)
PoolsBacked == \A p \in PoolIds : Backed(p)
ShareInv == Apart /\ JobsHold /\ PoolsBacked

-----------------------------------------------------------------------------
\* The allocation of a licensed corpus names every artist once.
LEMMA AllocationIsResponse ==
    ASSUME NEW corpus, Licensed(corpus), NEW amount \in Nat
    PROVE  Response(Allocate(corpus, amount)) /\ Worth(Allocate(corpus, amount)) = amount
<1> DEFINE s == Allocate(corpus, amount)
<1>1. /\ \A i, k \in DOMAIN s : i # k => s[i][1] # s[k][1]
      /\ {s[k][1] : k \in DOMAIN s} = {tracks[corpus[x]] : x \in DOMAIN corpus}
      /\ SumFunctionOnSet([k \in DOMAIN s |-> s[k][2]], DOMAIN s) = amount
  BY AllocationAddsUp
<1>2. s \in Seq(Artists \X Nat) BY AllocationType
<1>3. 1 \in DOMAIN corpus BY PerTrackIsNat
<1> HIDE DEF s
<1>4. s # <<>>
  <2>1. PICK k \in DOMAIN s : s[k][1] = tracks[corpus[1]] BY <1>1, <1>3
  <2> QED BY <2>1
<1>5. Worth(s) = amount BY <1>1 DEF Worth, SharesOf
<1> QED BY <1>1, <1>2, <1>4, <1>5 DEF Response, s

-----------------------------------------------------------------------------
\* How a step treats a job: a response stays, and a job that has made a pool
\* keeps to the id it read, or is over.
Kept(k) ==
    job[k].leaves # <<>> => job'[k].leaves = job[k].leaves /\ job'[k].poolId = job[k].poolId
Tame(k) ==
    /\ Kept(k)
    /\ job'[k].madeId = 0 \/ (job'[k].madeId = job[k].madeId /\ job'[k].poolId = job[k].poolId)

\* A pool that is there never opens again, and keeps its amount while it is open.
PoolsSettle ==
    /\ UNCHANGED nextPoolId \/ nextPoolId' = nextPoolId + 1
    /\ \A q \in PoolIds : q < nextPoolId /\ Open(q)' => Open(q) /\ pools'[q].amount = pools[q].amount

(* The pool of a job that made one is there. *)
LEMMA MadePoolIsThere ==
    ASSUME RailInv, NEW k \in Jobs, job[k].madeId # 0
    PROVE  job[k].poolId \in PoolIds /\ job[k].poolId < nextPoolId
<1>1. /\ job[k] \in JobRecords /\ Aims(k) /\ MaxPools \in Nat /\ nextPoolId \in 1..(MaxPools + 1)
  BY JobFacts
<1>2. job[k].madeId \in 0..MaxPools BY <1>1 DEF JobRecords
<1>3. job[k].poolId \in 1..job[k].madeId /\ job[k].madeId < nextPoolId BY <1>1 DEF Aims
<1> QED BY <1>1, <1>2, <1>3 DEF PoolIds

(* Pools of different jobs stay apart. *)
LEMMA ApartStands ==
    ASSUME Apart, \A k \in Jobs : Tame(k)
    PROVE  Apart'
<1> SUFFICES ASSUME NEW i \in Jobs, NEW k \in Jobs, i # k, job'[i].madeId # 0, job'[k].madeId # 0
             PROVE  job'[i].poolId # job'[k].poolId
  BY DEF Apart
<1>1. /\ job'[i].madeId = job[i].madeId /\ job'[i].poolId = job[i].poolId
      /\ job'[k].madeId = job[k].madeId /\ job'[k].poolId = job[k].poolId
  BY DEF Tame
<1> QED BY <1>1 DEF Apart

(* A job that waits keeps what it has, while the pools settle. *)
LEMMA WaitingJobHolds ==
    ASSUME RailInv, JobsHold, PoolsSettle, NEW k \in Jobs, pc'[k] = pc[k], job'[k] = job[k]
    PROVE  Holds(k)' /\ Priced(k)'
<1>1. Holds(k) /\ Priced(k) BY DEF JobsHold
<1>2. Holds(k)' BY <1>1 DEF Holds, Response
<1>3. ASSUME pc[k] = "attest" \/ job[k].leaves # <<>>, Open(job[k].poolId)'
      PROVE  Open(job[k].poolId) /\ pools'[job[k].poolId].amount = pools[job[k].poolId].amount
  <2>1. job[k].madeId # 0 BY <1>1, <1>3 DEF Holds
  <2>2. job[k].poolId \in PoolIds /\ job[k].poolId < nextPoolId BY <2>1, MadePoolIsThere
  <2>3. PICK q \in PoolIds : q = job[k].poolId BY <2>2
  <2>4. job'[k].poolId = q BY <2>3
  <2>5. Open(q)'
    <3>1. Open(job[k].poolId)' BY <1>3
    <3> QED BY <2>3, <2>4, <3>1 DEF Open, Exists
  <2> QED BY <2>2, <2>3, <2>5 DEF PoolsSettle
<1>4. Priced(k)'
  <2>1. pc[k] = "attest" /\ Open(job[k].poolId)' =>
           job[k].pool.amount = pools'[job[k].poolId].amount
    BY <1>1, <1>3 DEF Priced
  <2>2. job[k].leaves # <<>> /\ Open(job[k].poolId)' =>
           Worth(job[k].leaves) = pools'[job[k].poolId].amount
    BY <1>1, <1>3 DEF Priced, Worked
  <2> QED BY <2>1, <2>2 DEF Priced, Worked, Worth, SharesOf
<1> QED BY <1>2, <1>4

(* The id a waiting job has read stays above every pool of the server's. *)
LEMMA WaitingJobIsLater ==
    ASSUME RailInv, JobsHold, nonce' \in {nonce, nonce + 1}, \A m \in Jobs : Tame(m),
           NEW k \in Jobs, pc'[k] = pc[k], job'[k] = job[k]
    PROVE  Later(k)'
<1> SUFFICES ASSUME pc[k] = "create", job[k].nonce + 1 = nonce', NEW m \in Jobs
             PROVE  job'[m].madeId < job[k].poolId
  BY DEF Later
<1>1. /\ job[k] \in JobRecords /\ Aims(k) /\ nonce \in Nat /\ nextPoolId \in 1..(MaxPools + 1)
      /\ MaxPools \in Nat
  BY JobFacts
<1>2. job[k].nonce \in Nat /\ job[k].nonce < nonce BY <1>1 DEF Aims, JobRecords
<1>3. job[k].nonce + 1 = nonce BY <1>1, <1>2
<1>4. job[m].madeId < job[k].poolId BY <1>3 DEF JobsHold, Later
<1>5. job[k].poolId \in 1..nextPoolId BY <1>1 DEF Aims
<1>6. 0 < job[k].poolId BY <1>1, <1>5
<1> QED BY <1>4, <1>6 DEF Tame

\* The allocations stand when the responses do.
LEMMA AllocationStands ==
    ASSUME NEW p \in PoolIds, Backed(p), allocations'[p] = allocations[p],
           claimed'[p] = claimed[p], \A k \in Jobs : Kept(k)
    PROVE  Backed(p)'
<1>1. ~allocations'[p].submitted => claimed'[p] = {} BY DEF Backed
<1>2. ASSUME allocations'[p].submitted
      PROVE  \E j \in Jobs : /\ Answers(j, p)'
                             /\ (allocations[p].claimedAmount + OpenWorth(p, job[j].leaves)
                                  = allocations[p].total)'
  <2>1. PICK j \in Jobs : /\ Answers(j, p)
                          /\ allocations[p].claimedAmount + OpenWorth(p, job[j].leaves)
                               = allocations[p].total
    BY <1>2 DEF Backed
  <2>2. job'[j].leaves = job[j].leaves /\ job'[j].poolId = job[j].poolId
    BY <2>1 DEF Answers, Kept
  <2>3. Answers(j, p)' BY <2>1, <2>2 DEF Answers, Leaves, AllocationLeaf
  <2>4. (OpenWorth(p, job[j].leaves))' = OpenWorth(p, job[j].leaves)
    BY <2>2 DEF OpenWorth, OpenShares, SharesOf
  <2>5. (allocations[p].claimedAmount + OpenWorth(p, job[j].leaves) = allocations[p].total)'
    BY <2>1, <2>4
  <2> QED BY <2>3, <2>5
<1> QED BY <1>1, <1>2 DEF Backed

(* All of them stand when no transaction of the claim contract comes in. *)
LEMMA AllocationsStand ==
    ASSUME PoolsBacked, UNCHANGED claimVars, \A k \in Jobs : Kept(k)
    PROVE  PoolsBacked'
<1>1. \A p \in PoolIds : Backed(p)' BY AllocationStands DEF PoolsBacked, claimVars
<1> QED BY <1>1 DEF PoolsBacked, PoolIds

-----------------------------------------------------------------------------
\* What the contracts do to the pools: a pool that is paid out is not open.
LEMMA DistributeSettles ==
    ASSUME MoneyInv, NEW p \in PoolIds, NEW sender, NEW to,
           DistributeToClaimContract(sender, p, to)
    PROVE  PoolsSettle /\ Open(p) /\ UNCHANGED nextPoolId
<1> DEFINE r == [pools[p] EXCEPT !.distributed = TRUE, !.amount = 0]
<1>1. pools' = [pools EXCEPT ![p] = r] /\ r \in PoolRecords BY DistributedPool
<1>2. Open(p) /\ UNCHANGED nextPoolId BY DEF DistributeToClaimContract, Open
<1>3. pools[p] \in PoolRecords BY <1>2, HeldIsNat DEF MoneyInv, Open
<1>4. r.distributed = TRUE BY <1>3 DEF PoolRecords
<1> HIDE DEF r
<1>5. pools'[p].distributed /\ \A q \in PoolIds : q # p => pools'[q] = pools[q]
  BY <1>1, <1>4 DEF MoneyInv, PoolsTyped
<1>6. \A q \in PoolIds : Open(q)' => Open(q) /\ pools'[q].amount = pools[q].amount
  <2> SUFFICES ASSUME NEW q \in PoolIds, Open(q)'
               PROVE  Open(q) /\ pools'[q].amount = pools[q].amount
    OBVIOUS
  <2>1. q # p BY <1>5 DEF Open
  <2> QED BY <1>5, <2>1 DEF Open, Exists
<1> QED BY <1>2, <1>6 DEF PoolsSettle

(* Nor is one that its company took back. *)
LEMMA WithdrawSettles ==
    ASSUME MoneyInv, NEW p \in PoolIds, NEW company, WithdrawPool(company, p)
    PROVE  PoolsSettle
<1> DEFINE r == [pools[p] EXCEPT !.withdrawn = TRUE, !.amount = 0]
<1>1. Exists(p) /\ UNCHANGED nextPoolId BY DEF WithdrawPool
<1>2. pools[p] \in PoolRecords /\ PoolsTyped BY <1>1, HeldIsNat DEF MoneyInv
<1>3. pools' = [pools EXCEPT ![p] = r] BY <1>2 DEF WithdrawPool, PoolsTyped, PoolRecords
<1>4. r.withdrawn = TRUE BY <1>2 DEF PoolRecords
<1> HIDE DEF r
<1>5. pools'[p].withdrawn /\ \A q \in PoolIds : q # p => pools'[q] = pools[q]
  BY <1>2, <1>3, <1>4 DEF PoolsTyped
<1>6. \A q \in PoolIds : Open(q)' => Open(q) /\ pools'[q].amount = pools[q].amount
  <2> SUFFICES ASSUME NEW q \in PoolIds, Open(q)'
               PROVE  Open(q) /\ pools'[q].amount = pools[q].amount
    OBVIOUS
  <2>1. q # p BY <1>5 DEF Open
  <2> QED BY <1>5, <2>1 DEF Open, Exists
<1> QED BY <1>1, <1>6 DEF PoolsSettle

(* A new pool leaves the others as they are. *)
LEMMA CreateSettles ==
    ASSUME MoneyInv, NEW company, NEW root, NEW amount, NEW granted,
           CreatePool(company, root, amount, granted)
    PROVE  PoolsSettle
<1>1. pools \in [PoolIds -> PoolRecords \cup {NoPool}] BY DEF MoneyInv, PoolsTyped
<1>2. nextPoolId \in PoolIds /\ nextPoolId' = nextPoolId + 1 BY DEF CreatePool
<1>3. \A q \in PoolIds : q # nextPoolId => pools'[q] = pools[q] BY <1>1 DEF CreatePool
<1>4. \A q \in PoolIds : q < nextPoolId => pools'[q] = pools[q] BY <1>2, <1>3 DEF PoolIds
<1> QED BY <1>2, <1>4 DEF PoolsSettle, Open, Exists

\* Where a job goes, the others stay.
LEMMA JobGoes ==
    ASSUME JobsTyped, NEW j \in Jobs, NEW label, NEW x, Goto(j, label, x)
    PROVE  /\ pc'[j] = label /\ job'[j] = x
           /\ \A k \in Jobs : k # j => pc'[k] = pc[k] /\ job'[k] = job[k]
BY DEF JobsTyped, Goto

(* A step of job j keeps the shares if it keeps those of job j and of the claim contract. *)
LEMMA JobStepShares ==
    ASSUME RailInv, ShareInv, NEW j \in Jobs,
           \A k \in Jobs : k # j => pc'[k] = pc[k] /\ job'[k] = job[k],
           PoolsSettle, nonce' \in {nonce, nonce + 1},
           Tame(j), Holds(j)', Priced(j)', Later(j)', PoolsBacked'
    PROVE  ShareInv'
<1>1. Apart /\ JobsHold BY DEF ShareInv
<1>2. \A k \in Jobs : Tame(k)
  <2> SUFFICES ASSUME NEW k \in Jobs, k # j PROVE Tame(k) OBVIOUS
  <2> QED BY DEF Tame, Kept
<1>3. Apart' BY <1>1, <1>2, ApartStands
<1>4. ASSUME NEW k \in Jobs, k # j PROVE Holds(k)' /\ Priced(k)' /\ Later(k)'
  <2>1. pc'[k] = pc[k] /\ job'[k] = job[k] BY <1>4
  <2>2. Holds(k)' /\ Priced(k)' BY <1>1, <2>1, WaitingJobHolds
  <2>3. Later(k)' BY <1>1, <1>2, <2>1, WaitingJobIsLater
  <2> QED BY <2>2, <2>3
<1>5. \A k \in Jobs : Holds(k)' /\ Priced(k)' /\ Later(k)'
  <2> SUFFICES ASSUME NEW k \in Jobs PROVE Holds(k)' /\ Priced(k)' /\ Later(k)' OBVIOUS
  <2>1. CASE k = j BY <2>1
  <2>2. CASE k # j BY <1>4, <2>2
  <2> QED BY <2>1, <2>2
<1>6. JobsHold' BY <1>5 DEF JobsHold
<1> QED BY <1>3, <1>6 DEF ShareInv

(* The same for a step that leaves the chain alone. *)
LEMMA QuietStepShares ==
    ASSUME RailInv, ShareInv, NEW j \in Jobs, NEW label, NEW x, Goto(j, label, x),
           UNCHANGED <<nonce, poolVars, claimVars>> \/ (nonce' = nonce + 1 /\ UNCHANGED <<poolVars, claimVars>>),
           Tame(j), Holds(j)', Priced(j)', Later(j)'
    PROVE  ShareInv'
<1>1. JobsTyped /\ Apart /\ JobsHold /\ PoolsBacked BY DEF RailInv, ShareInv
<1>2. \A k \in Jobs : k # j => pc'[k] = pc[k] /\ job'[k] = job[k] BY <1>1, JobGoes
<1>3. PoolsSettle BY DEF PoolsSettle, poolVars, Open, Exists
<1>4. \A k \in Jobs : Tame(k)
  <2> SUFFICES ASSUME NEW k \in Jobs, k # j PROVE Tame(k) OBVIOUS
  <2> QED BY <1>2 DEF Tame, Kept
<1>7. \A k \in Jobs : Kept(k) BY <1>4 DEF Tame
<1>5. UNCHANGED claimVars /\ nonce' \in {nonce, nonce + 1} OBVIOUS
<1>6. PoolsBacked' BY <1>1, <1>5, <1>7, AllocationsStand
<1> QED BY <1>2, <1>3, <1>5, <1>6, JobStepShares

(* A step of nobody's job keeps the shares, if the pools settle. *)
LEMMA OtherStepShares ==
    ASSUME RailInv, ShareInv, UNCHANGED jobVars, PoolsSettle, nonce' \in {nonce, nonce + 1},
           PoolsBacked'
    PROVE  ShareInv'
<1>1. Apart /\ JobsHold BY DEF ShareInv
<1>2. pc' = pc /\ job' = job BY DEF jobVars
<1>3. \A k \in Jobs : Tame(k) BY <1>2 DEF Tame, Kept
<1>4. Apart' BY <1>1, <1>3, ApartStands
<1>5. ASSUME NEW k \in Jobs PROVE Holds(k)' /\ Priced(k)' /\ Later(k)'
  <2>1. pc'[k] = pc[k] /\ job'[k] = job[k] BY <1>2
  <2>2. Holds(k)' /\ Priced(k)' BY <1>1, <2>1, WaitingJobHolds
  <2>3. Later(k)' BY <1>1, <1>3, <2>1, WaitingJobIsLater
  <2> QED BY <2>2, <2>3
<1>6. JobsHold' BY <1>5 DEF JobsHold
<1> QED BY <1>4, <1>6 DEF ShareInv

(* A job that begins has no response. *)
LEMMA BeginShares == ASSUME RailInv, ShareInv, NEW j \in Jobs, Begin(j) PROVE ShareInv'
<1>1. PICK corpus \in Corpora, amount \in Amounts :
         Goto(j, "approve", [NoJob EXCEPT !.corpus = corpus, !.amount = amount, !.nonce = nonce])
  BY DEF Begin
<1> DEFINE x == [NoJob EXCEPT !.corpus = corpus, !.amount = amount, !.nonce = nonce]
<1>2. JobsTyped BY DEF RailInv
<1>3. x.leaves = <<>> /\ x.madeId = 0 BY DEF NoJob
<1> HIDE DEF x
<1>4. Goto(j, "approve", x) BY <1>1 DEF x
<1>5. pc'[j] = "approve" /\ job'[j] = x BY <1>2, <1>4, JobGoes
<1>6. job[j].leaves = <<>> BY DEF Begin, At, ShareInv, JobsHold, Holds
<1>7. Tame(j) BY <1>3, <1>5, <1>6 DEF Tame, Kept
<1>8. Holds(j)' /\ Priced(j)' /\ Later(j)' BY <1>3, <1>5 DEF Holds, Priced, Worked, Later
<1>9. UNCHANGED <<nonce, poolVars, claimVars>> BY DEF Begin
<1> QED BY <1>4, <1>7, <1>8, <1>9, QuietStepShares

(* Nor has one that approves. *)
LEMMA ApproveShares == ASSUME RailInv, ShareInv, NEW j \in Jobs, Approve(j) PROVE ShareInv'
<1> DEFINE x == job[j]
<1>1. /\ pc[j] = "approve" /\ Goto(j, "readId", x) /\ nonce' = nonce + 1
      /\ UNCHANGED <<poolVars, claimVars>>
  BY DEF Approve, At
<1>2. x.leaves = <<>> /\ JobsTyped BY <1>1, JobFacts DEF Fits, RailInv
<1> HIDE DEF x
<1>3. pc'[j] = "readId" /\ job'[j] = x BY <1>1, <1>2, JobGoes
<1>4. Tame(j) BY <1>3 DEF Tame, Kept, x
<1>5. Holds(j)' /\ Priced(j)' /\ Later(j)' BY <1>2, <1>3 DEF Holds, Priced, Worked, Later
<1> QED BY <1>1, <1>4, <1>5, QuietStepShares

(* The id a job reads is above those of all pools, its own to be among them. *)
LEMMA ReadPoolIdShares == ASSUME RailInv, ShareInv, NEW j \in Jobs, ReadPoolId(j) PROVE ShareInv'
<1> DEFINE x == [job[j] EXCEPT !.poolId = nextPoolId]
<1>1. /\ pc[j] = "readId" /\ Goto(j, "create", x)
      /\ UNCHANGED <<nonce, poolVars, claimVars>>
  BY DEF ReadPoolId, At
<1>2. /\ job[j] \in JobRecords /\ job[j].leaves = <<>> /\ job[j].madeId = 0 /\ JobsTyped
  BY <1>1, JobFacts DEF Fits, RailInv
<1>3. x.leaves = <<>> /\ x.madeId = 0 /\ x.poolId = nextPoolId BY <1>2 DEF JobRecords
<1> HIDE DEF x
<1>4. /\ pc'[j] = "create" /\ job'[j] = x
      /\ \A k \in Jobs : k # j => pc'[k] = pc[k] /\ job'[k] = job[k]
  BY <1>1, <1>2, JobGoes
<1>5. Tame(j) BY <1>2, <1>3, <1>4 DEF Tame, Kept
<1>6. Holds(j)' /\ Priced(j)' BY <1>3, <1>4 DEF Holds, Priced, Worked
<1>7. \A k \in Jobs : job'[k].madeId < nextPoolId
  <2> SUFFICES ASSUME NEW k \in Jobs PROVE job'[k].madeId < nextPoolId OBVIOUS
  <2>1. /\ Aims(k) /\ nextPoolId \in 1..(MaxPools + 1) /\ MaxPools \in Nat BY JobFacts
  <2>2. job'[k].madeId = job[k].madeId BY <1>2, <1>3, <1>4
  <2>3. CASE job[k].madeId = 0 BY <2>1, <2>2, <2>3
  <2>4. CASE job[k].madeId # 0 BY <2>1, <2>2, <2>4 DEF Aims
  <2> QED BY <2>3, <2>4
<1>8. Later(j)' BY <1>3, <1>4, <1>7 DEF Later
<1> QED BY <1>1, <1>5, <1>6, <1>8, QuietStepShares

\* The pool a job makes is no other job's: nobody else of the server made one
\* since it read the id.
LEMMA CreateShares == ASSUME RailInv, ShareInv, NEW j \in Jobs, Create(j) PROVE ShareInv'
<1> DEFINE x == [job[j] EXCEPT !.madeId = nextPoolId]
<1>1. /\ pc[j] = "create" /\ job[j].nonce + 1 = nonce /\ nonce' = nonce + 1
      /\ Goto(j, "ingest", x) /\ UNCHANGED claimVars
      /\ CreatePool(Company, CorpusRoot(job[j].corpus), job[j].amount, allowance)
  BY DEF Create, At
<1>2. /\ job[j] \in JobRecords /\ job[j].leaves = <<>> /\ job[j].madeId = 0 /\ JobsTyped
      /\ nonce \in Nat /\ nextPoolId \in 1..(MaxPools + 1) /\ MaxPools \in Nat
  BY <1>1, JobFacts DEF Fits, RailInv
<1>3. x.leaves = <<>> /\ x.madeId = nextPoolId /\ x.poolId = job[j].poolId
  BY <1>2 DEF JobRecords
<1> HIDE DEF x
<1>4. /\ pc'[j] = "ingest" /\ job'[j] = x
      /\ \A k \in Jobs : k # j => pc'[k] = pc[k] /\ job'[k] = job[k]
  BY <1>1, <1>2, JobGoes
<1>5. Apart /\ JobsHold /\ PoolsBacked BY DEF ShareInv
<1>6. PoolsSettle BY <1>1, CreateSettles DEF RailInv
<1>7. \A k \in Jobs : k # j => Tame(k) BY <1>4 DEF Tame, Kept
<1>8. ASSUME NEW k \in Jobs, k # j, job[k].madeId # 0 PROVE job[k].poolId # job[j].poolId
  <2>1. job[k].madeId < job[j].poolId BY <1>1, <1>5 DEF JobsHold, Later
  <2>2. Aims(k) /\ job[k] \in JobRecords BY JobFacts
  <2>3. job[k].poolId \in 1..job[k].madeId /\ job[k].madeId \in Nat
    BY <1>8, <2>2 DEF Aims, JobRecords
  <2>4. job[j].poolId \in Int BY <1>2 DEF JobRecords
  <2> QED BY <2>1, <2>3, <2>4
<1>9. Apart'
  <2> SUFFICES ASSUME NEW i \in Jobs, NEW k \in Jobs, i # k,
                      job'[i].madeId # 0, job'[k].madeId # 0
               PROVE  job'[i].poolId # job'[k].poolId
    BY DEF Apart
  <2>1. CASE i = j BY <1>3, <1>4, <1>8, <2>1
  <2>2. CASE k = j BY <1>3, <1>4, <1>8, <2>2
  <2>3. CASE i # j /\ k # j BY <1>4, <1>5, <2>3 DEF Apart
  <2> QED BY <2>1, <2>2, <2>3
<1>10. ASSUME NEW k \in Jobs PROVE Holds(k)' /\ Priced(k)' /\ Later(k)'
  <2>1. Later(k)'
    <3>1. CASE k = j BY <1>4, <3>1 DEF Later
    <3>2. CASE k # j
      <4>1. pc'[k] = pc[k] /\ job'[k] = job[k] BY <1>4, <3>2
      <4>2. Aims(k) /\ job[k] \in JobRecords BY JobFacts
      <4>3. pc[k] = "create" => job[k].nonce \in Nat /\ job[k].nonce < nonce
        BY <4>2 DEF Aims, JobRecords
      <4>4. pc[k] = "create" => job[k].nonce + 1 # nonce' BY <1>1, <1>2, <4>3
      <4> QED BY <4>1, <4>4 DEF Later
    <3> QED BY <3>1, <3>2
  <2>2. Holds(k)' /\ Priced(k)'
    <3>1. CASE k = j
      <4>1. x.madeId # 0 BY <1>2, <1>3
      <4> QED BY <1>3, <1>4, <3>1, <4>1 DEF Holds, Priced, Worked
    <3>2. CASE k # j
      <4>1. pc'[k] = pc[k] /\ job'[k] = job[k] BY <1>4, <3>2
      <4> QED BY <1>5, <1>6, <4>1, WaitingJobHolds
    <3> QED BY <3>1, <3>2
  <2> QED BY <2>1, <2>2
<1>11. JobsHold' BY <1>10 DEF JobsHold
<1>12. PoolsBacked'
  <2>1. \A k \in Jobs : Kept(k) BY <1>2, <1>4 DEF Kept
  <2> QED BY <1>1, <1>5, <2>1, AllocationsStand
<1> QED BY <1>9, <1>11, <1>12 DEF ShareInv

(* The pool a job reads has the amount it has, while it is open. *)
LEMMA ReadPoolShares == ASSUME RailInv, ShareInv, NEW j \in Jobs, ReadPool(j) PROVE ShareInv'
<1> DEFINE q == job[j].poolId
           x == [job[j] EXCEPT !.pool = pools[q]]
<1>1. /\ pc[j] = "ingest" /\ Goto(j, "attest", x)
      /\ UNCHANGED <<nonce, poolVars, claimVars>>
  BY DEF ReadPool, At
<1>2. /\ job[j] \in JobRecords /\ job[j].leaves = <<>> /\ JobsTyped
  BY <1>1, JobFacts DEF Fits, RailInv
<1>3. job[j].madeId # 0 BY <1>1 DEF ShareInv, JobsHold, Holds
<1>4. /\ x.leaves = <<>> /\ x.madeId = job[j].madeId /\ x.poolId = q /\ x.pool = pools[q]
  BY <1>2 DEF JobRecords
<1> HIDE DEF x
<1>5. pc'[j] = "attest" /\ job'[j] = x BY <1>1, <1>2, JobGoes
<1>6. Tame(j) BY <1>2, <1>4, <1>5 DEF Tame, Kept
<1>7. pools' = pools BY <1>1 DEF poolVars
<1>8. Holds(j)' /\ Later(j)' BY <1>3, <1>4, <1>5 DEF Holds, Later
<1>9. Priced(j)' BY <1>4, <1>5, <1>7 DEF Priced, Worked
<1> QED BY <1>1, <1>6, <1>8, <1>9, QuietStepShares

(* The response is worth what the job's pool holds, while it is open. *)
LEMMA AttestShares == ASSUME RailInv, ShareInv, NEW j \in Jobs, Attest(j) PROVE ShareInv'
<1> DEFINE corpus == job[j].corpus
           amount == job[j].pool.amount
           shares == Allocate(corpus, amount)
           x == [job[j] EXCEPT !.leaves = shares]
<1>1. /\ pc[j] = "attest" /\ Goto(j, "submit", x)
      /\ \A i \in DOMAIN corpus : tracks[corpus[i]] # Nobody
      /\ UNCHANGED <<nonce, poolVars, claimVars>>
  BY DEF Attest, At
<1>2. /\ job[j] \in JobRecords /\ job[j].leaves = <<>> /\ JobsTyped
      /\ tracks \in [Fingerprints -> Artists \cup {Nobody}]
      /\ corpus \in Corpora /\ job[j].pool \in PoolRecords
  BY <1>1, JobFacts DEF Fits, RailInv, WalletTyped
<1>3. job[j].madeId # 0 /\ Priced(j) BY <1>1 DEF ShareInv, JobsHold, Holds
<1>4. /\ x.leaves = shares /\ x.madeId = job[j].madeId /\ x.poolId = job[j].poolId
  BY <1>2 DEF JobRecords
<1>5. Licensed(corpus)
  <2>1. corpus \in Seq(Fingerprints) /\ corpus # <<>> BY <1>2, RailAssumption
  <2>2. \A i \in DOMAIN corpus : corpus[i] \in Fingerprints BY <2>1
  <2>3. \A i \in DOMAIN corpus : tracks[corpus[i]] \in Artists BY <1>1, <1>2, <2>2
  <2> QED BY <2>1, <2>3 DEF Licensed
<1>6. Response(shares) /\ Worth(shares) = amount
  <2>1. amount \in Nat BY <1>2 DEF PoolRecords
  <2> HIDE DEF corpus, amount
  <2> QED BY <1>5, <2>1, AllocationIsResponse
<1>7. shares # <<>> BY <1>6 DEF Response
<1> HIDE DEF x, shares, amount, corpus
<1>8. pc'[j] = "submit" /\ job'[j] = x BY <1>1, <1>2, JobGoes
<1>9. Tame(j) BY <1>2, <1>4, <1>8 DEF Tame, Kept
<1>10. pools' = pools BY <1>1 DEF poolVars
<1>11. Holds(j)'
  <2>1. Response(job'[j].leaves) BY <1>4, <1>6, <1>8
  <2> QED BY <1>3, <1>4, <1>7, <1>8, <2>1 DEF Holds, Response
<1>12. Priced(j)'
  <2>1. Open(job[j].poolId) => Worth(job'[j].leaves) = pools[job[j].poolId].amount
    BY <1>1, <1>3, <1>4, <1>6, <1>8 DEF Priced, amount
  <2> QED BY <1>4, <1>8, <1>10, <2>1 DEF Priced, Worked, Open, Exists, Worth, SharesOf
<1>13. Later(j)' BY <1>8 DEF Later
<1> QED BY <1>1, <1>9, <1>11, <1>12, <1>13, QuietStepShares

(* A job that fails keeps a response it has, and nothing else. *)
LEMMA FailShares == ASSUME RailInv, ShareInv, NEW j \in Jobs, Fail(j) PROVE ShareInv'
<1> DEFINE kept == [job[j] EXCEPT !.nonce = 0, !.paid = 0]
           x == IF job[j].leaves = <<>> THEN NoJob ELSE kept
<1>1. Goto(j, "error", x) /\ UNCHANGED <<nonce, poolVars, claimVars>> BY DEF Fail
<1>2. job[j] \in JobRecords /\ JobsTyped BY JobFacts DEF RailInv
<1>3. /\ kept.poolId = job[j].poolId /\ kept.madeId = job[j].madeId
      /\ kept.leaves = job[j].leaves
  BY <1>2 DEF JobRecords
<1>4. Holds(j) /\ Priced(j) BY DEF ShareInv, JobsHold
<1> HIDE DEF kept
<1>5. pc'[j] = "error" /\ job'[j] = x
  <2> HIDE DEF x
  <2> QED BY <1>1, <1>2, JobGoes
<1>6. pools' = pools BY <1>1 DEF poolVars
<1>7. CASE job[j].leaves = <<>>
  <2>1. job'[j] = NoJob /\ NoJob.leaves = <<>> /\ NoJob.madeId = 0 BY <1>5, <1>7, NoJobIsEmpty
  <2>2. Tame(j) BY <1>7, <2>1 DEF Tame, Kept
  <2>3. Holds(j)' /\ Priced(j)' /\ Later(j)' BY <1>5, <2>1 DEF Holds, Priced, Worked, Later
  <2> HIDE DEF x
  <2> QED BY <1>1, <2>2, <2>3, QuietStepShares
<1>8. CASE job[j].leaves # <<>>
  <2>1. /\ job'[j].leaves = job[j].leaves /\ job'[j].madeId = job[j].madeId
        /\ job'[j].poolId = job[j].poolId
    BY <1>3, <1>5, <1>8
  <2>2. Tame(j) BY <2>1 DEF Tame, Kept
  <2>3. Response(job[j].leaves) /\ job[j].madeId # 0 BY <1>4, <1>8 DEF Holds
  <2>4. Holds(j)' BY <1>5, <2>1, <2>3 DEF Holds, Response
  <2>5. Open(job[j].poolId) => Worth(job[j].leaves) = pools[job[j].poolId].amount
    BY <1>4, <1>8 DEF Priced, Worked
  <2>6. Priced(j)' BY <1>5, <1>6, <2>1, <2>5 DEF Priced, Worked, Open, Exists, Worth, SharesOf
  <2>7. Later(j)' BY <1>5 DEF Later
  <2> HIDE DEF x
  <2> QED BY <1>1, <2>2, <2>4, <2>6, <2>7, QuietStepShares
<1> QED BY <1>7, <1>8


(* What is open of a response nobody has claimed from is its worth. *)
LEMMA NothingClaimed ==
    ASSUME NEW p, NEW s, claimed[p] = {}
    PROVE  OpenWorth(p, s) = Worth(s)
<1>1. OpenShares(p, s) = DOMAIN s BY DEF OpenShares
<1> QED BY <1>1 DEF OpenWorth, Worth

\* The allocation that is submitted is the job's response, all of it open, and
\* its total is what the pool held.
LEMMA SubmitBacks ==
    ASSUME RailInv, ShareInv, NEW j \in Jobs, NEW p \in PoolIds, p = job[j].poolId,
           job[j].leaves # <<>>, UNCHANGED <<pc, job>> \/ job'[j] = job[j],
           \A k \in Jobs : Kept(k),
           SubmitAllocation(Ingestor, p, Root(Leaves(job[j].leaves)))
    PROVE  PoolsBacked'
<1> DEFINE s == job[j].leaves
           root == Root(Leaves(s))
           a == [submitted |-> TRUE, root |-> root, total |-> pools[p].amount, claimedAmount |-> 0]
<1>1. /\ ~allocations[p].submitted /\ UNCHANGED claimed
      /\ allocations' = [allocations EXCEPT ![p] = a]
      /\ DistributeToClaimContract(ClaimContract, p, ClaimContract)
  BY DEF SubmitAllocation
<1>2. a.submitted = TRUE /\ a.root = root /\ a.total = pools[p].amount /\ a.claimedAmount = 0
  OBVIOUS
<1> HIDE DEF a
<1>3. MoneyInv /\ PoolsBacked /\ Priced(j) BY DEF RailInv, ShareInv, JobsHold
<1>4. Open(p) BY <1>1, <1>3, DistributeSettles
<1>5. Worth(s) = pools[p].amount BY <1>3, <1>4 DEF Priced, Worked
<1>6. claimed[p] = {} BY <1>1, <1>3 DEF PoolsBacked, Backed
<1>7. allocations'[p] = a /\ \A q \in PoolIds : q # p => allocations'[q] = allocations[q]
  BY <1>1, <1>3 DEF MoneyInv, AllocationsTyped
<1>8. job'[j].leaves = s /\ job'[j].poolId = p BY DEF Kept
<1>9. Worth(s) \in Nat
  <2>1. pools[p] \in PoolRecords BY <1>3, <1>4, HeldIsNat DEF MoneyInv, Open
  <2>2. pools[p].amount \in Nat BY <2>1 DEF PoolRecords
  <2> QED BY <1>5, <2>2
<1>10. Backed(p)'
  <2>1. (OpenWorth(p, job[j].leaves))' = Worth(s)
    <3>1. OpenWorth(p, s) = Worth(s) BY <1>6, NothingClaimed
    <3>2. claimed' = claimed BY <1>1
    <3> HIDE DEF s
    <3> QED BY <1>8, <3>1, <3>2 DEF OpenWorth, OpenShares, SharesOf
  <2>2. (allocations[p].claimedAmount + OpenWorth(p, job[j].leaves) = allocations[p].total)'
    BY <1>2, <1>5, <1>7, <1>9, <2>1
  <2>3. Answers(j, p)' BY <1>2, <1>7, <1>8 DEF Answers, Leaves, AllocationLeaf
  <2>4. allocations'[p].submitted BY <1>2, <1>7
  <2> QED BY <2>2, <2>3, <2>4 DEF Backed
<1>11. ASSUME NEW q \in PoolIds, q # p PROVE Backed(q)'
  <2>1. Backed(q) /\ allocations'[q] = allocations[q] /\ claimed'[q] = claimed[q]
    BY <1>1, <1>3, <1>7, <1>11 DEF PoolsBacked
  <2> QED BY <2>1, AllocationStands
<1>12. \A q \in PoolIds : Backed(q)'
  <2> SUFFICES ASSUME NEW q \in PoolIds PROVE Backed(q)' OBVIOUS
  <2>1. CASE q = p BY <1>10, <2>1
  <2>2. CASE q # p BY <1>11, <2>2
  <2> QED BY <2>1, <2>2
<1> QED BY <1>12 DEF PoolsBacked, PoolIds

(* Submitting books the response of a job. *)
LEMMA SubmitShares == ASSUME RailInv, ShareInv, NEW j \in Jobs, Submit(j) PROVE ShareInv'
<1> DEFINE x == job[j]
           p == job[j].poolId
<1>1. /\ pc[j] = "submit" /\ Goto(j, "claim", x) /\ UNCHANGED nonce
      /\ SubmitAllocation(Ingestor, p, Root(Leaves(job[j].leaves)))
  BY DEF Submit, At
<1>2. /\ p \in PoolIds /\ JobsTyped /\ MoneyInv
  BY <1>1, JobFacts DEF Fits, RailInv
<1>3. /\ pc'[j] = "claim" /\ job'[j] = x
      /\ \A k \in Jobs : k # j => pc'[k] = pc[k] /\ job'[k] = job[k]
  <2> HIDE DEF x
  <2> QED BY <1>1, <1>2, JobGoes
<1>4. Holds(j) BY DEF ShareInv, JobsHold
<1>5. job[j].leaves # <<>> /\ job[j].madeId # 0 /\ Response(job[j].leaves) BY <1>1, <1>4 DEF Holds
<1>6. \A k \in Jobs : Kept(k) BY <1>3 DEF Kept
<1>7. PoolsBacked' BY <1>1, <1>2, <1>3, <1>5, <1>6, SubmitBacks
<1>8. PoolsSettle
  <2>1. DistributeToClaimContract(ClaimContract, p, ClaimContract) BY <1>1 DEF SubmitAllocation
  <2> QED BY <1>2, <2>1, DistributeSettles
<1>9. Tame(j) BY <1>3 DEF Tame, Kept
<1>10. Holds(j)' BY <1>3, <1>5 DEF Holds, Response
<1>11. Later(j)' BY <1>3 DEF Later
<1>12. Priced(j)'
  <2>1. ~Open(job[j].poolId)'
    <3>1. DistributeToClaimContract(ClaimContract, p, ClaimContract) BY <1>1 DEF SubmitAllocation
    <3> DEFINE r == [pools[p] EXCEPT !.distributed = TRUE, !.amount = 0]
    <3>2. Exists(p) /\ pools' = [pools EXCEPT ![p] = r] BY <1>2, <3>1, DistributedPool
    <3>3. pools[p] \in PoolRecords BY <1>2, <3>2, HeldIsNat DEF MoneyInv
    <3>4. r.distributed = TRUE BY <3>3 DEF PoolRecords
    <3> HIDE DEF r
    <3>5. pools'[p].distributed BY <1>2, <3>2, <3>4 DEF MoneyInv, PoolsTyped
    <3>6. job'[j].poolId = p BY <1>3
    <3> QED BY <3>5, <3>6 DEF Open
  <2> QED BY <1>3, <2>1 DEF Priced, Worked
<1>13. nonce' \in {nonce, nonce + 1} BY <1>1
<1> QED BY <1>3, <1>7, <1>8, <1>9, <1>10, <1>11, <1>12, <1>13, JobStepShares

-----------------------------------------------------------------------------
\* The job whose response an allocation is: pools of different jobs are apart.
LEMMA OneAnswers ==
    ASSUME ShareInv, NEW p, NEW i \in Jobs, NEW k \in Jobs,
           job[i].poolId = p, job[i].leaves # <<>>, job[k].poolId = p, job[k].leaves # <<>>
    PROVE  i = k
<1>1. job[i].madeId # 0 /\ job[k].madeId # 0 BY DEF ShareInv, JobsHold, Holds
<1> QED BY <1>1 DEF ShareInv, Apart

(* The shares of a response are numbers, and there are finitely many. *)
LEMMA SharesAreNat ==
    ASSUME NEW s, Response(s)
    PROVE  /\ IsFiniteSet(DOMAIN s) /\ DOMAIN s = 1..Len(s) /\ Len(s) \in Nat
           /\ \A k \in DOMAIN s : SharesOf(s)[k] = s[k][2] /\ s[k][2] \in Nat /\ s[k][1] \in Artists
<1>1. s \in Seq(Artists \X Nat) BY DEF Response
<1>2. DOMAIN s = 1..Len(s) /\ Len(s) \in Nat BY <1>1
<1> DEFINE n == Len(s)
<1>3. n \in Nat /\ DOMAIN s = 1..n BY <1>2
<1>4. IsFiniteSet(DOMAIN s)
  <2> HIDE DEF n
  <2> QED BY <1>3, FS_Interval
<1>5. \A k \in DOMAIN s : s[k] \in Artists \X Nat BY <1>1
<1> QED BY <1>2, <1>4, <1>5 DEF SharesOf

\* A claim takes one share out of what is open: the artist has no other.
LEMMA ClaimTakesOne ==
    ASSUME NEW s, Response(s), NEW k \in DOMAIN s, NEW p, s[k][1] \notin claimed[p],
           claimed'[p] = claimed[p] \cup {s[k][1]}
    PROVE  /\ OpenWorth(p, s) \in Nat /\ (OpenWorth(p, s))' \in Nat
           /\ OpenWorth(p, s) = s[k][2] + (OpenWorth(p, s))'
<1>1. /\ IsFiniteSet(DOMAIN s)
      /\ \A i \in DOMAIN s : SharesOf(s)[i] = s[i][2] /\ s[i][2] \in Nat
  BY SharesAreNat
<1> DEFINE f == SharesOf(s)
           S == OpenShares(p, s)
<1>2. S \in SUBSET (DOMAIN s) /\ k \in S BY DEF OpenShares
<1>3. IsFiniteSet(S)
  <2> HIDE DEF S
  <2> QED BY <1>1, <1>2, FS_Subset
<1>4. (OpenShares(p, s))' = S \ {k} BY DEF OpenShares, Response
<1>5. \A x \in S : f[x] \in Nat BY <1>1, <1>2
<1>6. \A x \in S : f[x] \in Int BY <1>5
<1>7. (OpenWorth(p, s))' = SumFunctionOnSet(f, S \ {k})
  BY <1>4 DEF OpenWorth, SharesOf
<1>8. f[k] = s[k][2] BY <1>1
<1>9. OpenWorth(p, s) = SumFunctionOnSet(f, S) BY DEF OpenWorth
<1> HIDE DEF f, S
<1>10. SumFunctionOnSet(f, S) = f[k] + SumFunctionOnSet(f, S \ {k}) BY <1>2, <1>3, <1>6, SumRemove
<1>11. SumFunctionOnSet(f, S) \in Nat BY <1>3, <1>5, SumIsNat
<1>12. SumFunctionOnSet(f, S \ {k}) \in Nat
  <2>1. IsFiniteSet(S \ {k}) /\ \A x \in S \ {k} : f[x] \in Nat BY <1>3, <1>5, FS_Subset
  <2> QED BY <2>1, SumIsNat
<1> QED BY <1>7, <1>8, <1>9, <1>10, <1>11, <1>12

\* A claim moves one share from what is open to what was claimed.
LEMMA ClaimBacks ==
    ASSUME RailInv, ShareInv, NEW j \in Jobs, NEW k \in DOMAIN job[j].leaves,
           ClaimShare(j, k), \A i \in Jobs : Kept(i)
    PROVE  PoolsBacked'
<1>0. PICK s : s = job[j].leaves OBVIOUS
<1> DEFINE artist == s[k][1]
           amount == s[k][2]
           a(p) == [allocations[p] EXCEPT !.claimedAmount = @ + amount]
<1>1. PICK p : p = job[j].poolId OBVIOUS
<1>2. /\ allocations[p].submitted /\ artist \notin claimed[p]
      /\ claimed' = [claimed EXCEPT ![p] = @ \cup {artist}]
      /\ allocations' = [allocations EXCEPT ![p] = a(p)]
  BY <1>0, <1>1 DEF ClaimShare, Claim
<1>3. AllocationsTyped /\ PoolsBacked BY DEF RailInv, MoneyInv, ShareInv
<1>4. s # <<>> /\ k \in DOMAIN s BY <1>0
<1>5. p \in PoolIds /\ Response(s)
  <2>1. Fits(pc[j], job[j]) BY JobFacts
  <2> QED BY <1>0, <1>1, <1>4, <2>1 DEF Fits, ShareInv, JobsHold, Holds
<1>6. amount \in Nat BY <1>4, <1>5, SharesAreNat
<1>7. allocations[p] \in AllocationRecords
  BY <1>2, <1>3, <1>5, AllocationKinds DEF AllocationsTyped
<1>8. /\ a(p).submitted = allocations[p].submitted /\ a(p).root = allocations[p].root
      /\ a(p).total = allocations[p].total
      /\ a(p).claimedAmount = allocations[p].claimedAmount + amount
      /\ allocations[p].claimedAmount \in Nat
  BY <1>7 DEF AllocationRecords
<1>9. /\ allocations'[p] = a(p) /\ claimed'[p] = claimed[p] \cup {artist}
      /\ \A q \in PoolIds : q # p => allocations'[q] = allocations[q] /\ claimed'[q] = claimed[q]
  BY <1>2, <1>3, <1>5 DEF AllocationsTyped
<1> HIDE DEF a
<1>10. PICK i \in Jobs : /\ Answers(i, p)
                         /\ allocations[p].claimedAmount + OpenWorth(p, job[i].leaves)
                              = allocations[p].total
  BY <1>2, <1>3, <1>5 DEF PoolsBacked, Backed
<1>11. i = j BY <1>0, <1>1, <1>4, <1>10, OneAnswers DEF Answers
<1>12. job'[j].leaves = s /\ job'[j].poolId = p BY <1>0, <1>1, <1>4 DEF Kept
<1>13. Backed(p)'
  <2>1. Answers(j, p)' BY <1>8, <1>9, <1>10, <1>11, <1>12, <1>0 DEF Answers, Leaves, AllocationLeaf
  <2>2. OpenWorth(p, s) \in Nat /\ (OpenWorth(p, s))' \in Nat /\ OpenWorth(p, s) = amount + (OpenWorth(p, s))'
    BY <1>2, <1>4, <1>5, <1>9, ClaimTakesOne
  <2>3. allocations[p].claimedAmount + OpenWorth(p, s) = allocations[p].total BY <1>0, <1>10, <1>11
  <2>4. (OpenWorth(p, job[j].leaves))' = (OpenWorth(p, s))'
    BY <1>12 DEF OpenWorth, OpenShares, SharesOf
  <2>5. (allocations[p].claimedAmount + OpenWorth(p, job[j].leaves) = allocations[p].total)'
    <3> DEFINE now   == OpenWorth(p, s)
               later == (OpenWorth(p, s))'
               paid  == allocations[p].claimedAmount
    <3>1. now \in Nat /\ later \in Nat /\ now = amount + later /\ paid \in Nat /\ paid + now = allocations[p].total
      BY <1>8, <2>2, <2>3
    <3>2. /\ allocations'[p].claimedAmount = paid + amount
          /\ allocations'[p].total = allocations[p].total
          /\ (OpenWorth(p, job[j].leaves))' = later
      BY <1>8, <1>9, <2>4
    <3>3. allocations'[p].claimedAmount + later = allocations'[p].total
      <4> HIDE DEF now, later, paid, amount
      <4> QED BY <1>6, <3>1, <3>2
    <3> QED BY <3>2, <3>3
  <2>6. allocations'[p].submitted BY <1>2, <1>8, <1>9
  <2> QED BY <2>1, <2>5, <2>6 DEF Backed
<1>14. ASSUME NEW q \in PoolIds, q # p PROVE Backed(q)'
  <2>1. Backed(q) /\ allocations'[q] = allocations[q] /\ claimed'[q] = claimed[q]
    BY <1>3, <1>9, <1>14 DEF PoolsBacked
  <2> QED BY <2>1, AllocationStands
<1>15. \A q \in PoolIds : Backed(q)'
  <2> SUFFICES ASSUME NEW q \in PoolIds PROVE Backed(q)' OBVIOUS
  <2>1. CASE q = p BY <1>13, <2>1
  <2>2. CASE q # p BY <1>14, <2>2
  <2> QED BY <2>1, <2>2
<1> QED BY <1>15 DEF PoolsBacked, PoolIds

(* Claiming moves shares to what was claimed, whoever does it. *)
LEMMA ClaimNextShares == ASSUME RailInv, ShareInv, NEW j \in Jobs, ClaimNext(j) PROVE ShareInv'
<1>1. pc[j] = "claim" /\ UNCHANGED nonce BY DEF ClaimNext, At
<1>2. /\ job[j] \in JobRecords /\ Fits(pc[j], job[j]) /\ JobsTyped BY JobFacts DEF RailInv
<1>3. Holds(j) /\ Priced(j) BY DEF ShareInv, JobsHold
<1>4. job[j].leaves # <<>> /\ job[j].madeId # 0 /\ Response(job[j].leaves) BY <1>1, <1>3 DEF Holds
<1>5. Open(job[j].poolId) => Worth(job[j].leaves) = pools[job[j].poolId].amount
  BY <1>3, <1>4 DEF Priced, Worked
<1>6. CASE job[j].paid = Len(job[j].leaves)
  <2> DEFINE x == job[j]
  <2>1. Goto(j, "done", x) /\ UNCHANGED <<poolVars, claimVars>>
    BY <1>6 DEF ClaimNext
  <2>2. pc'[j] = "done" /\ job'[j] = x
    <3> HIDE DEF x
    <3> QED BY <1>2, <2>1, JobGoes
  <2>3. pools' = pools BY <2>1 DEF poolVars
  <2>4. Tame(j) BY <2>2 DEF Tame, Kept
  <2>5. Holds(j)' BY <1>4, <2>2 DEF Holds, Response
  <2>6. Priced(j)' BY <1>5, <2>2, <2>3 DEF Priced, Worked, Open, Exists, Worth, SharesOf
  <2>7. Later(j)' BY <2>2 DEF Later
  <2> HIDE DEF x
  <2> QED BY <1>1, <2>1, <2>4, <2>5, <2>6, <2>7, QuietStepShares
<1>7. CASE job[j].paid # Len(job[j].leaves)
  <2> DEFINE x == [job[j] EXCEPT !.paid = @ + 1]
             k == job[j].paid + 1
  <2>1. ClaimShare(j, k) /\ Goto(j, "claim", x) BY <1>7 DEF ClaimNext
  <2>2. k \in DOMAIN job[j].leaves
    <3>1. job[j].leaves \in Seq(Artists \X Nat) /\ job[j].paid \in Nat BY <1>2 DEF JobRecords
    <3>2. job[j].paid <= Len(job[j].leaves) BY <1>2 DEF Fits
    <3> QED BY <1>7, <3>1, <3>2
  <2>3. x.leaves = job[j].leaves /\ x.madeId = job[j].madeId /\ x.poolId = job[j].poolId
    BY <1>2 DEF JobRecords
  <2> HIDE DEF x, k
  <2>4. /\ pc'[j] = "claim" /\ job'[j] = x
        /\ \A i \in Jobs : i # j => pc'[i] = pc[i] /\ job'[i] = job[i]
    BY <1>2, <2>1, JobGoes
  <2>5. Tame(j) BY <2>3, <2>4 DEF Tame, Kept
  <2>6. \A i \in Jobs : Kept(i) BY <2>3, <2>4 DEF Kept
  <2>7. PoolsBacked' BY <2>1, <2>2, <2>6, ClaimBacks
  <2>8. pools' = pools /\ nextPoolId' = nextPoolId BY <2>1 DEF ClaimShare, Claim, poolVars
  <2>9. PoolsSettle BY <2>8 DEF PoolsSettle, Open, Exists
  <2>10. Holds(j)' BY <1>4, <2>3, <2>4 DEF Holds, Response
  <2>11. Priced(j)' BY <1>5, <2>3, <2>4, <2>8 DEF Priced, Worked, Open, Exists, Worth, SharesOf
  <2>12. Later(j)' BY <2>4 DEF Later
  <2>13. nonce' \in {nonce, nonce + 1} BY <1>1
  <2> QED BY <2>4, <2>5, <2>7, <2>9, <2>10, <2>11, <2>12, <2>13, JobStepShares
<1> QED BY <1>6, <1>7

(* Every step of a job keeps the shares. *)
LEMMA JobStepKeepsShares == ASSUME RailInv, ShareInv, NEW j \in Jobs, JobStep(j) PROVE ShareInv'
BY BeginShares, ApproveShares, ReadPoolIdShares, CreateShares, ReadPoolShares, AttestShares,
   SubmitShares, ClaimNextShares, FailShares
DEF JobStep

(* An artist who claims takes the share the job would have claimed. *)
LEMMA ArtistClaimsShares ==
    ASSUME RailInv, ShareInv, NEW j \in Jobs, NEW k \in DOMAIN job[j].leaves, ArtistClaims(j, k)
    PROVE  ShareInv'
<1>1. ClaimShare(j, k) /\ UNCHANGED <<nonce, jobVars>> BY DEF ArtistClaims
<1>2. \A i \in Jobs : Kept(i) BY <1>1 DEF Kept, jobVars
<1>3. PoolsBacked' BY <1>1, <1>2, ClaimBacks
<1>4. pools' = pools /\ nextPoolId' = nextPoolId BY <1>1 DEF ClaimShare, Claim, poolVars
<1>5. PoolsSettle BY <1>4 DEF PoolsSettle, Open, Exists
<1>6. UNCHANGED jobVars /\ nonce' \in {nonce, nonce + 1} BY <1>1
<1> QED BY <1>3, <1>5, <1>6, OtherStepShares

(* What the others do to the pools leaves the allocations alone. *)
LEMMA PoolStepShares ==
    ASSUME RailInv, ShareInv, UNCHANGED <<claimVars, jobVars>>, PoolsSettle,
           nonce' \in {nonce, nonce + 1}
    PROVE  ShareInv'
<1>1. \A k \in Jobs : Kept(k) BY DEF Kept, jobVars
<1>2. UNCHANGED claimVars /\ UNCHANGED jobVars /\ PoolsBacked BY DEF ShareInv
<1>3. PoolsBacked' BY <1>1, <1>2, AllocationsStand
<1> QED BY <1>2, <1>3, OtherStepShares

(* No step of the rail breaks the shares. *)
LEMMA ShareStep == RailInv /\ ShareInv /\ [Next]_vars => ShareInv'
<1> SUFFICES ASSUME RailInv, ShareInv, [Next]_vars PROVE ShareInv' OBVIOUS
<1>0. MoneyInv BY DEF RailInv
<1>1. ASSUME NEW j \in Jobs, JobStep(j) PROVE ShareInv' BY <1>1, JobStepKeepsShares
<1>2. ASSUME NEW j \in Jobs, NEW k \in DOMAIN job[j].leaves, ArtistClaims(j, k) PROVE ShareInv'
  BY <1>2, ArtistClaimsShares
<1>3. ASSUME UNCHANGED <<nonce, poolVars, claimVars, jobVars>> PROVE ShareInv'
  <2>1. PoolsSettle BY <1>3 DEF PoolsSettle, poolVars, Open, Exists
  <2>2. UNCHANGED <<claimVars, jobVars>> /\ nonce' \in {nonce, nonce + 1} BY <1>3
  <2> QED BY <2>1, <2>2, PoolStepShares
<1>4. ASSUME NEW p \in PoolIds, CompanyWithdraws(p) PROVE ShareInv'
  <2>1. UNCHANGED <<claimVars, jobVars>> /\ nonce' \in {nonce, nonce + 1}
    BY <1>4 DEF CompanyWithdraws
  <2>2. PICK c : WithdrawPool(c, p) BY <1>4 DEF CompanyWithdraws
  <2>3. PoolsSettle BY <1>0, <2>2, WithdrawSettles
  <2> QED BY <2>1, <2>3, PoolStepShares
<1>5. ASSUME NEW p \in PoolIds, NEW to, OwnerDistributes(p, to) PROVE ShareInv'
  <2>1. UNCHANGED <<claimVars, jobVars>> /\ nonce' \in {nonce, nonce + 1}
    BY <1>5 DEF OwnerDistributes
  <2>2. PoolsSettle BY <1>0, <1>5, DistributeSettles DEF OwnerDistributes
  <2> QED BY <2>1, <2>2, PoolStepShares
<1>6. ASSUME NEW c, NEW corpus, NEW amount, OutsiderCreates(c, corpus, amount) PROVE ShareInv'
  <2>1. UNCHANGED <<claimVars, jobVars>> /\ nonce' \in {nonce, nonce + 1}
    BY <1>6 DEF OutsiderCreates
  <2> DEFINE root == CorpusRoot(corpus)
  <2>2. CreatePool(c, root, amount, amount) BY <1>6 DEF OutsiderCreates
  <2> HIDE DEF root
  <2>3. PoolsSettle BY <1>0, <2>2, CreateSettles
  <2> QED BY <2>1, <2>3, PoolStepShares
<1>7. ASSUME NEW r \in Registrations, RegisterTrack(r[1], r[2]) PROVE ShareInv'
  BY <1>3, <1>7 DEF RegisterTrack
<1>8. ASSUME NEW a, SetAuthorizedDistributor(a) PROVE ShareInv'
  BY <1>3, <1>8 DEF SetAuthorizedDistributor
<1>9. ASSUME NEW a, SetAuthorizedIngestor(a) PROVE ShareInv'
  BY <1>3, <1>9 DEF SetAuthorizedIngestor
<1>10. CASE UNCHANGED vars BY <1>3, <1>10 DEF vars
<1> QED BY <1>1, <1>2, <1>4, <1>5, <1>6, <1>7, <1>8, <1>9, <1>10 DEF Next

(* The rail starts with no response and no allocation. *)
LEMMA ShareInit == Init => ShareInv
<1> SUFFICES ASSUME Init PROVE ShareInv OBVIOUS
<1>1. \A j \in Jobs : pc[j] = "idle" /\ job[j].madeId = 0 /\ job[j].leaves = <<>>
  BY NoJobIsEmpty DEF Init
<1>2. \A p \in PoolIds : ~allocations[p].submitted /\ claimed[p] = {} BY DEF Init, NoAllocation
<1>3. Apart BY <1>1 DEF Apart
<1>4. JobsHold BY <1>1 DEF JobsHold, Holds, Priced, Worked, Later
<1>5. PoolsBacked BY <1>2 DEF PoolsBacked, Backed
<1> QED BY <1>3, <1>4, <1>5 DEF ShareInv

(* What is known of the shares in every reachable state. *)
LEMMA SharesHold == Spec => [](RailInv /\ ShareInv)
<1>1. Init => RailInv /\ ShareInv BY RailInit, ShareInit
<1>2. RailInv /\ ShareInv /\ [Next]_vars => RailInv' /\ ShareInv' BY RailStep, ShareStep
<1> QED BY <1>1, <1>2, PTL DEF Spec

(* The leaves of a response are the lowest layer of its tree. *)
LEMMA LeavesAreALayer ==
    ASSUME NEW s, Response(s)
    PROVE  IsLayer(Leaves(s)) /\ DOMAIN s = 1..Len(Leaves(s))
<1>1. s \in Seq(Artists \X Nat) /\ s # <<>> BY DEF Response
<1>2. DOMAIN s = 1..Len(s) /\ Len(s) \in Nat BY <1>1
<1>3. Leaves(s) = [i \in 1..Len(s) |-> AllocationLeaf(s[i])] BY <1>2 DEF Leaves
<1> DEFINE l == Leaves(s)
           n == Len(s)
<1>4. n \in Nat \ {0} /\ DOMAIN s = 1..n BY <1>1, <1>2
<1>5. l = [i \in 1..n |-> AllocationLeaf(s[i])] BY <1>3
<1> HIDE DEF l, n
<1>6. DOMAIN l = 1..n BY <1>5
<1>7. \A i \in 1..n : l[i] \in Nodes(l) BY <1>6 DEF Nodes
<1>8. l = [i \in 1..n |-> l[i]] BY <1>5
<1>9. l \in [1..n -> Nodes(l)] BY <1>7, <1>8
<1>10. l \in Seq(Nodes(l)) /\ Len(l) = n BY <1>4, <1>9
<1>11. l # <<>> BY <1>4, <1>10
<1> QED BY <1>4, <1>10, <1>11 DEF IsLayer, l

-----------------------------------------------------------------------------
\* The theorems.

\* Every variable has its type; in particular no balance is ever negative.
THEOREM TypeIsCorrect == Spec => []TypeOK
<1>1. RailInv => TypeOK
  <2> SUFFICES ASSUME RailInv PROVE TypeOK OBVIOUS
  <2>1. /\ balance \in [Accounts -> Nat] /\ claimed \in [PoolIds -> SUBSET Artists]
        /\ nextPoolId \in 1..(MaxPools + 1) /\ (\A p \in PoolIds : Exists(p) <=> p < nextPoolId)
        /\ pc \in [Jobs -> Labels]
    BY DEF RailInv, MoneyInv, PoolsTyped, AllocationsTyped, BalancesTyped, JobsTyped
  <2>2. WalletTyped BY DEF RailInv
  <2>3. DOMAIN balance = Accounts /\ \A x \in Accounts : balance[x] \in Nat BY <2>1
  <2> QED BY <2>1, <2>2, <2>3 DEF TypeOK, WalletTyped, Labels
<1> QED BY <1>1, RailHolds, PTL

\* The pool contract holds exactly the open pools, whatever companies, jobs,
\* the ingestor and the owner do, in whatever order (createPool,
\* distributeToClaimContract, withdrawPool).
THEOREM PoolContractIsBacked == Spec => []PoolsAreBacked
<1>1. RailInv => PoolsAreBacked
  BY DEF RailInv, MoneyInv, PoolMoney, PoolsKept, PoolKept, PoolsAreBacked, Held, HeldFor
<1> QED BY <1>1, RailHolds, PTL

\* The claim contract can pay every open share of every allocation
\* (submitAllocation pulls the pool in the transaction that books the debt).
THEOREM ClaimContractIsFunded == Spec => []ClaimsAreFunded
<1>1. RailInv => ClaimsAreFunded
  BY DEF RailInv, MoneyInv, ClaimMoney, ClaimsAreFunded, Owed
<1> QED BY <1>1, RailHolds, PTL

\* However many jobs share the wallet, and whatever other companies create
\* between a job's reading of nextPoolId and its createPool, a job that made a
\* pool never works on another pool of the server: the nonce it read at its
\* start makes the later of two createPools fail (settleSelection).
THEOREM JobsWorkOnTheirPools == Spec => []JobsKeepToTheirPools
<1>1. RailInv => JobsKeepToTheirPools
  <2> SUFFICES ASSUME RailInv, NEW j \in Jobs, job[j].madeId # 0,
                      pools[job[j].poolId].company = Company
               PROVE  job[j].poolId = job[j].madeId
    BY DEF JobsKeepToTheirPools
  <2>1. Aims(j) /\ job[j] \in JobRecords BY JobFacts
  <2>2. job[j].madeId \in Nat BY <2>1 DEF JobRecords
  <2>3. job[j].poolId \in 1..job[j].madeId /\ NoneOfOurs(job[j].poolId, job[j].madeId - 1)
    BY <2>1 DEF Aims
  <2>4. job[j].poolId \notin job[j].poolId..(job[j].madeId - 1) BY <2>3 DEF NoneOfOurs
  <2> QED BY <2>2, <2>3, <2>4
<1> QED BY <1>1, RailHolds, PTL

\* Whatever jobs, companies and artists do, an allocation pays out exactly
\* what was pulled from its pool, and every share that is still open has a
\* proof the contract accepts: the enclave's shares add up, no other job
\* answers for the same pool, no artist has two leaves, and getProof and
\* MerkleProof.verify build the same tree.
THEOREM AllocationsAreExact == Spec => []AllocationIsExact
<1>1. RailInv /\ ShareInv => AllocationIsExact
  <2> SUFFICES ASSUME RailInv, ShareInv, NEW p \in PoolIds, allocations[p].submitted
               PROVE  /\ allocations[p].claimedAmount
                           + SumFunctionOnSet([k \in DOMAIN Submitted(p) |-> Submitted(p)[k][2]],
                                              Unclaimed(p))
                         = allocations[p].total
                      /\ \A k \in Unclaimed(p) :
                            LET leaves == Leaves(Submitted(p))
                            IN  Verify(GetProof(leaves, k), allocations[p].root, leaves[k])
    BY DEF AllocationIsExact
  <2>1. PICK i \in Jobs : /\ Answers(i, p)
                          /\ allocations[p].claimedAmount + OpenWorth(p, job[i].leaves)
                               = allocations[p].total
    BY DEF ShareInv, PoolsBacked, Backed
  <2>2. Submitted(p) = job[i].leaves
    <3> DEFINE Fitting(j) == /\ job[j].poolId = p /\ job[j].leaves # <<>>
                             /\ Root(Leaves(job[j].leaves)) = allocations[p].root
               c == CHOOSE j \in Jobs : Fitting(j)
    <3>1. Fitting(i) BY <2>1 DEF Answers
    <3>2. c \in Jobs /\ Fitting(c) BY <3>1
    <3>3. Submitted(p) = job[c].leaves BY DEF Submitted
    <3> HIDE DEF c
    <3>4. c = i BY <3>1, <3>2, OneAnswers
    <3> QED BY <3>3, <3>4
  <2> DEFINE s == job[i].leaves
             leaves == Leaves(s)
  <2>3. Response(s) BY <2>1 DEF Answers, ShareInv, JobsHold, Holds
  <2>4. Unclaimed(p) = OpenShares(p, s) BY <2>2 DEF Unclaimed, OpenShares
  <2>5. [k \in DOMAIN Submitted(p) |-> Submitted(p)[k][2]] = SharesOf(s) BY <2>2 DEF SharesOf
  <2>6. allocations[p].claimedAmount + SumFunctionOnSet(SharesOf(s), OpenShares(p, s))
          = allocations[p].total
    BY <2>1 DEF OpenWorth
  <2>7. IsLayer(leaves) /\ DOMAIN s = 1..Len(leaves)
    <3> HIDE DEF s
    <3> QED BY <2>3, LeavesAreALayer
  <2>8. allocations[p].root = Root(leaves) BY <2>1 DEF Answers
  <2> HIDE DEF leaves, s
  <2>9. ASSUME NEW k \in Unclaimed(p)
        PROVE  Verify(GetProof(leaves, k), Root(leaves), leaves[k])
    <3>1. k \in 1..Len(leaves) BY <2>4, <2>7 DEF OpenShares
    <3> QED BY <2>7, <3>1, ProofsVerify
  <2> QED BY <2>2, <2>4, <2>5, <2>6, <2>8, <2>9 DEF leaves, s
<1> QED BY <1>1, SharesHold, PTL

=============================================================================
