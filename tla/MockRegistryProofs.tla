--------------------------- MODULE MockRegistryProofs ---------------------------
(***************************************************************************)
(* The storage, the routes and the registries of several paths tell of the *)
(* same mocks after any requests, whatever the paths, the mocks and the    *)
(* snapshots are, and together they are the map from paths to mocks of the *)
(* contract.                                                               *)
(***************************************************************************)
EXTENDS MockRegistry, FiniteSetTheorems, SequenceTheorems, WellFoundedInduction, TLAPS

\* A nonempty set of naturals has a least element.
LEMMA Least ==
    ASSUME NEW T \in SUBSET Nat, T # {}
    PROVE \E x \in T : \A y \in T : x <= y
<1>1. PICK x \in T : \A y \in T : <<y, x>> \notin OpToRel(<, Nat)
  BY NatLessThanWellFounded, WFMin
<1>2. \A y \in T : ~(y < x)
  BY <1>1 DEF OpToRel
<1> QED
  BY <1>2

\* Of a bounded one, Max is the greatest.
LEMMA Greatest ==
    ASSUME NEW n \in Nat, NEW T \in SUBSET (0..n), T # {}
    PROVE Max(T) \in T /\ \A y \in T : y <= Max(T)
<1> DEFINE D == {n - y : y \in T}
<1>1. D \in SUBSET Nat /\ D # {}
  <2>1. \A y \in T : n - y \in Nat
    OBVIOUS
  <2> QED
    BY <2>1
<1>2. PICK d \in D : \A e \in D : d <= e
  BY <1>1, Least
<1>3. PICK x \in T : d = n - x
  BY <1>2
<1>4. \A y \in T : n - x <= n - y
  BY <1>2, <1>3
<1>5. \A y \in T : x >= y
  BY <1>4
<1> QED
  BY <1>5 DEF Max

LEMMA Smallest ==
    ASSUME NEW T \in SUBSET Nat, T # {}
    PROVE Min(T) \in T /\ \A y \in T : Min(T) <= y
  BY Least DEF Min

-------------------------------------------------------------------------------
(* Selecting from a sequence *)

Rank(kept, i) == Cardinality(kept \cap 1..i)
Position(kept, n) == CHOOSE i \in kept : Cardinality(kept \cap 1..i) = n

\* Positions are ranked without gaps, in their order.
LEMMA Ranks ==
    ASSUME NEW m \in Nat, NEW kept \in SUBSET (1..m)
    PROVE /\ IsFiniteSet(kept) /\ Cardinality(kept) \in 0..m
          /\ \A i \in kept : Rank(kept, i) \in 1..Cardinality(kept)
          /\ \A i, k \in kept : i < k => Rank(kept, i) < Rank(kept, k)
<1>1. IsFiniteSet(1..m) /\ Cardinality(1..m) = m
  BY FS_Interval
<1>2. IsFiniteSet(kept) /\ Cardinality(kept) <= m /\ Cardinality(kept) \in Nat
  BY <1>1, FS_Subset, FS_CardinalityType
<1>3. \A i \in kept : /\ IsFiniteSet(kept \cap 1..i) /\ Rank(kept, i) \in Nat
                      /\ Rank(kept, i) <= Cardinality(kept)
                      /\ Rank(kept, i) >= 1
  <2> SUFFICES ASSUME NEW i \in kept
               PROVE /\ IsFiniteSet(kept \cap 1..i) /\ Rank(kept, i) \in Nat
                     /\ Rank(kept, i) <= Cardinality(kept)
                     /\ Rank(kept, i) >= 1
    OBVIOUS
  <2> DEFINE T == kept \cap 1..i
  <2>1. T \in SUBSET kept /\ i \in T
    OBVIOUS
  <2> HIDE DEF T
  <2>2. IsFiniteSet(T) /\ Cardinality(T) <= Cardinality(kept) /\ Cardinality(T) \in Nat
    BY <1>2, <2>1, FS_Subset, FS_CardinalityType
  <2>3. Cardinality(T) # 0
    BY <2>1, <2>2, FS_EmptySet
  <2>4. Cardinality(T) >= 1
    BY <2>2, <2>3
  <2> QED
    BY <2>2, <2>4 DEF T, Rank
<1>4. ASSUME NEW i \in kept, NEW k \in kept, i < k
      PROVE Rank(kept, i) < Rank(kept, k)
  <2> DEFINE T == kept \cap 1..i
             U == kept \cap 1..k
  <2>1. T \in SUBSET U /\ k \in U /\ k \notin T
    BY <1>4
  <2>2. IsFiniteSet(U) /\ IsFiniteSet(T) /\ Cardinality(T) \in Nat /\ Cardinality(U) \in Nat
    BY <1>3 DEF Rank
  <2> HIDE DEF T, U
  <2>3. Cardinality(T) <= Cardinality(U) /\ Cardinality(T) # Cardinality(U)
    BY <2>1, <2>2, FS_Subset
  <2>4. Cardinality(T) < Cardinality(U)
    BY <2>2, <2>3
  <2> QED
    BY <2>4 DEF T, U, Rank
<1>5. Cardinality(kept) \in 0..m
  BY <1>2
<1>6. \A i \in kept : Rank(kept, i) \in 1..Cardinality(kept)
  <2> TAKE i \in kept
  <2> DEFINE r == Rank(kept, i)
             c == Cardinality(kept)
  <2>1. r \in Nat /\ r <= c /\ r >= 1 /\ c \in Nat
    BY <1>2, <1>3
  <2> HIDE DEF r, c
  <2>2. r \in 1..c
    BY <2>1
  <2> QED
    BY <2>2 DEF r, c
<1> QED
  BY <1>2, <1>4, <1>5, <1>6

\* The position of each rank.
LEMMA Positions ==
    ASSUME NEW m \in Nat, NEW kept \in SUBSET (1..m)
    PROVE /\ \A n \in 1..Cardinality(kept) : Position(kept, n) \in kept /\ Rank(kept, Position(kept, n)) = n
          /\ \A i \in kept : Position(kept, Rank(kept, i)) = i
          /\ \A n, k \in 1..Cardinality(kept) : n < k => Position(kept, n) < Position(kept, k)
<1> DEFINE c == Cardinality(kept)
           f == [i \in kept |-> Rank(kept, i)]
<1>1. IsFiniteSet(kept) /\ c \in Nat /\ \A i \in kept : Rank(kept, i) \in 1..c
  BY Ranks
<1>2. \A i, k \in kept : Rank(kept, i) = Rank(kept, k) => i = k
  <2> SUFFICES ASSUME NEW i \in kept, NEW k \in kept, Rank(kept, i) = Rank(kept, k) PROVE i = k
    OBVIOUS
  <2>1. i \in Int /\ k \in Int /\ Rank(kept, i) \in Int
    BY <1>1
  <2>2. ~(i < k) /\ ~(k < i)
    BY <2>1, Ranks
  <2> QED
    BY <2>1, <2>2
<1>3. f \in Injection(kept, 1..c)
  <2>1. f \in [kept -> 1..c]
    BY <1>1
  <2>2. \A i, k \in kept : f[i] = f[k] => i = k
    BY <1>2
  <2> QED
    BY <2>1, <2>2 DEF Injection, IsInjective
<1>4. IsFiniteSet(1..c) /\ Cardinality(1..c) = c
  BY <1>1, FS_Interval
<1>5. f \in Surjection(kept, 1..c)
  BY <1>3, <1>4, FS_Injection
<1>6. \A n \in 1..c : \E i \in kept : Rank(kept, i) = n
  BY <1>5 DEF Surjection
<1>7. \A n \in 1..c : Position(kept, n) \in kept /\ Rank(kept, Position(kept, n)) = n
  BY <1>6 DEF Position, Rank
<1>8. \A i \in kept : Position(kept, Rank(kept, i)) = i
  BY <1>1, <1>2, <1>7
<1>9. ASSUME NEW n \in 1..c, NEW k \in 1..c, n < k PROVE Position(kept, n) < Position(kept, k)
  <2> DEFINE i == Position(kept, n)
             j == Position(kept, k)
  <2>1. i \in kept /\ j \in kept /\ Rank(kept, i) = n /\ Rank(kept, j) = k
    BY <1>7
  <2> HIDE DEF i, j
  <2>2. j < i => Rank(kept, j) < Rank(kept, i)
    BY <2>1, Ranks
  <2>3. i \in Int /\ j \in Int /\ n \in Int /\ k \in Int
    BY <1>1, <2>1
  <2> QED
    BY <1>9, <2>1, <2>2, <2>3 DEF i, j
<1> QED
  BY <1>7, <1>8, <1>9

\* A selection is a sequence of the elements at the positions kept.
LEMMA Selecting ==
    ASSUME NEW S, NEW s \in Seq(S), NEW kept \in SUBSET DOMAIN s
    PROVE /\ Picked(s, kept) \in Seq(S)
          /\ Len(Picked(s, kept)) = Cardinality(kept) /\ Cardinality(kept) \in 0..Len(s)
          /\ \A n \in DOMAIN Picked(s, kept) : Position(kept, n) \in kept /\ Picked(s, kept)[n] = s[Position(kept, n)]
          /\ \A i \in kept : Rank(kept, i) \in DOMAIN Picked(s, kept) /\ Picked(s, kept)[Rank(kept, i)] = s[i]
          /\ \A n, k \in DOMAIN Picked(s, kept) : n < k => Position(kept, n) < Position(kept, k)
<1> DEFINE c == Cardinality(kept)
           p == Picked(s, kept)
<1>1. Len(s) \in Nat /\ kept \in SUBSET (1..Len(s)) /\ \A i \in DOMAIN s : s[i] \in S
  OBVIOUS
<1>2. c \in 0..Len(s) /\ \A i \in kept : Rank(kept, i) \in 1..c
  BY <1>1, Ranks
<1>3. /\ \A n \in 1..c : Position(kept, n) \in kept
      /\ \A i \in kept : Position(kept, Rank(kept, i)) = i
      /\ \A n, k \in 1..c : n < k => Position(kept, n) < Position(kept, k)
  BY <1>1, Positions
<1>4. p = [n \in 1..c |-> s[Position(kept, n)]]
  BY DEF Picked, Position
<1>5. \A n \in 1..c : s[Position(kept, n)] \in S
  BY <1>1, <1>3
<1> HIDE DEF p, c
<1>6. p \in Seq(S) /\ Len(p) = c /\ DOMAIN p = 1..c
  <2>1. c \in Nat
    BY <1>2
  <2> QED
    BY <1>4, <1>5, <2>1
<1>7. \A n \in 1..c : p[n] = s[Position(kept, n)]
  BY <1>4
<1>8. \A i \in kept : p[Rank(kept, i)] = s[i]
  BY <1>2, <1>3, <1>7
<1> QED
  BY <1>2, <1>3, <1>6, <1>7, <1>8 DEF p, c

\* Its elements are theirs.
LEMMA Selected ==
    ASSUME NEW S, NEW s \in Seq(S), NEW kept \in SUBSET DOMAIN s
    PROVE Range(Picked(s, kept)) = {s[i] : i \in kept}
<1>1. \A n \in DOMAIN Picked(s, kept) : \E i \in kept : Picked(s, kept)[n] = s[i]
  BY Selecting
<1>2. \A i \in kept : \E n \in DOMAIN Picked(s, kept) : Picked(s, kept)[n] = s[i]
  BY Selecting
<1> QED
  BY <1>1, <1>2 DEF Range

-------------------------------------------------------------------------------
(* Paths *)

Tails == Seq({"space", "slash"})
IsNormal(path) == IsPath(path) /\ Normalize(path) = path

LEMMA Strip ==
    ASSUME NEW tail \in Tails, NEW char
    PROVE \E k \in 0..Len(tail) :
            /\ Stripped(tail, char) = SubSeq(tail, 1, k)
            /\ \A i \in k + 1..Len(tail) : tail[i] = char
            /\ k # 0 => tail[k] # char
<1> DEFINE T == {0} \union {i \in DOMAIN tail : tail[i] # char}
<1>1. Len(tail) \in Nat /\ DOMAIN tail = 1..Len(tail)
  BY DEF Tails
<1>2. T \in SUBSET (0..Len(tail)) /\ T # {}
  BY <1>1
<1>3. Max(T) \in T /\ \A i \in T : i <= Max(T)
  BY <1>1, <1>2, Greatest
<1>4. Stripped(tail, char) = SubSeq(tail, 1, Max(T))
  BY DEF Stripped
<1> DEFINE k == Max(T)
<1> HIDE DEF k
<1>5. k \in T /\ \A i \in T : i <= k
  BY <1>3 DEF k
<1>6. k \in 0..Len(tail) /\ (k # 0 => tail[k] # char)
  BY <1>2, <1>5
<1>7. \A i \in k + 1..Len(tail) : tail[i] = char
  <2> SUFFICES ASSUME NEW i \in k + 1..Len(tail), tail[i] # char PROVE FALSE
    OBVIOUS
  <2>1. i \in 1..Len(tail) /\ i > k
    BY <1>1, <1>6
  <2>2. i \in T
    BY <1>1, <2>1
  <2> QED
    BY <1>1, <1>5, <1>6, <2>1, <2>2
<1> QED
  BY <1>4, <1>6, <1>7 DEF k

\* Nothing is taken off exactly when the end is another character.
LEMMA StripNothing ==
    ASSUME NEW tail \in Tails, NEW char
    PROVE /\ Stripped(tail, char) \in Tails
          /\ Len(Stripped(tail, char)) <= Len(tail)
          /\ Len(Stripped(tail, char)) = Len(tail) => Stripped(tail, char) = tail
          /\ (tail = << >> \/ tail[Len(tail)] # char) => Stripped(tail, char) = tail
<1>1. PICK k \in 0..Len(tail) :
            /\ Stripped(tail, char) = SubSeq(tail, 1, k)
            /\ \A i \in k + 1..Len(tail) : tail[i] = char
            /\ k # 0 => tail[k] # char
  BY Strip
<1>2. Len(tail) \in Nat /\ k \in Nat /\ k <= Len(tail)
  BY <1>1 DEF Tails
<1>3. SubSeq(tail, 1, k) \in Tails /\ Len(SubSeq(tail, 1, k)) = k
  BY <1>2 DEF Tails
<1>4. SubSeq(tail, 1, Len(tail)) = tail
  BY <1>2 DEF Tails
<1>5. ASSUME tail = << >> \/ tail[Len(tail)] # char PROVE k = Len(tail)
  <2>1. CASE tail = << >>
    BY <1>2, <2>1
  <2>2. CASE tail[Len(tail)] # char
    <3>1. Len(tail) \notin k + 1..Len(tail)
      BY <1>1, <2>2
    <3> QED
      BY <1>2, <3>1
  <2> QED
    BY <1>5, <2>1, <2>2
<1> QED
  BY <1>1, <1>2, <1>3, <1>4, <1>5

\* Of a tail that ends in a slash only slashes are taken off, that one first.
LEMMA StripOneMore ==
    ASSUME NEW tail \in Tails, Stripped(Stripped(tail, "space"), "slash") = tail
    PROVE Stripped(Stripped(Append(tail, "slash"), "space"), "slash") = tail
<1> DEFINE longer == Append(tail, "slash")
           n == Len(tail)
<1>1. n \in Nat /\ longer \in Tails /\ Len(longer) = n + 1 /\ longer[n + 1] = "slash"
      /\ \A i \in 1..n : longer[i] = tail[i]
  BY DEF Tails
<1>2. Stripped(tail, "space") \in Tails /\ Len(Stripped(tail, "space")) <= n
  BY StripNothing
<1>3. Len(tail) <= Len(Stripped(tail, "space"))
  BY <1>2, StripNothing
<1>4. Len(Stripped(tail, "space")) \in Nat
  BY <1>2 DEF Tails
<1>5. Stripped(tail, "space") = tail
  BY <1>1, <1>2, <1>3, <1>4, StripNothing
<1>6. Stripped(tail, "slash") = tail
  BY <1>5
<1>7. n # 0 => tail[n] # "slash"
  <2>1. PICK k \in 0..n : Stripped(tail, "slash") = SubSeq(tail, 1, k) /\ (k # 0 => tail[k] # "slash")
    BY Strip
  <2>2. Len(SubSeq(tail, 1, k)) = k
    BY <1>1, <2>1 DEF Tails
  <2> QED
    BY <1>1, <1>6, <2>1, <2>2
<1>8. Stripped(longer, "space") = longer
  <2>1. longer[Len(longer)] # "space"
    BY <1>1
  <2> HIDE DEF longer
  <2> QED
    BY <1>1, <2>1, StripNothing
<1>9. Stripped(longer, "slash") = tail
  <2>1. PICK k \in 0..Len(longer) :
            /\ Stripped(longer, "slash") = SubSeq(longer, 1, k)
            /\ \A i \in k + 1..Len(longer) : longer[i] = "slash"
            /\ k # 0 => longer[k] # "slash"
    <3> HIDE DEF longer
    <3> QED
      BY <1>1, Strip
  <2>2. k \in 0..n
    BY <1>1, <2>1
  <2>3. n # 0 => ~(n \in k + 1..n + 1)
    <3>1. n # 0 => longer[n] # "slash"
      BY <1>1, <1>7
    <3> QED
      BY <1>1, <2>1, <3>1
  <2>4. k = n
    BY <1>1, <2>2, <2>3
  <2>5. SubSeq(longer, 1, n) = tail
    BY <1>1 DEF Tails
  <2> QED
    BY <2>1, <2>4, <2>5
<1> QED
  BY <1>8, <1>9

LEMMA NormalizePath ==
    ASSUME NEW path, IsPath(path)
    PROVE IsPath(Normalize(path)) /\ Normalize(path).base = path.base
<1>1. path.tail \in Tails
  BY DEF IsPath, Tails
<1>2. Stripped(path.tail, "space") \in Tails
  BY <1>1, StripNothing
<1>3. Stripped(Stripped(path.tail, "space"), "slash") \in Tails
  BY <1>2, StripNothing
<1> DEFINE tail == Stripped(Stripped(path.tail, "space"), "slash")
<1>4. Normalize(path) = [path EXCEPT !.tail = tail]
  BY DEF Normalize
<1> HIDE DEF tail
<1>5. path = [base |-> path.base, tail |-> path.tail]
  BY DEF IsPath
<1>6. [path EXCEPT !.tail = tail] = [base |-> path.base, tail |-> tail]
  BY <1>5
<1> QED
  BY <1>3, <1>4, <1>6 DEF IsPath, Tails, tail

\* The variant with a trailing slash is another spelling of the same path.
LEMMA SlashedPath ==
    ASSUME NEW path, IsNormal(path)
    PROVE Normalize(Slashed(path)) = path /\ Slashed(path) # path
<1>1. path = [base |-> path.base, tail |-> path.tail] /\ path.tail \in Tails
  BY DEF IsNormal, IsPath, Tails
<1>2. Stripped(Stripped(path.tail, "space"), "slash") = path.tail
  BY <1>1 DEF IsNormal, Normalize
<1>3. Stripped(Stripped(Append(path.tail, "slash"), "space"), "slash") = path.tail
  BY <1>1, <1>2, StripOneMore
<1>4. Append(path.tail, "slash") # path.tail
  <2>1. Len(Append(path.tail, "slash")) = Len(path.tail) + 1 /\ Len(path.tail) \in Nat
    BY <1>1 DEF Tails
  <2> QED
    BY <2>1
<1>5. Slashed(path) = [base |-> path.base, tail |-> Append(path.tail, "slash")]
  BY <1>1 DEF Slashed
<1> DEFINE t == Append(path.tail, "slash")
<1> HIDE DEF t
<1>6. Normalize([base |-> path.base, tail |-> t]) = [base |-> path.base, tail |-> Stripped(Stripped(t, "space"), "slash")]
  BY DEF Normalize
<1> QED
  BY <1>1, <1>3, <1>4, <1>5, <1>6 DEF t

\* Each route of a mock is at a spelling of its path, so those of two paths differ.
LEMMA CandidatesOf ==
    ASSUME NEW path, IsNormal(path)
    PROVE /\ path \in RouteCandidates(path)
          /\ \A spelling \in RouteCandidates(path) : Normalize(spelling) = path
          /\ RouteCandidates(path) = {path} \union (IF path = Plain(Root) THEN {} ELSE {Slashed(path)})
<1>1. Normalize(path) = path
  BY DEF IsNormal
<1>2. Normalize(Slashed(path)) = path /\ Slashed(path) # path
  BY SlashedPath
<1>3. Slashed(path) = Slashed(Plain(Root)) => path = Plain(Root)
  <2>1. IsNormal(Plain(Root))
    <3>1. << >> \in Tails
      BY DEF Tails
    <3>2. Stripped(<< >>, "space") = << >> /\ Stripped(<< >>, "slash") = << >>
      BY <3>1, StripNothing
    <3>3. Normalize([base |-> Root, tail |-> << >>]) = [base |-> Root, tail |-> Stripped(Stripped(<< >>, "space"), "slash")]
      BY DEF Normalize
    <3> QED
      BY <3>1, <3>2, <3>3 DEF IsNormal, IsPath, Plain, Tails
  <2>2. Normalize(Slashed(Plain(Root))) = Plain(Root)
    BY <2>1, SlashedPath
  <2> QED
    BY <1>2, <2>2
<1> QED
  BY <1>1, <1>2, <1>3 DEF RouteCandidates

-------------------------------------------------------------------------------
(* The state, and what its parts have to agree on *)

Spellings == Paths \union {item.path : item \in UNION {Range(document) : document \in Documents}}
Keys == {Key(path) : path \in Spellings}
Entries == [path : Keys, mock : Mocks]
Routes == [path : UNION {RouteCandidates(key) : key \in Keys}, mock : Mocks, object : Nat]
Registers == UNION {[K -> Nat] : K \in SUBSET Keys}
States == [storage : Seq(Entries), routes : Seq(Routes), sequences : Registers, recordings : Registers,
           objects : UNION {[O -> 0..MaxProgress] : O \in SUBSET Nat}]
Configurations == UNION {[K -> Mocks] : K \in SUBSET Keys}

Once(s) == \A i, j \in DOMAIN s.storage : s.storage[i].path = s.storage[j].path => i = j
MocksOf(s) == [p \in StoredPaths(s) |-> StoredMock(s, p)]

\* The routes and the registries tell of the mocks in m.
Agreed(s, m) ==
    /\ DOMAIN s.sequences = DOMAIN m
    /\ DOMAIN s.recordings = {p \in DOMAIN m : m[p].kind = "recording"}
    /\ \A i \in DOMAIN s.routes : \E p \in DOMAIN m : s.routes[i].path \in RouteCandidates(p)
    /\ \A p \in DOMAIN m : \A spelling \in RouteCandidates(p) : \E i \in DOMAIN s.routes : s.routes[i].path = spelling
    /\ \A i \in DOMAIN s.routes : /\ s.routes[i].mock = m[Normalize(s.routes[i].path)]
                                  /\ s.routes[i].object = Registered(s, Normalize(s.routes[i].path))

\* What is referred to exists.
Exist(s) == Live(s) \subseteq DOMAIN s.objects /\ IsFiniteSet(DOMAIN s.objects)

Consistent(s) == s \in States /\ Once(s) /\ Agreed(s, MocksOf(s)) /\ Exist(s)

LEMMA KeysNormal ==
    ASSUME NEW key \in Keys
    PROVE IsNormal(key)
<1>1. PICK path \in Spellings : key = Key(path)
  BY DEF Keys
<1>2. IsPath(path) /\ Normalize(Key(path)) = Key(path)
  BY <1>1, SpellingsAssumption DEF Spellings
<1>3. IsPath(Key(path))
  BY <1>2, NormalizePath DEF Key
<1> QED
  BY <1>1, <1>2, <1>3 DEF IsNormal

LEMMA StoredAt ==
    ASSUME NEW s, Once(s)
    PROVE \A i \in DOMAIN s.storage : StoredMock(s, s.storage[i].path) = s.storage[i].mock
<1> TAKE i \in DOMAIN s.storage
<1>1. \E entry \in ToSet(s.storage) : entry.path = s.storage[i].path
  BY DEF ToSet
<1> DEFINE e == CHOOSE entry \in ToSet(s.storage) : entry.path = s.storage[i].path
<1>2. e \in ToSet(s.storage) /\ e.path = s.storage[i].path
  BY <1>1
<1>3. PICK j \in DOMAIN s.storage : e = s.storage[j]
  BY <1>2 DEF ToSet
<1>4. j = i
  BY <1>2, <1>3 DEF Once
<1> QED
  BY <1>3, <1>4 DEF StoredMock

LEMMA MocksTyped ==
    ASSUME NEW s \in States, Once(s)
    PROVE /\ MocksOf(s) \in Configurations
          /\ StoredPaths(s) \in SUBSET Keys
          /\ DOMAIN MocksOf(s) = StoredPaths(s)
          /\ \A i \in DOMAIN s.storage : s.storage[i] \in Entries /\ MocksOf(s)[s.storage[i].path] = s.storage[i].mock
<1>1. s.storage \in Seq(Entries)
  BY DEF States
<1>2. \A i \in DOMAIN s.storage : s.storage[i] \in Entries
  BY <1>1
<1>3. \A i \in DOMAIN s.storage : StoredMock(s, s.storage[i].path) = s.storage[i].mock
  BY StoredAt
<1>4. \A i \in DOMAIN s.storage : s.storage[i].path \in Keys /\ s.storage[i].mock \in Mocks
  BY <1>2 DEF Entries
<1>5. \A p \in StoredPaths(s) : p \in Keys /\ StoredMock(s, p) \in Mocks
  BY <1>3, <1>4 DEF StoredPaths
<1>6. MocksOf(s) \in [StoredPaths(s) -> Mocks]
  BY <1>5 DEF MocksOf
<1> QED
  BY <1>2, <1>3, <1>5, <1>6 DEF Configurations, MocksOf, StoredPaths

\* Storing a mock.
LEMMA Storing ==
    ASSUME NEW s \in States, Once(s), NEW key \in Keys, NEW mock \in Mocks
    PROVE LET t == SetMockData(s, key, mock) IN
          /\ t \in States /\ Once(t)
          /\ MocksOf(t) = With(MocksOf(s), key, mock)
          /\ t.routes = s.routes /\ t.sequences = s.sequences /\ t.recordings = s.recordings /\ t.objects = s.objects
<1> DEFINE entry == [path |-> key, mock |-> mock]
           st == s.storage
           new == IF IsStored(s, key) THEN [i \in DOMAIN st |-> IF st[i].path = key THEN entry ELSE st[i]] ELSE Append(st, entry)
           t == [s EXCEPT !.storage = new]
<1>1. Normalize(key) = key
  BY KeysNormal DEF IsNormal
<1>2. SetMockData(s, key, mock) = t
  BY <1>1 DEF SetMockData
<1>3. st \in Seq(Entries) /\ Len(st) \in Nat /\ DOMAIN st = 1..Len(st) /\ \A i \in DOMAIN st : st[i] \in Entries
  <2>1. st \in Seq(Entries)
    BY DEF States
  <2> QED
    BY <2>1
<1>4. entry \in Entries /\ entry.path = key /\ entry.mock = mock
  BY DEF Entries
<1> HIDE DEF entry
<1>5. CASE IsStored(s, key)
  <2>1. new = [i \in DOMAIN st |-> IF st[i].path = key THEN entry ELSE st[i]]
    BY <1>5
  <2> HIDE DEF new
  <2>2. new \in Seq(Entries) /\ DOMAIN new = DOMAIN st
    BY <1>3, <1>4, <2>1
  <2>3. \A i \in DOMAIN st : new[i].path = st[i].path /\ new[i].mock = IF st[i].path = key THEN mock ELSE st[i].mock
    BY <1>4, <2>1
  <2>4. t \in States /\ t.storage = new /\ t.routes = s.routes /\ t.sequences = s.sequences
        /\ t.recordings = s.recordings /\ t.objects = s.objects
    BY <2>2 DEF States
  <2> HIDE DEF t
  <2>5. Once(t)
    BY <2>2, <2>3, <2>4 DEF Once
  <2>6. StoredPaths(t) = StoredPaths(s) /\ key \in StoredPaths(s)
    BY <1>5, <2>2, <2>3, <2>4 DEF StoredPaths, IsStored
  <2>7. \A p \in StoredPaths(s) : MocksOf(t)[p] = IF p = key THEN mock ELSE MocksOf(s)[p]
    <3> TAKE p \in StoredPaths(s)
    <3>1. PICK i \in DOMAIN st : p = st[i].path
      BY DEF StoredPaths
    <3>2. MocksOf(t)[new[i].path] = new[i].mock /\ MocksOf(s)[st[i].path] = st[i].mock
      BY <2>2, <2>4, <2>5, <3>1, MocksTyped
    <3> QED
      BY <2>3, <3>1, <3>2
  <2>8. DOMAIN MocksOf(t) = StoredPaths(s) /\ DOMAIN MocksOf(s) = StoredPaths(s)
    BY <2>6 DEF MocksOf
  <2>9. MocksOf(t) = With(MocksOf(s), key, mock)
    <3> DEFINE g == With(MocksOf(s), key, mock)
    <3>1. DOMAIN g = StoredPaths(s) /\ \A p \in StoredPaths(s) : g[p] = IF p = key THEN mock ELSE MocksOf(s)[p]
      BY <2>6, <2>8 DEF With
    <3>2. MocksOf(t) = [p \in StoredPaths(s) |-> MocksOf(t)[p]] /\ g = [p \in StoredPaths(s) |-> g[p]]
      BY <2>8, <3>1 DEF MocksOf, With
    <3> HIDE DEF g
    <3> QED
      BY <2>7, <3>1, <3>2 DEF g
  <2> QED
    BY <1>2, <2>4, <2>5, <2>9 DEF t
<1>6. CASE ~IsStored(s, key)
  <2>1. new = Append(st, entry)
    BY <1>6
  <2> HIDE DEF new
  <2> DEFINE n == Len(st)
  <2>2. new \in Seq(Entries) /\ DOMAIN new = 1..n + 1 /\ new[n + 1] = entry /\ \A i \in DOMAIN st : new[i] = st[i]
    BY <1>3, <1>4, <2>1
  <2>3. \A i \in DOMAIN st : st[i].path # key
    BY <1>6 DEF IsStored
  <2>4. t \in States /\ t.storage = new /\ t.routes = s.routes /\ t.sequences = s.sequences
        /\ t.recordings = s.recordings /\ t.objects = s.objects
    BY <2>2 DEF States
  <2> HIDE DEF t
  <2>a. \A i \in DOMAIN new : i = n + 1 \/ i \in DOMAIN st
    BY <1>3, <2>2
  <2>5. Once(t)
    <3>1. \A i, j \in DOMAIN st : new[i].path = new[j].path => i = j
      BY <2>2 DEF Once
    <3>2. \A i \in DOMAIN st : new[i].path # new[n + 1].path
      BY <1>4, <2>2, <2>3
    <3> QED
      BY <2>a, <2>4, <3>1, <3>2 DEF Once
  <2>6. StoredPaths(t) = StoredPaths(s) \union {key} /\ key \notin StoredPaths(s)
    <3>1. n + 1 \in DOMAIN new /\ \A i \in DOMAIN st : i \in DOMAIN new
      BY <1>3, <2>2
    <3> QED
      BY <1>4, <2>a, <2>2, <2>3, <2>4, <3>1 DEF StoredPaths
  <2>7. \A p \in StoredPaths(t) : MocksOf(t)[p] = IF p = key THEN mock ELSE MocksOf(s)[p]
    <3> TAKE p \in StoredPaths(t)
    <3>1. PICK i \in DOMAIN new : p = new[i].path
      BY <2>4 DEF StoredPaths
    <3>2. MocksOf(t)[new[i].path] = new[i].mock
      BY <2>4, <2>5, MocksTyped
    <3>3. CASE i = n + 1
      BY <1>4, <2>2, <3>1, <3>2, <3>3
    <3>4. CASE i \in DOMAIN st
      <4>1. MocksOf(s)[st[i].path] = st[i].mock
        BY <3>4, MocksTyped
      <4> QED
        BY <2>2, <2>3, <3>1, <3>2, <3>4, <4>1
    <3> QED
      BY <2>a, <3>3, <3>4
  <2>8. DOMAIN MocksOf(t) = StoredPaths(t) /\ DOMAIN MocksOf(s) = StoredPaths(s)
    BY DEF MocksOf
  <2>9. MocksOf(t) = With(MocksOf(s), key, mock)
    <3> DEFINE g == With(MocksOf(s), key, mock)
    <3>1. DOMAIN g = StoredPaths(t) /\ \A p \in StoredPaths(t) : g[p] = IF p = key THEN mock ELSE MocksOf(s)[p]
      BY <2>6, <2>8 DEF With
    <3>2. MocksOf(t) = [p \in StoredPaths(t) |-> MocksOf(t)[p]] /\ g = [p \in StoredPaths(t) |-> g[p]]
      BY <2>8, <3>1 DEF MocksOf, With
    <3> HIDE DEF g
    <3> QED
      BY <2>7, <3>1, <3>2 DEF g
  <2> QED
    BY <1>2, <2>4, <2>5, <2>9 DEF t
<1> QED
  BY <1>5, <1>6

LEMMA StateFields ==
    ASSUME NEW s \in States
    PROVE /\ s.storage \in Seq(Entries) /\ s.routes \in Seq(Routes)
          /\ s.sequences \in Registers /\ s.recordings \in Registers
          /\ \E O \in SUBSET Nat : s.objects \in [O -> 0..MaxProgress]
  BY DEF States

LEMMA RegisterFields ==
    ASSUME NEW f \in Registers
    PROVE DOMAIN f \in SUBSET Keys /\ \A p \in DOMAIN f : f[p] \in Nat
  BY DEF Registers

LEMMA RegisterWithout ==
    ASSUME NEW f \in Registers, NEW keys
    PROVE Without(f, keys) \in Registers
<1>1. PICK K \in SUBSET Keys : f \in [K -> Nat]
  BY DEF Registers
<1>2. Without(f, keys) \in [K \ keys -> Nat]
  BY <1>1 DEF Without
<1> QED
  BY <1>2 DEF Registers

LEMMA RegisterWith ==
    ASSUME NEW f \in Registers, NEW key \in Keys, NEW object \in Nat
    PROVE With(f, key, object) \in Registers
<1>1. PICK K \in SUBSET Keys : f \in [K -> Nat]
  BY DEF Registers
<1>2. With(f, key, object) \in [K \union {key} -> Nat]
  BY <1>1 DEF With
<1> QED
  BY <1>2 DEF Registers

LEMMA RouteFields ==
    ASSUME NEW s \in States, NEW i \in DOMAIN s.routes
    PROVE s.routes[i] \in Routes /\ Normalize(s.routes[i].path) \in Keys
          /\ s.routes[i].path \in RouteCandidates(Normalize(s.routes[i].path))
<1>1. s.routes[i] \in Routes
  BY StateFields
<1>2. PICK key \in Keys : s.routes[i].path \in RouteCandidates(key)
  BY <1>1 DEF Routes
<1>3. Normalize(s.routes[i].path) = key
  BY <1>2, KeysNormal, CandidatesOf
<1> QED
  BY <1>1, <1>2, <1>3

\* Forgetting a mock.
LEMMA Deleting ==
    ASSUME NEW s \in States, Once(s), NEW path
    PROVE LET t == DeleteMockData(s, path) IN
          /\ t \in States /\ Once(t)
          /\ MocksOf(t) = Without(MocksOf(s), {Normalize(path)})
          /\ t.routes = s.routes /\ t.sequences = s.sequences /\ t.recordings = s.recordings /\ t.objects = s.objects
<1> DEFINE st == s.storage
           key == Normalize(path)
           kept == {i \in DOMAIN st : st[i].path # key}
           new == Picked(st, kept)
           t == [s EXCEPT !.storage = new]
<1>1. DeleteMockData(s, path) = t
  BY DEF DeleteMockData
<1>2. st \in Seq(Entries) /\ kept \in SUBSET DOMAIN st
  BY StateFields
<1> HIDE DEF kept
<1>3. /\ new \in Seq(Entries)
      /\ \A n \in DOMAIN new : Position(kept, n) \in kept /\ new[n] = st[Position(kept, n)]
      /\ \A i \in kept : Rank(kept, i) \in DOMAIN new /\ new[Rank(kept, i)] = st[i]
      /\ \A n, k \in DOMAIN new : n < k => Position(kept, n) < Position(kept, k)
  BY <1>2, Selecting
<1> HIDE DEF new
<1>4. t \in States /\ t.storage = new /\ t.routes = s.routes /\ t.sequences = s.sequences
      /\ t.recordings = s.recordings /\ t.objects = s.objects
  BY <1>3 DEF States
<1> HIDE DEF t
<1>5. Once(t)
  <2> SUFFICES ASSUME NEW n \in DOMAIN new, NEW k \in DOMAIN new, new[n].path = new[k].path
               PROVE n = k
    BY <1>4 DEF Once
  <2>1. Position(kept, n) \in DOMAIN st /\ Position(kept, k) \in DOMAIN st
    BY <1>2, <1>3
  <2>2. Position(kept, n) = Position(kept, k)
    BY <1>3, <2>1 DEF Once
  <2>3. n \in Int /\ k \in Int
    BY <1>3
  <2>4. Position(kept, n) \in Int
    BY <1>2, <2>1
  <2>5. ~(n < k) /\ ~(k < n)
    BY <1>3, <2>2, <2>4
  <2> QED
    BY <2>3, <2>5
<1>6. \A p : p \in StoredPaths(t) <=> p \in StoredPaths(s) \ {key}
  <2>1. ASSUME NEW n \in DOMAIN new PROVE new[n].path \in StoredPaths(s) \ {key}
    BY <1>2, <1>3 DEF kept, StoredPaths
  <2>2. ASSUME NEW i \in DOMAIN st, st[i].path # key PROVE st[i].path \in StoredPaths(t)
    <3>1. i \in kept
      BY <2>2 DEF kept
    <3> QED
      BY <1>3, <1>4, <3>1 DEF StoredPaths
  <2>3. \A p \in StoredPaths(t) : \E n \in DOMAIN new : p = new[n].path
    BY <1>4 DEF StoredPaths
  <2>4. \A p \in StoredPaths(s) : \E i \in DOMAIN st : p = st[i].path
    BY DEF StoredPaths
  <2> QED
    BY <2>1, <2>2, <2>3, <2>4
<1>7. \A p \in StoredPaths(t) : MocksOf(t)[p] = MocksOf(s)[p]
  <2> TAKE p \in StoredPaths(t)
  <2>1. PICK n \in DOMAIN new : p = new[n].path
    BY <1>4 DEF StoredPaths
  <2>2. MocksOf(t)[new[n].path] = new[n].mock
    BY <1>4, <1>5, <2>1, MocksTyped
  <2>3. Position(kept, n) \in DOMAIN st /\ new[n] = st[Position(kept, n)]
    BY <1>2, <1>3
  <2>4. MocksOf(s)[st[Position(kept, n)].path] = st[Position(kept, n)].mock
    BY <2>3, MocksTyped
  <2> QED
    BY <2>1, <2>2, <2>3, <2>4
<1>8. MocksOf(t) = Without(MocksOf(s), {key})
  <2>1. DOMAIN MocksOf(t) = StoredPaths(t) /\ DOMAIN MocksOf(s) = StoredPaths(s)
    BY DEF MocksOf
  <2>2. StoredPaths(t) = StoredPaths(s) \ {key}
    BY <1>6
  <2>3. MocksOf(t) = [p \in StoredPaths(t) |-> MocksOf(t)[p]]
    BY DEF MocksOf
  <2>4. [p \in StoredPaths(t) |-> MocksOf(t)[p]] = [p \in StoredPaths(t) |-> MocksOf(s)[p]]
    BY <1>7
  <2> QED
    BY <2>1, <2>2, <2>3, <2>4 DEF Without
<1> QED
  BY <1>1, <1>4, <1>5, <1>8

\* The routes of other paths than these.
Others(s, keys) == {i \in DOMAIN s.routes : Normalize(s.routes[i].path) \notin keys}

\* What is left without them.
Reduced(s, keys) ==
    [s EXCEPT !.sequences = Without(@, keys), !.recordings = Without(@, keys), !.routes = Picked(@, Others(s, keys))]

LEMMA RemovedRoutes ==
    ASSUME NEW s \in States, NEW paths, NEW keys,
           keys = {Normalize(path) : path \in paths},
           \A path \in paths : Normalize(path) \in Keys /\ RouteCandidates(path) = RouteCandidates(Normalize(path))
    PROVE RemoveRuntimeRoutes(s, paths) = Reduced(s, keys)
<1> DEFINE kept == {i \in DOMAIN s.routes : \A path \in paths : s.routes[i].path \notin RouteCandidates(path)}
<1>1. \A i \in DOMAIN s.routes : i \in kept <=> Normalize(s.routes[i].path) \notin keys
  <2> TAKE i \in DOMAIN s.routes
  <2> DEFINE q == Normalize(s.routes[i].path)
  <2>1. q \in Keys /\ s.routes[i].path \in RouteCandidates(q)
    BY RouteFields
  <2>2. \A path \in paths : s.routes[i].path \in RouteCandidates(path) => Normalize(path) = q
    BY KeysNormal, CandidatesOf
  <2>3. \A path \in paths : Normalize(path) = q => s.routes[i].path \in RouteCandidates(path)
    BY <2>1
  <2> HIDE DEF q
  <2>4. q \in keys <=> \E path \in paths : Normalize(path) = q
    OBVIOUS
  <2> QED
    BY <2>2, <2>3, <2>4 DEF q
<1>2. kept = Others(s, keys)
  BY <1>1 DEF Others
<1> HIDE DEF kept
<1>3. RemoveRuntimeRoutes(s, paths)
          = [s EXCEPT !.sequences = Without(@, keys), !.recordings = Without(@, keys), !.routes = Picked(@, kept)]
  BY DEF RemoveRuntimeRoutes, kept
<1> QED
  BY <1>2, <1>3 DEF Reduced

\* Taking routes and registrations down.
LEMMA Removing ==
    ASSUME NEW s \in States, NEW m \in Configurations, Agreed(s, m), NEW paths, NEW keys,
           keys = {Normalize(path) : path \in paths},
           \A path \in paths : Normalize(path) \in Keys /\ RouteCandidates(path) = RouteCandidates(Normalize(path))
    PROVE LET t == RemoveRuntimeRoutes(s, paths) IN
          /\ t \in States /\ t.storage = s.storage /\ t.objects = s.objects
          /\ t.routes = Picked(s.routes, Others(s, keys))
          /\ Agreed(t, Without(m, keys))
          /\ Live(t) \subseteq Live(s)
          /\ \A p : p \notin keys => Registered(t, p) = Registered(s, p)
<1> DEFINE kept == Others(s, keys)
           seq == Without(s.sequences, keys)
           rec == Without(s.recordings, keys)
           new == Picked(s.routes, kept)
           t == [s EXCEPT !.sequences = seq, !.recordings = rec, !.routes = new]
           g == Without(m, keys)
<1>1. RemoveRuntimeRoutes(s, paths) = t
  <2>1. RemoveRuntimeRoutes(s, paths) = Reduced(s, keys)
    BY RemovedRoutes
  <2> QED
    BY <2>1 DEF Reduced
<1>2. /\ s.routes \in Seq(Routes) /\ s.sequences \in Registers /\ s.recordings \in Registers
      /\ kept \in SUBSET DOMAIN s.routes
  BY StateFields DEF Others
<1>3. \A i \in DOMAIN s.routes : i \in kept <=> Normalize(s.routes[i].path) \notin keys
  BY DEF Others
<1> HIDE DEF kept
<1>4. /\ new \in Seq(Routes)
      /\ \A n \in DOMAIN new : Position(kept, n) \in kept /\ new[n] = s.routes[Position(kept, n)]
      /\ \A i \in kept : \E n \in DOMAIN new : new[n] = s.routes[i]
  BY <1>2, Selecting
<1>5. seq \in Registers /\ rec \in Registers
  BY <1>2, RegisterWithout
<1>6. /\ DOMAIN seq = DOMAIN s.sequences \ keys /\ \A p \in DOMAIN seq : seq[p] = s.sequences[p]
      /\ DOMAIN rec = DOMAIN s.recordings \ keys /\ \A p \in DOMAIN rec : rec[p] = s.recordings[p]
      /\ DOMAIN g = DOMAIN m \ keys /\ \A p \in DOMAIN g : g[p] = m[p]
  BY DEF Without
<1> HIDE DEF new, seq, rec, g
<1>7. /\ t \in States /\ t.storage = s.storage /\ t.objects = s.objects
      /\ t.sequences = seq /\ t.recordings = rec /\ t.routes = new
  BY <1>4, <1>5 DEF States
<1> HIDE DEF t
<1>8. \A p : p \notin keys => Registered(t, p) = Registered(s, p)
  BY <1>6, <1>7 DEF Registered
<1>9. \A n \in DOMAIN new : \E i \in kept : new[n] = s.routes[i]
  BY <1>4
<1>10. Live(t) \subseteq Live(s)
  <2>1. Range(seq) \subseteq Range(s.sequences) /\ Range(rec) \subseteq Range(s.recordings)
    BY <1>6 DEF Range
  <2>2. \A n \in DOMAIN new : new[n].object \in {s.routes[i].object : i \in DOMAIN s.routes}
    BY <1>2, <1>9
  <2> QED
    BY <1>7, <2>1, <2>2 DEF Live
<1>11. Agreed(t, g)
  <2>1. DOMAIN t.sequences = DOMAIN g
    BY <1>6, <1>7 DEF Agreed
  <2>2. DOMAIN t.recordings = {p \in DOMAIN g : g[p].kind = "recording"}
    BY <1>6, <1>7 DEF Agreed
  <2>3. \A n \in DOMAIN t.routes : \E p \in DOMAIN g : t.routes[n].path \in RouteCandidates(p)
    <3> SUFFICES ASSUME NEW n \in DOMAIN new
                 PROVE \E p \in DOMAIN g : new[n].path \in RouteCandidates(p)
      BY <1>7
    <3>1. PICK i \in kept : new[n] = s.routes[i]
      BY <1>9
    <3>2. Normalize(s.routes[i].path) \notin keys /\ i \in DOMAIN s.routes
      BY <1>2, <1>3
    <3>3. PICK p \in DOMAIN m : s.routes[i].path \in RouteCandidates(p)
      BY <3>2 DEF Agreed
    <3>4. p \in Keys
      BY DEF Configurations
    <3>5. Normalize(s.routes[i].path) = p
      BY <3>3, <3>4, KeysNormal, CandidatesOf
    <3> QED
      BY <1>6, <3>1, <3>2, <3>3, <3>5
  <2>4. \A p \in DOMAIN g : \A spelling \in RouteCandidates(p) : \E n \in DOMAIN t.routes : t.routes[n].path = spelling
    <3> SUFFICES ASSUME NEW p \in DOMAIN g, NEW spelling \in RouteCandidates(p)
                 PROVE \E n \in DOMAIN new : new[n].path = spelling
      BY <1>7
    <3>1. p \in DOMAIN m /\ p \notin keys /\ p \in Keys
      BY <1>6 DEF Configurations
    <3>2. PICK i \in DOMAIN s.routes : s.routes[i].path = spelling
      BY <3>1 DEF Agreed
    <3>3. Normalize(spelling) = p
      BY <3>1, KeysNormal, CandidatesOf
    <3>4. i \in kept
      BY <1>3, <3>1, <3>2, <3>3
    <3> QED
      BY <1>4, <3>2, <3>4
  <2>5. ASSUME NEW n \in DOMAIN t.routes
        PROVE /\ t.routes[n].mock = g[Normalize(t.routes[n].path)]
              /\ t.routes[n].object = Registered(t, Normalize(t.routes[n].path))
    <3>1. PICK i \in kept : new[n] = s.routes[i]
      BY <1>7, <1>9
    <3> DEFINE q == Normalize(s.routes[i].path)
    <3>2. q \notin keys /\ i \in DOMAIN s.routes
      BY <1>2, <1>3
    <3>3. s.routes[i].mock = m[q] /\ s.routes[i].object = Registered(s, q)
      BY <3>2 DEF Agreed
    <3>4. q \in DOMAIN m
      <4>1. PICK p \in DOMAIN m : s.routes[i].path \in RouteCandidates(p)
        BY <3>2 DEF Agreed
      <4>2. p \in Keys
        BY DEF Configurations
      <4> QED
        BY <4>1, <4>2, KeysNormal, CandidatesOf
    <3> HIDE DEF q
    <3>5. g[q] = m[q] /\ Registered(t, q) = Registered(s, q)
      BY <1>6, <1>8, <3>2, <3>4
    <3> QED
      BY <1>7, <3>1, <3>3, <3>5 DEF q
  <2> QED
    BY <2>1, <2>2, <2>3, <2>4, <2>5 DEF Agreed
<1> QED
  BY <1>1, <1>7, <1>8, <1>10, <1>11 DEF g, new, kept

\* There is an object that nothing refers to.
LEMMA Fresh ==
    ASSUME NEW s \in States, Exist(s)
    PROVE LET o == CHOOSE o \in 1..Cardinality(Live(s)) + 1 : o \notin Live(s) IN
          o \in Nat \ {0} /\ o \notin Live(s)
<1> DEFINE c == Cardinality(Live(s))
<1>1. Live(s) \in SUBSET DOMAIN s.objects /\ IsFiniteSet(DOMAIN s.objects)
  BY DEF Exist
<1>2. IsFiniteSet(Live(s)) /\ c \in Nat
  BY <1>1, FS_Subset, FS_CardinalityType
<1>3. IsFiniteSet(1..c + 1) /\ Cardinality(1..c + 1) = c + 1
  <2> HIDE DEF c
  <2>1. IsFiniteSet(1..c + 1) /\ Cardinality(1..c + 1) = IF 1 > c + 1 THEN 0 ELSE (c + 1) - 1 + 1
    BY <1>2, FS_Interval
  <2> QED
    BY <1>2, <2>1
<1>4. ~(1..c + 1 \subseteq Live(s))
  <2> SUFFICES ASSUME 1..c + 1 \in SUBSET Live(s) PROVE FALSE
    OBVIOUS
  <2> DEFINE T == 1..c + 1
  <2> HIDE DEF T
  <2>1. Cardinality(T) <= Cardinality(Live(s))
    BY <1>2, FS_Subset DEF T
  <2> QED
    BY <1>2, <1>3, <2>1 DEF T
<1>5. \E o \in 1..c + 1 : o \notin Live(s)
  BY <1>4
<1> DEFINE o == CHOOSE o \in 1..c + 1 : o \notin Live(s)
<1>6. o \in 1..c + 1 /\ o \notin Live(s)
  BY <1>5
<1> HIDE DEF o
<1>7. o \in Nat \ {0}
  BY <1>2, <1>6
<1> QED
  BY <1>6, <1>7 DEF o

\* A mock taken up: its registrations and its routes.
Registering(s, path, mock, object, progress) ==
    AddRoutes(
        [s EXCEPT !.sequences = With(@, path, IF mock.kind = "sequence" THEN object ELSE NoObject),
                  !.recordings = IF mock.kind = "recording" THEN With(@, path, object) ELSE @,
                  !.objects = IF object = NoObject THEN @ ELSE With(@, object, progress)],
        path, mock, object)

NewRoutes(path, mock, object) ==
    IF path = Plain(Root) THEN <<[path |-> path, mock |-> mock, object |-> object]>>
    ELSE <<[path |-> path, mock |-> mock, object |-> object], [path |-> Slashed(path), mock |-> mock, object |-> object]>>

LEMMA NewRoutesOf ==
    ASSUME NEW key \in Keys, NEW mock \in Mocks, NEW object \in Nat
    PROVE \E new \in Seq(Routes) :
            /\ new = NewRoutes(key, mock, object)
            /\ {new[i].path : i \in DOMAIN new} = RouteCandidates(key)
            /\ \A i \in DOMAIN new : new[i].mock = mock /\ new[i].object = object
<1>1. RouteCandidates(key) = {key} \union (IF key = Plain(Root) THEN {} ELSE {Slashed(key)})
  BY KeysNormal, CandidatesOf
<1>2. \A p \in RouteCandidates(key) : [path |-> p, mock |-> mock, object |-> object] \in Routes
  BY DEF Routes
<1> QED
  <2>1. CASE key = Plain(Root)
    <3> DEFINE a == [path |-> key, mock |-> mock, object |-> object]
    <3>1. a \in Routes /\ a.path = key /\ a.mock = mock /\ a.object = object
      BY <1>1, <1>2
    <3>2. NewRoutes(key, mock, object) = <<a>>
      BY <2>1 DEF NewRoutes
    <3> HIDE DEF a
    <3>3. DOMAIN <<a>> = {1} /\ <<a>>[1] = a /\ <<a>> \in Seq(Routes)
      BY <3>1
    <3> QED
      BY <1>1, <2>1, <3>1, <3>2, <3>3
  <2>2. CASE key # Plain(Root)
    <3>1. [path |-> key, mock |-> mock, object |-> object] \in Routes
          /\ [path |-> Slashed(key), mock |-> mock, object |-> object] \in Routes
      BY <1>1, <1>2, <2>2
    <3> DEFINE a == [path |-> key, mock |-> mock, object |-> object]
               b == [path |-> Slashed(key), mock |-> mock, object |-> object]
    <3>2. NewRoutes(key, mock, object) = <<a, b>>
      BY <2>2 DEF NewRoutes
    <3>3. a.path = key /\ b.path = Slashed(key) /\ a.mock = mock /\ b.mock = mock /\ a.object = object /\ b.object = object
      OBVIOUS
    <3> HIDE DEF a, b
    <3>4. DOMAIN <<a, b>> = {1, 2} /\ <<a, b>>[1] = a /\ <<a, b>>[2] = b
      OBVIOUS
    <3>5. <<a, b>> \in Seq(Routes)
      BY <3>1 DEF a, b
    <3> QED
      BY <1>1, <2>2, <3>2, <3>3, <3>4, <3>5
  <2> QED
    BY <2>1, <2>2

LEMMA Registration ==
    ASSUME NEW s \in States, NEW m \in Configurations, Agreed(s, m), Exist(s),
           NEW key \in Keys, key \notin DOMAIN m, NEW mock \in Mocks,
           NEW object \in Nat, object = NoObject <=> mock.kind = "static", NEW progress \in 0..MaxProgress
    PROVE LET t == Registering(s, key, mock, object, progress) IN
          /\ t \in States /\ t.storage = s.storage /\ t.routes = s.routes \o NewRoutes(key, mock, object)
          /\ t.objects = IF object = NoObject THEN s.objects ELSE With(s.objects, object, progress)
          /\ Agreed(t, With(m, key, mock))
          /\ Exist(t)
          /\ Registered(t, key) = object
          /\ \A p : p # key => Registered(t, p) = Registered(s, p)
<1> DEFINE extra == NewRoutes(key, mock, object)
           new == s.routes \o extra
           seq == With(s.sequences, key, IF mock.kind = "sequence" THEN object ELSE NoObject)
           rec == IF mock.kind = "recording" THEN With(s.recordings, key, object) ELSE s.recordings
           obj == IF object = NoObject THEN s.objects ELSE With(s.objects, object, progress)
           t == [s EXCEPT !.sequences = seq, !.recordings = rec, !.objects = obj, !.routes = new]
           g == With(m, key, mock)
<1>1. Registering(s, key, mock, object, progress) = t
  BY DEF Registering, AddRoutes, NewRoutes, States
<1>2. /\ s.routes \in Seq(Routes) /\ s.sequences \in Registers /\ s.recordings \in Registers
      /\ \E O \in SUBSET Nat : s.objects \in [O -> 0..MaxProgress]
  BY StateFields
<1>3. /\ extra \in Seq(Routes)
      /\ {extra[i].path : i \in DOMAIN extra} = RouteCandidates(key)
      /\ \A i \in DOMAIN extra : extra[i].mock = mock /\ extra[i].object = object
  BY NewRoutesOf
<1> HIDE DEF extra
<1>4. /\ new \in Seq(Routes)
      /\ \A i \in DOMAIN new : (\E j \in DOMAIN s.routes : new[i] = s.routes[j]) \/ (\E j \in DOMAIN extra : new[i] = extra[j])
      /\ \A j \in DOMAIN s.routes : \E i \in DOMAIN new : new[i] = s.routes[j]
      /\ \A j \in DOMAIN extra : \E i \in DOMAIN new : new[i] = extra[j]
  <2> DEFINE n == Len(s.routes)
             k == Len(extra)
  <2>1. n \in Nat /\ k \in Nat /\ DOMAIN s.routes = 1..n /\ DOMAIN extra = 1..k
    BY <1>2, <1>3
  <2>2. new \in Seq(Routes) /\ Len(new) = n + k
        /\ \A i \in 1..n + k : new[i] = IF i <= n THEN s.routes[i] ELSE extra[i - n]
    BY <1>2, <1>3
  <2> HIDE DEF new, n, k
  <2>3. DOMAIN new = 1..n + k
    BY <2>1, <2>2
  <2>4. \A i \in 1..n + k : i \in 1..n \/ i - n \in 1..k
    BY <2>1
  <2>5. \A j \in 1..n : j \in 1..n + k /\ new[j] = s.routes[j]
    BY <2>1, <2>2
  <2>6. \A j \in 1..k : j + n \in 1..n + k /\ new[j + n] = extra[j]
    <3> TAKE j \in 1..k
    <3>1. j + n \in 1..n + k /\ ~(j + n <= n) /\ (j + n) - n = j
      BY <2>1
    <3> QED
      BY <2>2, <3>1
  <2>7. \A i \in DOMAIN new : (\E j \in DOMAIN s.routes : new[i] = s.routes[j]) \/ (\E j \in DOMAIN extra : new[i] = extra[j])
    <3> TAKE i \in DOMAIN new
    <3>1. CASE i \in 1..n
      BY <2>1, <2>5, <3>1
    <3>2. CASE i \notin 1..n
      <4>1. i \in 1..n + k /\ ~(i <= n) /\ i - n \in 1..k
        BY <2>1, <2>3, <2>4, <3>2
      <4> QED
        BY <2>1, <2>2, <4>1
    <3> QED
      BY <3>1, <3>2
  <2> QED
    BY <2>1, <2>2, <2>3, <2>5, <2>6, <2>7
<1>5. seq \in Registers /\ rec \in Registers
  BY <1>2, RegisterWith DEF NoObject
<1>6. \E O \in SUBSET Nat : obj \in [O -> 0..MaxProgress]
  <2>1. PICK O \in SUBSET Nat : s.objects \in [O -> 0..MaxProgress]
    BY <1>2
  <2>2. With(s.objects, object, progress) \in [O \union {object} -> 0..MaxProgress]
    BY <2>1 DEF With
  <2>3. O \union {object} \in SUBSET Nat
    OBVIOUS
  <2> QED
    BY <2>1, <2>2, <2>3
<1>7. /\ DOMAIN seq = DOMAIN s.sequences \union {key}
      /\ \A p \in DOMAIN seq : seq[p] = IF p = key THEN IF mock.kind = "sequence" THEN object ELSE NoObject ELSE s.sequences[p]
      /\ DOMAIN rec = IF mock.kind = "recording" THEN DOMAIN s.recordings \union {key} ELSE DOMAIN s.recordings
      /\ \A p \in DOMAIN rec : rec[p] = IF mock.kind = "recording" /\ p = key THEN object ELSE s.recordings[p]
      /\ DOMAIN g = DOMAIN m \union {key}
      /\ \A p \in DOMAIN g : g[p] = IF p = key THEN mock ELSE m[p]
      /\ DOMAIN obj = IF object = NoObject THEN DOMAIN s.objects ELSE DOMAIN s.objects \union {object}
  BY DEF With
<1> HIDE DEF new, seq, rec, obj, g
<1>8. /\ t \in States /\ t.storage = s.storage /\ t.routes = new
      /\ t.sequences = seq /\ t.recordings = rec /\ t.objects = obj
  BY <1>4, <1>5, <1>6 DEF States
<1> HIDE DEF t
<1>9. key \notin DOMAIN s.sequences /\ key \notin DOMAIN s.recordings
  BY DEF Agreed
<1>10. mock.kind \in {"static", "sequence", "recording"}
  BY MocksAssumption
<1>11. Registered(t, key) = object
  BY <1>7, <1>8, <1>9, <1>10 DEF Registered, NoObject
<1>12. \A p : p # key => Registered(t, p) = Registered(s, p)
  BY <1>7, <1>8 DEF Registered
<1>13. Exist(t)
  <2>1. Range(seq) \subseteq Range(s.sequences) \union {object, NoObject}
    <3>1. \A p \in DOMAIN seq : p = key \/ p \in DOMAIN s.sequences
      BY <1>7
    <3> QED
      BY <1>7, <3>1 DEF Range
  <2>2. Range(rec) \subseteq Range(s.recordings) \union {object, NoObject}
    <3>1. \A p \in DOMAIN rec : (mock.kind = "recording" /\ p = key) \/ p \in DOMAIN s.recordings
      BY <1>7
    <3> QED
      BY <1>7, <3>1 DEF Range
  <2>3. \A i \in DOMAIN new : new[i].object = object \/ new[i].object \in {s.routes[j].object : j \in DOMAIN s.routes}
    BY <1>3, <1>4
  <2>4. Live(t) \subseteq Live(s) \union ({object} \ {NoObject})
    BY <1>8, <2>1, <2>2, <2>3 DEF Live
  <2>5. Live(t) \subseteq DOMAIN obj
    BY <1>7, <2>4 DEF Exist
  <2>6. IsFiniteSet(DOMAIN obj)
    BY <1>7, FS_AddElement DEF Exist
  <2> QED
    BY <1>8, <2>5, <2>6 DEF Exist
<1>14. Agreed(t, g)
  <2>1. DOMAIN t.sequences = DOMAIN g
    BY <1>7, <1>8 DEF Agreed
  <2>2. DOMAIN t.recordings = {p \in DOMAIN g : g[p].kind = "recording"}
    <3>1. \A p \in DOMAIN g : p = key \/ (p \in DOMAIN m /\ p # key)
      BY <1>7
    <3>2. \A p \in DOMAIN m : p # key /\ p \in DOMAIN g /\ g[p] = m[p]
      BY <1>7
    <3>3. g[key] = mock /\ key \in DOMAIN g
      BY <1>7
    <3>4. DOMAIN s.recordings = {p \in DOMAIN m : m[p].kind = "recording"}
      BY DEF Agreed
    <3> QED
      BY <1>7, <1>8, <3>1, <3>2, <3>3, <3>4
  <2>3. \A i \in DOMAIN new : \E p \in DOMAIN g : new[i].path \in RouteCandidates(p)
    <3>1. \A j \in DOMAIN s.routes : \E p \in DOMAIN g : s.routes[j].path \in RouteCandidates(p)
      BY <1>7 DEF Agreed
    <3>2. \A j \in DOMAIN extra : extra[j].path \in RouteCandidates(key)
      BY <1>3
    <3> QED
      BY <1>4, <1>7, <3>1, <3>2
  <2>5. \A p \in DOMAIN g : \A spelling \in RouteCandidates(p) : \E i \in DOMAIN new : new[i].path = spelling
    <3>1. \A p \in DOMAIN m : \A spelling \in RouteCandidates(p) : \E j \in DOMAIN s.routes : s.routes[j].path = spelling
      BY DEF Agreed
    <3>2. \A spelling \in RouteCandidates(key) : \E j \in DOMAIN extra : extra[j].path = spelling
      BY <1>3
    <3> QED
      BY <1>4, <1>7, <3>1, <3>2
  <2>4. ASSUME NEW i \in DOMAIN t.routes
        PROVE /\ t.routes[i].mock = g[Normalize(t.routes[i].path)]
              /\ t.routes[i].object = Registered(t, Normalize(t.routes[i].path))
    <3>1. CASE \E j \in DOMAIN s.routes : new[i] = s.routes[j]
      <4>1. PICK j \in DOMAIN s.routes : new[i] = s.routes[j]
        BY <3>1
      <4>2. PICK p \in DOMAIN m : s.routes[j].path \in RouteCandidates(p)
        BY DEF Agreed
      <4>3. Normalize(s.routes[j].path) = p
        BY <4>2, KeysNormal, CandidatesOf DEF Configurations
      <4>4. p # key /\ p \in DOMAIN g
        BY <1>7
      <4>5. s.routes[j].mock = m[p] /\ s.routes[j].object = Registered(s, p)
        BY <4>3 DEF Agreed
      <4> QED
        BY <1>7, <1>8, <1>12, <4>1, <4>3, <4>4, <4>5
    <3>2. CASE \E j \in DOMAIN extra : new[i] = extra[j]
      <4>1. PICK j \in DOMAIN extra : new[i] = extra[j]
        BY <3>2
      <4>2. extra[j].path \in RouteCandidates(key) /\ extra[j].mock = mock /\ extra[j].object = object
        BY <1>3
      <4>3. Normalize(extra[j].path) = key
        BY <4>2, KeysNormal, CandidatesOf
      <4> QED
        BY <1>7, <1>8, <1>11, <4>1, <4>2, <4>3
    <3> QED
      BY <1>4, <1>8, <3>1, <3>2
  <2> QED
    BY <1>8, <2>1, <2>2, <2>3, <2>4, <2>5 DEF Agreed
<1> QED
  BY <1>1, <1>8, <1>11, <1>12, <1>13, <1>14 DEF g, new, extra, obj

\* What is agreed is said of the routes and registries alone.
LEMMA SameRoutes ==
    ASSUME NEW s, NEW t, t.routes = s.routes, t.sequences = s.sequences, t.recordings = s.recordings, t.objects = s.objects
    PROVE /\ \A m : Agreed(s, m) <=> Agreed(t, m)
          /\ Live(t) = Live(s) /\ (Exist(s) <=> Exist(t))
          /\ \A p : Registered(t, p) = Registered(s, p)
  BY DEF Agreed, Live, Exist, Registered

LEMMA SameStorage ==
    ASSUME NEW s, NEW t, t.storage = s.storage
    PROVE /\ MocksOf(t) = MocksOf(s) /\ StoredPaths(t) = StoredPaths(s) /\ (Once(s) <=> Once(t))
          /\ \A p : StoredMock(t, p) = StoredMock(s, p)
  BY DEF MocksOf, StoredPaths, Once, StoredMock

LEMMA WithWithout ==
    ASSUME NEW f, NEW key, NEW value
    PROVE With(Without(f, {key}), key, value) = With(f, key, value)
<1>1. DOMAIN Without(f, {key}) = DOMAIN f \ {key} /\ \A k \in DOMAIN f \ {key} : Without(f, {key})[k] = f[k]
  BY DEF Without
<1> DEFINE g == Without(f, {key})
<1> HIDE DEF g
<1>2. DOMAIN g \union {key} = DOMAIN f \union {key}
  BY <1>1 DEF g
<1>3. [k \in DOMAIN g \union {key} |-> IF k = key THEN value ELSE g[k]] = [k \in DOMAIN f \union {key} |-> IF k = key THEN value ELSE f[k]]
  BY <1>1, <1>2 DEF g
<1> QED
  BY <1>3 DEF With, g

\* The states MockInitialization goes through: the mock stored, the old routes and
\* registrations gone, and the object of the new ones.
Made(s, key, mock, stored, removed, object) ==
    /\ stored = SetMockData(s, key, mock)
    /\ stored \in States /\ Once(stored) /\ MocksOf(stored) = With(MocksOf(s), key, mock)
    /\ stored.routes = s.routes /\ stored.sequences = s.sequences /\ stored.recordings = s.recordings
    /\ stored.objects = s.objects
    /\ removed \in States /\ removed.storage = stored.storage /\ removed.objects = stored.objects
    /\ removed.routes = Picked(stored.routes, Others(stored, {key}))
    /\ \A p : p # key => Registered(removed, p) = Registered(stored, p)
    /\ Agreed(removed, Without(MocksOf(s), {key})) /\ Exist(removed)
    /\ object \in Nat /\ (object = NoObject <=> mock.kind = "static") /\ object \notin Live(removed)

LEMMA Making ==
    ASSUME NEW s, Consistent(s), NEW path, Normalize(path) \in Keys,
           NEW mock \in Mocks, NEW progress \in 0..MaxProgress
    PROVE \E stored, removed, object :
              /\ Made(s, Normalize(path), mock, stored, removed, object)
              /\ MockInitialization(s, path, mock, progress)
                     = Registering(removed, Normalize(path), mock, object, progress)
<1> DEFINE key == Normalize(path)
           stored == SetMockData(s, key, mock)
           removed == RemoveRuntimeRoutes(stored, {key})
           fresh == CHOOSE o \in 1..Cardinality(Live(removed)) + 1 : o \notin Live(removed)
           object == IF mock.kind = "static" THEN NoObject ELSE fresh
           t == Registering(removed, key, mock, object, progress)
           m == MocksOf(s)
<1>1. key \in Keys /\ Normalize(key) = key
  BY KeysNormal DEF IsNormal
<1>2. MockInitialization(s, path, mock, progress) = t
  BY <1>1 DEF MockInitialization, Registering
<1>3. s \in States /\ Once(s) /\ Agreed(s, m) /\ Exist(s)
  BY DEF Consistent
<1> HIDE DEF key
<1>4. /\ stored \in States /\ Once(stored) /\ MocksOf(stored) = With(m, key, mock)
      /\ stored.routes = s.routes /\ stored.sequences = s.sequences /\ stored.recordings = s.recordings /\ stored.objects = s.objects
  BY <1>1, <1>3, Storing
<1> HIDE DEF m, stored
<1>5. Agreed(stored, m) /\ Exist(stored)
  BY <1>3, <1>4, SameRoutes
<1>6. m \in Configurations
  BY <1>3, MocksTyped DEF m
<1> DEFINE paths == {key}
           g == Without(m, {key})
<1>7. paths = {Normalize(p) : p \in paths}
  BY <1>1
<1>8. \A p \in paths : Normalize(p) \in Keys /\ RouteCandidates(p) = RouteCandidates(Normalize(p))
  BY <1>1
<1> HIDE DEF paths
<1>9. /\ RemoveRuntimeRoutes(stored, paths) \in States
      /\ RemoveRuntimeRoutes(stored, paths).storage = stored.storage
      /\ RemoveRuntimeRoutes(stored, paths).objects = stored.objects
      /\ Agreed(RemoveRuntimeRoutes(stored, paths), Without(m, paths))
      /\ Live(RemoveRuntimeRoutes(stored, paths)) \subseteq Live(stored)
      /\ RemoveRuntimeRoutes(stored, paths).routes = Picked(stored.routes, Others(stored, paths))
      /\ \A p : p \notin paths => Registered(RemoveRuntimeRoutes(stored, paths), p) = Registered(stored, p)
  BY <1>4, <1>5, <1>6, <1>7, <1>8, Removing
<1>10. /\ removed \in States /\ removed.storage = stored.storage /\ removed.objects = stored.objects
       /\ Agreed(removed, g) /\ Live(removed) \subseteq Live(stored)
       /\ removed.routes = Picked(stored.routes, Others(stored, {key}))
       /\ \A p : p # key => Registered(removed, p) = Registered(stored, p)
  BY <1>9 DEF paths, g
<1> HIDE DEF removed
<1>11. Exist(removed)
  BY <1>5, <1>10 DEF Exist
<1>12. fresh \in Nat \ {0} /\ fresh \notin Live(removed)
  BY <1>10, <1>11, Fresh
<1> HIDE DEF fresh
<1>13. object \in Nat /\ (object = NoObject <=> mock.kind = "static") /\ object \notin Live(removed)
  BY <1>12 DEF NoObject, Live
<1> HIDE DEF object
<1> HIDE DEF t
<1>14. Made(s, key, mock, stored, removed, object)
  BY <1>4, <1>10, <1>11, <1>13 DEF Made, m, g, stored
<1> QED
  BY <1>2, <1>14 DEF key, t

\* Initializing a mock leaves everything consistent, and changes this mock only.
LEMMA Initializing ==
    ASSUME NEW s, Consistent(s), NEW path, Normalize(path) \in Keys,
           NEW mock \in Mocks, NEW progress \in 0..MaxProgress
    PROVE LET key == Normalize(path)
              t == MockInitialization(s, path, mock, progress)
          IN  Consistent(t) /\ MocksOf(t) = With(MocksOf(s), key, mock)
<1> DEFINE key == Normalize(path)
           m == MocksOf(s)
           g == Without(m, {key})
<1>1. PICK stored, removed, object :
          /\ Made(s, key, mock, stored, removed, object)
          /\ MockInitialization(s, path, mock, progress) = Registering(removed, key, mock, object, progress)
  BY Making
<1> DEFINE t == Registering(removed, key, mock, object, progress)
<1>2. key \in Keys
  OBVIOUS
<1> HIDE DEF key
<1>3. /\ stored \in States /\ Once(stored) /\ MocksOf(stored) = With(m, key, mock)
      /\ removed \in States /\ removed.storage = stored.storage /\ Agreed(removed, g) /\ Exist(removed)
      /\ object \in Nat /\ (object = NoObject <=> mock.kind = "static")
  BY <1>1 DEF Made
<1>4. m \in Configurations
  BY MocksTyped DEF Consistent
<1> HIDE DEF m
<1>5. g \in Configurations /\ key \notin DOMAIN g
  <2>1. PICK K \in SUBSET Keys : m \in [K -> Mocks]
    BY <1>4 DEF Configurations
  <2>2. g \in [K \ {key} -> Mocks] /\ K \ {key} \in SUBSET Keys
    BY <2>1 DEF Without
  <2> QED
    BY <2>2 DEF Configurations
<1> HIDE DEF g
<1>6. t \in States /\ t.storage = removed.storage /\ Agreed(t, With(g, key, mock)) /\ Exist(t)
  BY <1>2, <1>3, <1>5, Registration
<1> HIDE DEF t
<1>7. With(g, key, mock) = With(m, key, mock)
  BY WithWithout DEF g
<1>8. MocksOf(t) = With(m, key, mock) /\ Once(t)
  BY <1>3, <1>6, SameStorage
<1>9. Consistent(t)
  BY <1>6, <1>7, <1>8 DEF Consistent
<1> QED
  BY <1>1, <1>8, <1>9 DEF m, key, t

\* A full cleanup leaves nothing.
LEMMA Cleaning ==
    ASSUME NEW s, Consistent(s)
    PROVE LET t == CleanupStorage(s) IN
          /\ Consistent(t) /\ t.storage = << >> /\ t.routes = << >>
          /\ MocksOf(t) = [p \in {} |-> NoObject] /\ DOMAIN t.sequences = {} /\ DOMAIN t.recordings = {}
<1> DEFINE paths == StoredPaths(s)
           m == MocksOf(s)
           r == RemoveRuntimeRoutes(s, paths)
           t == [r EXCEPT !.storage = << >>]
<1>1. CleanupStorage(s) = t
  BY DEF CleanupStorage
<1>2. s \in States /\ Once(s) /\ Agreed(s, m) /\ Exist(s)
  BY DEF Consistent
<1>3. m \in Configurations /\ DOMAIN m = paths /\ paths \in SUBSET Keys
  BY <1>2, MocksTyped
<1> HIDE DEF paths, m
<1>4. \A path \in paths : Normalize(path) = path
  BY <1>3, KeysNormal DEF IsNormal
<1>5. paths = {Normalize(path) : path \in paths}
  BY <1>4
<1>6. \A path \in paths : Normalize(path) \in Keys /\ RouteCandidates(path) = RouteCandidates(Normalize(path))
  BY <1>3, <1>4
<1> DEFINE g == Without(m, paths)
<1>7. r \in States /\ r.objects = s.objects /\ Agreed(r, g) /\ Live(r) \subseteq Live(s)
  BY <1>2, <1>3, <1>5, <1>6, Removing
<1>8. DOMAIN g = {}
  BY <1>3 DEF Without
<1> HIDE DEF r, g
<1>9. << >> \in Seq(Entries)
  OBVIOUS
<1>10. /\ t \in States /\ t.storage = << >> /\ t.routes = r.routes /\ t.sequences = r.sequences
       /\ t.recordings = r.recordings /\ t.objects = s.objects
  BY <1>7, <1>9 DEF States
<1> HIDE DEF t
<1>11. Agreed(t, g) /\ Live(t) = Live(r)
  BY <1>7, <1>10, SameRoutes
<1>12. Exist(t)
  BY <1>2, <1>7, <1>10, <1>11 DEF Exist
<1>13. Once(t) /\ StoredPaths(t) = {}
  BY <1>10 DEF Once, StoredPaths
<1>14. DOMAIN MocksOf(t) = {} /\ MocksOf(t) = [p \in {} |-> NoObject]
  BY <1>13 DEF MocksOf
<1>15. Agreed(t, MocksOf(t))
  BY <1>8, <1>11, <1>14 DEF Agreed
<1>16. DOMAIN t.sequences = {} /\ DOMAIN t.recordings = {}
  BY <1>8, <1>11 DEF Agreed
<1>17. t.routes = << >>
  <2>1. t.routes \in Seq(Routes)
    BY <1>10, StateFields
  <2>2. DOMAIN t.routes = {}
    BY <1>8, <1>11 DEF Agreed
  <2>3. Len(t.routes) \in Nat /\ DOMAIN t.routes = 1..Len(t.routes)
    BY <2>1
  <2>4. Len(t.routes) = 0
    <3> DEFINE n == Len(t.routes)
    <3> HIDE DEF n
    <3>1. n \in Nat /\ 1..n = {}
      BY <2>2, <2>3 DEF n
    <3>2. n # 0 => 1 \in 1..n
      BY <3>1
    <3>3. n = 0
      BY <3>1, <3>2
    <3> QED
      BY <3>3 DEF n
  <2> QED
    BY <2>1, <2>4
<1> QED
  BY <1>1, <1>10, <1>12, <1>13, <1>14, <1>15, <1>16, <1>17 DEF Consistent

\* The states an import goes through: a function, because each is made from the one before.
After(s, document) ==
    CHOOSE after : after = [n \in 0..Len(document) |-> IF n = 0 THEN s ELSE Initialize(after[n - 1], document[n])]

LEMMA AfterEach ==
    ASSUME NEW s, NEW S, NEW document \in Seq(S)
    PROVE LET after == After(s, document) IN
          /\ after[0] = s
          /\ \A n \in 1..Len(document) : after[n] = Initialize(after[n - 1], document[n])
<1> DEFINE N == Len(document)
           Partial(f, n) == f = [k \in 0..n |-> IF k = 0 THEN s ELSE Initialize(f[k - 1], document[k])]
           T == {n \in 0..N : ~ \E f : Partial(f, n)}
<1>1. N \in Nat
  OBVIOUS
<1>2. T = {}
  <2> SUFFICES ASSUME T # {} PROVE FALSE
    OBVIOUS
  <2>1. T \in SUBSET Nat
    BY <1>1
  <2>2. PICK n \in T : \A k \in T : n <= k
    BY <2>1, Least
  <2>3. CASE n = 0
    <3> DEFINE f == [k \in 0..0 |-> s]
    <3>1. f = [k \in 0..0 |-> IF k = 0 THEN s ELSE Initialize(f[k - 1], document[k])]
      OBVIOUS
    <3>2. Partial(f, 0)
      BY <3>1
    <3> QED
      BY <2>2, <2>3, <3>2
  <2>4. CASE n # 0
    <3>1. n \in 0..N /\ n - 1 \in 0..N /\ n - 1 \notin T
      <4>1. n \in 0..N /\ n - 1 \in 0..N /\ ~(n <= n - 1)
        <5>1. n \in 0..N
          BY <2>2
        <5> QED
          BY <1>1, <2>4, <5>1
      <4> HIDE DEF T
      <4> QED
        BY <2>2, <4>1
    <3>2. PICK f : Partial(f, n - 1)
      BY <3>1
    <3> DEFINE g == [k \in 0..n |-> IF k = 0 THEN s ELSE Initialize(f[k - 1], document[k])]
    <3>3. \A k \in 0..n - 1 : g[k] = f[k]
      <4>1. \A k \in 0..n - 1 : f[k] = IF k = 0 THEN s ELSE Initialize(f[k - 1], document[k])
        BY <3>2
      <4>2. \A k \in 0..n - 1 : k \in 0..n
        BY <3>1
      <4> QED
        BY <4>1, <4>2
    <3>4. \A k \in 0..n : k # 0 => k - 1 \in 0..n - 1
      BY <3>1
    <3>5. [k \in 0..n |-> IF k = 0 THEN s ELSE Initialize(f[k - 1], document[k])]
          = [k \in 0..n |-> IF k = 0 THEN s ELSE Initialize(g[k - 1], document[k])]
      <4> HIDE DEF g
      <4> QED
        BY <3>3, <3>4
    <3>6. Partial(g, n)
      BY <3>5
    <3> QED
      BY <2>2, <3>6
  <2> QED
    BY <2>3, <2>4
<1>3. \E f : Partial(f, N)
  BY <1>1, <1>2
<1>4. After(s, document) = CHOOSE after : Partial(after, N)
  BY DEF After
<1>5. Partial(After(s, document), N)
  BY <1>3, <1>4
<1> DEFINE a == After(s, document)
<1>6. a = [k \in 0..N |-> IF k = 0 THEN s ELSE Initialize(a[k - 1], document[k])]
  BY <1>5
<1> HIDE DEF a
<1>7. 0 \in 0..N /\ \A n \in 1..N : n \in 0..N /\ n # 0
  BY <1>1
<1>8. a[0] = s /\ \A n \in 1..N : a[n] = Initialize(a[n - 1], document[n])
  BY <1>6, <1>7
<1> QED
  BY <1>8 DEF a

Imported(document) == IF Failing(document) = {} THEN Len(document) ELSE Min(Failing(document)) - 1

LEMMA InitializedAfter ==
    ASSUME NEW s, NEW document
    PROVE Initialized(s, document) = After(s, document)[Imported(document)]
  BY DEF Initialized, After, Imported

LEMMA ImportedBounds ==
    ASSUME NEW S, NEW document \in Seq(S)
    PROVE Imported(document) \in 0..Len(document)
<1>1. Len(document) \in Nat /\ Failing(document) \in SUBSET (1..Len(document))
  BY DEF Failing
<1>2. CASE Failing(document) = {}
  BY <1>1, <1>2 DEF Imported
<1>3. CASE Failing(document) # {}
  <2>1. Min(Failing(document)) \in Failing(document)
    BY <1>1, <1>3, Smallest
  <2> QED
    BY <1>1, <1>3, <2>1 DEF Imported
<1> QED
  BY <1>2, <1>3

Items == [path : Spellings, mock : Mocks, recordings : Nat]

LEMMA DocumentItems ==
    ASSUME NEW document \in Documents
    PROVE /\ document \in Seq(Items)
          /\ \A i \in DOMAIN document : /\ document[i].mock \in Mocks /\ document[i].recordings \in Nat
                                        /\ Key(document[i].path) \in Keys
<1> DEFINE own == [path : {item.path : item \in Range(document)}, mock : Mocks, recordings : Nat]
<1>1. document \in Seq(own)
  BY DocumentsAssumption
<1>2. Range(document) \subseteq UNION {Range(d) : d \in Documents}
  OBVIOUS
<1>3. own \subseteq Items
  BY <1>2 DEF Items, Spellings
<1> HIDE DEF own
<1>4. document \in Seq(Items)
  BY <1>1, <1>3
<1>5. \A i \in DOMAIN document : document[i] \in Items
  BY <1>4
<1> QED
  BY <1>4, <1>5 DEF Items, Keys

\* An import that was validated keeps everything consistent, however far it gets.
LEMMA Importing ==
    ASSUME NEW s, Consistent(s), NEW document \in Documents, Parses(document)
    PROVE \A n \in 0..Len(document) : Consistent(After(s, document)[n])
<1> DEFINE N == Len(document)
           a == After(s, document)
           T == {n \in 0..N : ~Consistent(a[n])}
<1>1. document \in Seq(Items) /\ N \in Nat
  BY DocumentItems
<1>2. a[0] = s /\ \A n \in 1..N : a[n] = Initialize(a[n - 1], document[n])
  BY <1>1, AfterEach
<1>3. SUFFICES ASSUME T # {} PROVE FALSE
  OBVIOUS
<1> HIDE DEF a
<1>4. PICK n \in T : \A k \in T : n <= k
  <2>1. T \in SUBSET Nat
    BY <1>1
  <2> HIDE DEF T
  <2> QED
    BY <1>3, <2>1, Least
<1>5. n \in 1..N /\ n - 1 \in 0..N
  BY <1>1, <1>2, <1>4
<1>6. Consistent(a[n - 1])
  <2>1. ~(n <= n - 1)
    BY <1>5
  <2> QED
    BY <1>4, <1>5, <2>1
<1> DEFINE item == document[n]
           path == Normalize(Normalize(Normalize(item.path)))
<1>7. item.mock \in Mocks /\ item.recordings \in Nat /\ Normalize(path) \in Keys
  BY <1>1, <1>5, DocumentItems DEF Key
<1>8. item.recordings \in 0..MaxProgress
  BY <1>1, <1>5, <1>7, BoundsAssumption DEF Parses
<1>9. Initialize(a[n - 1], item) = MockInitialization(a[n - 1], path, item.mock, item.recordings)
  BY DEF Initialize
<1> HIDE DEF item, path
<1>10. Consistent(MockInitialization(a[n - 1], path, item.mock, item.recordings))
  BY <1>6, <1>7, <1>8, Initializing
<1> QED
  BY <1>2, <1>4, <1>5, <1>9, <1>10 DEF item

-------------------------------------------------------------------------------
(* The invariant *)

IInv == Consistent(app) /\ DOMAIN app.objects = Live(app)

LEMMA Becoming ==
    ASSUME NEW s, Consistent(s), Become(s)
    PROVE IInv' /\ MocksOf(app)' = MocksOf(s)
<1> DEFINE obj == Restrict(s.objects, Live(s))
           t == [s EXCEPT !.objects = obj]
<1>1. s \in States /\ Once(s) /\ Agreed(s, MocksOf(s)) /\ Exist(s)
  BY DEF Consistent
<1>2. app' = t
  BY DEF Become
<1>3. PICK O \in SUBSET Nat : s.objects \in [O -> 0..MaxProgress]
  BY <1>1, StateFields
<1>4. Live(s) \in SUBSET DOMAIN s.objects /\ IsFiniteSet(DOMAIN s.objects) /\ DOMAIN s.objects = O
  BY <1>1, <1>3 DEF Exist
<1>5. obj \in [Live(s) -> 0..MaxProgress] /\ Live(s) \in SUBSET Nat
  BY <1>3, <1>4 DEF Restrict
<1>6. IsFiniteSet(Live(s))
  BY <1>4, FS_Subset
<1> HIDE DEF obj
<1>7. /\ t \in States /\ t.storage = s.storage /\ t.routes = s.routes /\ t.sequences = s.sequences
      /\ t.recordings = s.recordings /\ t.objects = obj
  BY <1>1, <1>5 DEF States
<1> HIDE DEF t
<1>8. Once(t) /\ MocksOf(t) = MocksOf(s)
  BY <1>1, <1>7, SameStorage
<1>9. Agreed(t, MocksOf(t)) /\ Live(t) = Live(s)
  BY <1>1, <1>7, <1>8 DEF Agreed, Live, Registered
<1>10. Exist(t) /\ DOMAIN t.objects = Live(t)
  BY <1>5, <1>6, <1>7, <1>9 DEF Exist
<1> QED
  BY <1>2, <1>7, <1>8, <1>9, <1>10 DEF IInv, Consistent

LEMMA Empty ==
    Init => IInv
<1> SUFFICES ASSUME Init PROVE IInv
  OBVIOUS
<1> DEFINE none == [p \in {} |-> NoObject]
           no == [o \in {} |-> 0]
<1>1. app = [storage |-> << >>, routes |-> << >>, sequences |-> none, recordings |-> none, objects |-> no]
  BY DEF Init, EmptyState
<1>2. none \in Registers
  <2>1. none \in [{} -> Nat]
    OBVIOUS
  <2> QED
    BY <2>1 DEF Registers
<1>3. no \in [{} -> 0..MaxProgress] /\ {} \in SUBSET Nat
  OBVIOUS
<1>4. << >> \in Seq(Entries) /\ << >> \in Seq(Routes)
  OBVIOUS
<1>5. DOMAIN none = {} /\ DOMAIN no = {} /\ DOMAIN << >> = {}
  OBVIOUS
<1> HIDE DEF none, no
<1>6. app \in States
  BY <1>1, <1>2, <1>3, <1>4 DEF States
<1>7. StoredPaths(app) = {} /\ Once(app)
  BY <1>1, <1>5 DEF StoredPaths, Once
<1>8. DOMAIN MocksOf(app) = {}
  BY <1>7 DEF MocksOf
<1>9. Agreed(app, MocksOf(app))
  BY <1>1, <1>5, <1>8 DEF Agreed
<1>10. Live(app) = {}
  BY <1>1, <1>5 DEF Live, Range
<1>11. Exist(app)
  BY <1>1, <1>5, <1>10, FS_EmptySet DEF Exist
<1> QED
  BY <1>1, <1>5, <1>6, <1>7, <1>9, <1>10, <1>11 DEF IInv, Consistent

LEMMA Configuring ==
    ASSUME IInv, NEW what, NEW path \in Paths, NEW mock \in Mocks, NEW progress \in 0..MaxProgress,
           Configure(what, path, mock, progress)
    PROVE IInv'
<1> DEFINE value == Normalize(Normalize(path))
           s == MockInitialization(app, Normalize(value), mock, progress)
<1>1. Normalize(Normalize(value)) \in Keys
  BY DEF Keys, Key, Spellings
<1>2. Consistent(app)
  BY DEF IInv
<1>3. Consistent(s)
  <2> HIDE DEF value
  <2> QED
    BY <1>1, <1>2, Initializing
<1>4. CASE UNCHANGED app
  BY <1>4 DEF IInv, Live
<1>5. CASE Become(s)
  BY <1>3, <1>5, Becoming
<1> QED
  BY <1>4, <1>5 DEF Configure

LEMMA ProgressTyped ==
    ASSUME IInv, NEW key
    PROVE Progress(app, key) \in 0..MaxProgress
<1>1. app \in States /\ Live(app) \subseteq DOMAIN app.objects
  BY DEF IInv, Consistent, Exist
<1>2. PICK O \in SUBSET Nat : app.objects \in [O -> 0..MaxProgress]
  BY <1>1, StateFields
<1>3. CASE Registered(app, key) = NoObject
  BY <1>3, BoundsAssumption DEF Progress
<1>4. CASE Registered(app, key) # NoObject
  <2>1. Registered(app, key) \in Live(app)
    BY <1>4 DEF Registered, Live, Range
  <2> QED
    BY <1>1, <1>2, <1>4, <2>1 DEF Progress
<1> QED
  BY <1>3, <1>4

\* The step for each request.
LEMMA PutStep ==
    ASSUME IInv, NEW path \in Paths, NEW mock \in Mocks, PutMock(path, mock)
    PROVE IInv'
<1>1. 0 \in 0..MaxProgress
  BY BoundsAssumption
<1> QED
  BY <1>1, Configuring DEF PutMock

LEMMA PatchStep ==
    ASSUME IInv, NEW path \in Paths, NEW mock \in Mocks, PatchMock(path, mock)
    PROVE IInv'
<1> DEFINE key == Normalize(Normalize(path))
           progress == PatchProgress(key, StoredMock(app, key), mock)
<1>1. progress \in 0..MaxProgress
  BY ProgressTyped, BoundsAssumption DEF PatchProgress
<1> HIDE DEF progress
<1>2. CASE Configure("patch", path, mock, progress)
  BY <1>1, <1>2, Configuring
<1>3. CASE UNCHANGED app
  BY <1>3 DEF IInv
<1> QED
  BY <1>2, <1>3 DEF PatchMock, progress

LEMMA DeleteStep ==
    ASSUME IInv, NEW path \in Paths, DeleteMock(path)
    PROVE IInv'
<1> DEFINE identity == Normalize(path)
           key == Normalize(identity)
           d == DeleteMockData(app, identity)
           r == RemoveRuntimeRoutes(d, {identity})
           m == MocksOf(app)
<1>1. app \in States /\ Once(app) /\ Agreed(app, m) /\ Exist(app)
  BY DEF IInv, Consistent
<1>2. CASE UNCHANGED app
  BY <1>2 DEF IInv
<1>3. CASE IsStored(app, key) /\ Become(r)
  <2>1. key \in Keys
    BY <1>1, <1>3, MocksTyped DEF IsStored, StoredPaths
  <2>2. Normalize(key) = key
    BY <2>1, KeysNormal DEF IsNormal
  <2> DEFINE g == Without(m, {key})
  <2>3. /\ d \in States /\ Once(d) /\ MocksOf(d) = g
        /\ d.routes = app.routes /\ d.sequences = app.sequences /\ d.recordings = app.recordings /\ d.objects = app.objects
    BY <1>1, Deleting
  <2>4. Agreed(d, m) /\ Exist(d)
    <3> HIDE DEF d, m
    <3> QED
      BY <1>1, <2>3, SameRoutes
  <2>5. m \in Configurations
    BY <1>1, MocksTyped
  <2> DEFINE paths == {identity}
             keys == {key}
  <2>6. keys = {Normalize(p) : p \in paths}
    OBVIOUS
  <2>7. \A p \in paths : Normalize(p) \in Keys /\ RouteCandidates(p) = RouteCandidates(Normalize(p))
    BY <2>1, <2>2 DEF RouteCandidates
  <2> HIDE DEF paths, keys, d, m
  <2>8. LET t == RemoveRuntimeRoutes(d, paths) IN
        /\ t \in States /\ t.storage = d.storage /\ t.objects = d.objects
        /\ Agreed(t, Without(m, keys)) /\ Live(t) \subseteq Live(d)
    BY <2>3, <2>4, <2>5, <2>6, <2>7, Removing
  <2>9. r \in States /\ r.storage = d.storage /\ r.objects = d.objects /\ Agreed(r, g) /\ Live(r) \subseteq Live(d)
    BY <2>8 DEF paths, keys
  <2> HIDE DEF r, g
  <2>10. Once(r) /\ MocksOf(r) = g
    BY <2>3, <2>9, SameStorage
  <2>11. Consistent(r)
    BY <2>4, <2>9, <2>10 DEF Consistent, Exist
  <2> QED
    BY <1>3, <2>11, Becoming
<1> QED
  BY <1>2, <1>3 DEF DeleteMock

LEMMA DeleteAllStep ==
    ASSUME IInv, DeleteMocks
    PROVE IInv'
<1>1. Consistent(CleanupStorage(app))
  BY Cleaning DEF IInv
<1> QED
  BY <1>1, Becoming DEF DeleteMocks

LEMMA ImportStep ==
    ASSUME IInv, NEW document \in Documents, NEW mode, ImportSnapshot(document, mode)
    PROVE IInv'
<1>1. Consistent(ImportStart(mode))
  BY Cleaning DEF IInv, ImportStart
<1>2. CASE UNCHANGED app
  BY <1>2 DEF IInv
<1>3. CASE Importable(document) /\ Become(Initialized(ImportStart(mode), document))
  <2>1. Imported(document) \in 0..Len(document)
    BY DocumentItems, ImportedBounds
  <2>2. Consistent(After(ImportStart(mode), document)[Imported(document)])
    BY <1>1, <1>3, <2>1, Importing DEF Importable
  <2>3. Consistent(Initialized(ImportStart(mode), document))
    BY <2>2, InitializedAfter
  <2> QED
    BY <1>3, <2>3, Becoming
<1> QED
  BY <1>2, <1>3 DEF ImportSnapshot

\* Answering moves one object on.
LEMMA Advancing ==
    ASSUME IInv, NEW i \in DOMAIN app.routes,
           app.routes[i].object # NoObject,
           app' = [app EXCEPT !.objects[app.routes[i].object] = Advanced(@)]
    PROVE IInv'
<1> DEFINE o == app.routes[i].object
           obj == [app.objects EXCEPT ![o] = Advanced(@)]
           t == [app EXCEPT !.objects = obj]
<1>1. app \in States /\ Once(app) /\ Agreed(app, MocksOf(app)) /\ Exist(app) /\ DOMAIN app.objects = Live(app)
  BY DEF IInv, Consistent
<1>2. o \in Live(app)
  BY DEF Live
<1>3. app' = t
  OBVIOUS
<1>4. PICK O \in SUBSET Nat : app.objects \in [O -> 0..MaxProgress]
  BY <1>1, StateFields
<1> HIDE DEF o
<1>5. o \in O
  BY <1>1, <1>2, <1>4
<1>6. Advanced(app.objects[o]) \in 0..MaxProgress
  BY <1>4, <1>5, BoundsAssumption DEF Advanced
<1>7. obj \in [O -> 0..MaxProgress] /\ DOMAIN obj = DOMAIN app.objects
  BY <1>4, <1>5, <1>6
<1> HIDE DEF obj
<1>8. /\ t \in States /\ t.storage = app.storage /\ t.routes = app.routes /\ t.sequences = app.sequences
      /\ t.recordings = app.recordings /\ t.objects = obj
  BY <1>1, <1>7 DEF States
<1> HIDE DEF t
<1>9. Once(t) /\ MocksOf(t) = MocksOf(app)
  BY <1>1, <1>8, SameStorage
<1>10. Agreed(t, MocksOf(t)) /\ Live(t) = Live(app)
  BY <1>1, <1>8, <1>9 DEF Agreed, Live, Registered
<1>11. Exist(t) /\ DOMAIN t.objects = Live(t)
  BY <1>1, <1>7, <1>8, <1>10 DEF Exist
<1> QED
  BY <1>3, <1>8, <1>9, <1>10, <1>11 DEF IInv, Consistent

LEMMA ServeStep ==
    ASSUME IInv, NEW url, NEW method, Serve(url, method)
    PROVE IInv'
<1> DEFINE F == Full(url, method)
           i == Min(F)
<1>1. CASE UNCHANGED app
  BY <1>1 DEF IInv
<1>2. CASE F # {} /\ Answer(url, method, app.routes[i])
  <2>1. app.routes \in Seq(Routes)
    BY StateFields DEF IInv, Consistent
  <2>2. F \subseteq DOMAIN app.routes /\ F \in SUBSET Nat
    BY <2>1 DEF Full, Candidates
  <2> HIDE DEF F
  <2>3. i \in F
    BY <1>2, <2>2, Smallest
  <2>4. i \in DOMAIN app.routes
    BY <2>2, <2>3
  <2> HIDE DEF i
  <2> QED
    BY <1>1, <1>2, <2>4, Advancing DEF Answer
<1> QED
  BY <1>1, <1>2 DEF Serve, Refuse

\* The storage, the routes, the registries and the objects stay consistent.
THEOREM Inductive == Spec => []IInv
<1>1. Init => IInv
  BY Empty
<1>2. IInv /\ [Next]_vars => IInv'
  <2> SUFFICES ASSUME IInv, [Next]_vars PROVE IInv'
    OBVIOUS
  <2>1. ASSUME NEW path \in Paths, DeleteMock(path) PROVE IInv'
    BY <2>1, DeleteStep
  <2>2. ASSUME NEW path \in Paths, NEW mock \in Mocks, PutMock(path, mock) PROVE IInv'
    BY <2>2, PutStep
  <2>3. ASSUME NEW path \in Paths, NEW mock \in Mocks, PatchMock(path, mock) PROVE IInv'
    BY <2>3, PatchStep
  <2>4. CASE DeleteMocks
    BY <2>4, DeleteAllStep
  <2>5. CASE ExportSnapshot
    BY <2>5 DEF ExportSnapshot, IInv
  <2>6. ASSUME NEW document \in Documents, NEW mode \in {"merge", "replace"}, ImportSnapshot(document, mode) PROVE IInv'
    BY <2>6, ImportStep
  <2>7. ASSUME NEW url \in Urls, NEW method \in Methods, Serve(url, method) PROVE IInv'
    BY <2>7, ServeStep
  <2>8. CASE UNCHANGED vars
    BY <2>8 DEF vars, IInv
  <2> QED
    BY <2>1, <2>2, <2>3, <2>4, <2>5, <2>6, <2>7, <2>8 DEF Next
<1> QED
  BY <1>1, <1>2, PTL DEF Spec

LEMMA ObjectsTyped ==
    ASSUME IInv
    PROVE app.objects \in [Live(app) -> 0..MaxProgress]
<1>1. app \in States /\ DOMAIN app.objects = Live(app)
  BY DEF IInv, Consistent
<1>2. PICK O \in SUBSET Nat : app.objects \in [O -> 0..MaxProgress]
  BY <1>1, StateFields
<1> QED
  BY <1>1, <1>2

\* No path is stored twice, and what is referred to exists.
THEOREM TypeCorrect == Spec => []TypeOK
<1>1. IInv => TypeOK
  <2> SUFFICES ASSUME IInv PROVE TypeOK
    OBVIOUS
  <2>1. app \in States /\ Once(app) /\ Agreed(app, MocksOf(app))
    BY DEF IInv, Consistent
  <2>2. \A i \in DOMAIN app.storage : app.storage[i].mock \in Mocks
    BY <2>1, MocksTyped DEF Entries
  <2>3. DOMAIN app.recordings \subseteq DOMAIN app.sequences
    BY <2>1 DEF Agreed
  <2> QED
    BY <2>1, <2>2, <2>3, ObjectsTyped DEF TypeOK, Once
<1> QED
  BY <1>1, Inductive, PTL

\* The storage, the routes and the registries tell of the same mocks.
THEOREM Agreement == Spec => []RegistriesAgree
<1>1. IInv => RegistriesAgree
  <2> SUFFICES ASSUME IInv PROVE RegistriesAgree
    OBVIOUS
  <2> DEFINE m == MocksOf(app)
  <2>1. app \in States /\ Once(app) /\ Agreed(app, m)
    BY DEF IInv, Consistent
  <2>2. StoredPaths(app) = DOMAIN m /\ \A p \in DOMAIN m : m[p] = StoredMock(app, p)
    BY DEF MocksOf
  <2>3. DOMAIN m \in SUBSET Keys
    BY <2>1, MocksTyped
  <2> HIDE DEF m
  <2>4. StoredPaths(app) = DOMAIN app.sequences
    BY <2>1, <2>2 DEF Agreed
  <2>5. DOMAIN app.recordings = {p \in StoredPaths(app) : StoredMock(app, p).kind = "recording"}
    BY <2>1, <2>2 DEF Agreed
  <2>6. {app.routes[i].path : i \in DOMAIN app.routes} = UNION {RouteCandidates(p) : p \in StoredPaths(app)}
    BY <2>1, <2>2 DEF Agreed
  <2>7. ASSUME NEW i \in DOMAIN app.routes
        PROVE LET p == Normalize(app.routes[i].path) IN
              app.routes[i].mock = StoredMock(app, p) /\ app.routes[i].object = Registered(app, p)
    <3> DEFINE p == Normalize(app.routes[i].path)
    <3>1. PICK q \in DOMAIN m : app.routes[i].path \in RouteCandidates(q)
      BY <2>1 DEF Agreed
    <3>2. p = q
      BY <2>3, <3>1, KeysNormal, CandidatesOf
    <3>3. app.routes[i].mock = m[p] /\ app.routes[i].object = Registered(app, p)
      BY <2>1 DEF Agreed
    <3> HIDE DEF p
    <3> QED
      BY <2>2, <3>2, <3>3 DEF p
  <2> QED
    BY <2>4, <2>5, <2>6, <2>7 DEF RegistriesAgree
<1> QED
  BY <1>1, Inductive, PTL

-------------------------------------------------------------------------------
(* Selections of selections *)

\* q lists the positions kept, in their order.
Enumerates(q, c, kept, m) ==
    /\ kept \in SUBSET (1..m)
    /\ q \in [1..c -> kept]
    /\ \A n, k \in 1..c : n < k => q[n] < q[k]
    /\ \A i \in kept : \E n \in 1..c : q[n] = i

\* Whatever does is the enumeration.
LEMMA Enumeration ==
    ASSUME NEW m \in Nat, NEW kept, NEW c \in Nat, NEW q, Enumerates(q, c, kept, m)
    PROVE Cardinality(kept) = c /\ \A n \in 1..c : Position(kept, n) = q[n] /\ Rank(kept, q[n]) = n
<1> USE DEF Enumerates
<1>1. \A n \in 1..c : q[n] \in 1..m
  OBVIOUS
<1>2. \A n, k \in 1..c : q[n] = q[k] => n = k
  <2> SUFFICES ASSUME NEW n \in 1..c, NEW k \in 1..c, q[n] = q[k] PROVE n = k
    OBVIOUS
  <2>1. ~(n < k) /\ ~(k < n)
    BY <1>1
  <2> QED
    BY <2>1
<1>3. Cardinality(kept) = c
  <2>1. q \in Injection(1..c, kept) /\ q \in Surjection(1..c, kept)
    BY <1>2 DEF Injection, IsInjective, Surjection
  <2>2. ExistsBijection(1..c, kept)
    BY <2>1 DEF ExistsBijection, Bijection
  <2> QED
    BY <2>2, FS_CountingElements
<1>4. ASSUME NEW n \in 1..c PROVE Rank(kept, q[n]) = n
  <2> DEFINE T == kept \cap 1..q[n]
             p == [k \in 1..n |-> q[k]]
  <2>1. \A k \in 1..n : k \in 1..c /\ (k = n \/ k < n)
    OBVIOUS
  <2>2. \A k \in 1..n : q[k] \in T
    <3> TAKE k \in 1..n
    <3>1. q[k] = q[n] \/ q[k] < q[n]
      BY <2>1
    <3>2. q[k] \in 1..m /\ q[n] \in 1..m /\ q[k] \in kept
      BY <1>1, <2>1
    <3> QED
      BY <3>1, <3>2
  <2>3. \A i \in T : \E k \in 1..n : q[k] = i
    <3> TAKE i \in T
    <3>1. PICK k \in 1..c : q[k] = i
      OBVIOUS
    <3>2. q[k] <= q[n] /\ q[k] \in 1..m /\ q[n] \in 1..m
      BY <1>1, <3>1
    <3>3. ~(n < k)
      BY <3>2
    <3>4. k \in 1..n
      BY <3>3
    <3> QED
      BY <3>1, <3>4
  <2> HIDE DEF T
  <2>4. p \in [1..n -> T]
    BY <2>2
  <2>5. \A j, k \in 1..n : p[j] = p[k] => j = k
    BY <1>2, <2>1
  <2>6. p \in Injection(1..n, T)
    BY <2>4, <2>5 DEF Injection, IsInjective
  <2>7. p \in Surjection(1..n, T)
    BY <2>3, <2>4 DEF Surjection
  <2>8. ExistsBijection(1..n, T)
    BY <2>6, <2>7 DEF ExistsBijection, Bijection
  <2>9. n \in Nat
    OBVIOUS
  <2>10. Cardinality(T) = n
    BY <2>8, <2>9, FS_CountingElements
  <2> QED
    BY <2>10 DEF T, Rank
<1>5. \A i \in kept : Position(kept, Rank(kept, i)) = i
  BY Positions
<1> QED
  BY <1>3, <1>4, <1>5

LEMMA PickedByEnumeration ==
    ASSUME NEW s, NEW m \in Nat, NEW kept, NEW c \in Nat, NEW q, Enumerates(q, c, kept, m)
    PROVE /\ Picked(s, kept) = [n \in DOMAIN Picked(s, kept) |-> Picked(s, kept)[n]]
          /\ DOMAIN Picked(s, kept) = 1..c
          /\ \A n \in 1..c : Picked(s, kept)[n] = s[q[n]]
<1>1. Cardinality(kept) = c /\ \A n \in 1..c : Position(kept, n) = q[n]
  BY Enumeration
<1>2. Picked(s, kept) = [n \in 1..c |-> s[Position(kept, n)]]
  BY <1>1 DEF Picked, Position
<1> QED
  BY <1>1, <1>2

\* One more element, kept or not.
LEMMA PickedAppend ==
    ASSUME NEW S, NEW s \in Seq(S), NEW e \in S, NEW kept \in SUBSET DOMAIN s
    PROVE /\ Picked(Append(s, e), kept) = Picked(s, kept)
          /\ Picked(Append(s, e), kept \union {Len(s) + 1}) = Append(Picked(s, kept), e)
<1> DEFINE m == Len(s)
           c == Cardinality(kept)
           longer == Append(s, e)
           all == kept \union {m + 1}
<1>1. m \in Nat /\ kept \in SUBSET (1..m) /\ longer[m + 1] = e /\ \A i \in 1..m : longer[i] = s[i]
  OBVIOUS
<1> HIDE DEF longer, m
<1>2. c \in Nat /\ \A n \in 1..c : Position(kept, n) \in kept
  <2>1. \A n \in 1..c : Position(kept, n) \in kept
    BY <1>1, Positions
  <2>2. c \in Nat
    BY <1>1, Ranks
  <2> QED
    BY <2>1, <2>2
<1>3. \A i \in kept : \E n \in 1..c : Position(kept, n) = i
  <2>1. \A i \in kept : Rank(kept, i) \in 1..c /\ Position(kept, Rank(kept, i)) = i
    BY <1>1, Ranks, Positions
  <2> QED
    BY <2>1
<1>4. \A n, k \in 1..c : n < k => Position(kept, n) < Position(kept, k)
  BY <1>1, Positions
<1>5. Picked(s, kept) = [n \in 1..c |-> s[Position(kept, n)]] /\ Picked(longer, kept) = [n \in 1..c |-> longer[Position(kept, n)]]
  BY DEF Picked, Position
<1> HIDE DEF c
<1>6. Picked(longer, kept) = Picked(s, kept)
  <2>1. \A n \in 1..c : longer[Position(kept, n)] = s[Position(kept, n)]
    BY <1>1, <1>2
  <2> QED
    BY <1>5, <2>1
<1>7. Picked(longer, all) = Append(Picked(s, kept), e)
  <2> DEFINE q == [n \in 1..c + 1 |-> IF n = c + 1 THEN m + 1 ELSE Position(kept, n)]
  <2>1. \A n \in 1..c + 1 : n = c + 1 \/ (n # c + 1 /\ n \in 1..c)
    BY <1>2
  <2>2. all \in SUBSET (1..m + 1) /\ m + 1 \in Nat /\ c + 1 \in Nat
    BY <1>1, <1>2
  <2>3. q \in [1..c + 1 -> all]
    BY <1>2, <2>1
  <2>4. \A n, k \in 1..c + 1 : n < k => q[n] < q[k]
    <3> SUFFICES ASSUME NEW n \in 1..c + 1, NEW k \in 1..c + 1, n < k PROVE q[n] < q[k]
      OBVIOUS
    <3>1. n \in 1..c /\ n # c + 1
      BY <1>2
    <3>2. Position(kept, n) \in kept /\ Position(kept, n) < m + 1
      BY <1>1, <1>2, <3>1
    <3>3. k # c + 1 => Position(kept, n) < Position(kept, k)
      BY <1>4, <2>1, <3>1
    <3> QED
      BY <3>1, <3>2, <3>3
  <2>5. \A i \in all : \E n \in 1..c + 1 : q[n] = i
    <3>1. c + 1 \in 1..c + 1 /\ q[c + 1] = m + 1
      BY <1>2
    <3>2. \A n \in 1..c : n \in 1..c + 1 /\ q[n] = Position(kept, n)
      BY <1>2
    <3> QED
      BY <1>3, <3>1, <3>2
  <2> HIDE DEF all
  <2>6. \A n \in 1..c + 1 : q[n] = IF n = c + 1 THEN m + 1 ELSE Position(kept, n)
    OBVIOUS
  <2> HIDE DEF q
  <2>7. Picked(longer, all) = [n \in 1..c + 1 |-> longer[q[n]]]
    <3> DEFINE d == c + 1
               k == m + 1
    <3>1. Enumerates(q, d, all, k)
      BY <2>2, <2>3, <2>4, <2>5 DEF Enumerates
    <3>2. d \in Nat /\ k \in Nat
      BY <2>2
    <3> HIDE DEF d, k
    <3>3. /\ Picked(longer, all) = [n \in DOMAIN Picked(longer, all) |-> Picked(longer, all)[n]]
          /\ DOMAIN Picked(longer, all) = 1..d
          /\ \A n \in 1..d : Picked(longer, all)[n] = longer[q[n]]
      <4>1. DOMAIN Picked(longer, all) = 1..d
        <5>1. Cardinality(all) = d
          BY <3>1, <3>2, Enumeration
        <5> QED
          BY <5>1 DEF Picked
      <4>2. \A n \in 1..d : Picked(longer, all)[n] = longer[q[n]]
        BY <3>1, <3>2, PickedByEnumeration
      <4>3. Picked(longer, all) = [n \in DOMAIN Picked(longer, all) |-> Picked(longer, all)[n]]
        BY DEF Picked
      <4> QED
        BY <4>1, <4>2, <4>3
    <3>4. Picked(longer, all) = [n \in 1..d |-> longer[q[n]]]
      BY <3>3
    <3> QED
      BY <3>4 DEF d
  <2> DEFINE p == Picked(s, kept)
  <2>8. p \in Seq(S) /\ Len(p) = c /\ \A n \in 1..c : p[n] = s[Position(kept, n)]
    <3>1. p \in Seq(S) /\ Len(p) = Cardinality(kept)
      BY Selecting
    <3> QED
      BY <1>5, <3>1 DEF c
  <2> HIDE DEF p
  <2>9. Append(p, e) = [n \in 1..c + 1 |-> IF n = c + 1 THEN e ELSE p[n]]
    <3> DEFINE a == Append(p, e)
    <3>1. a \in Seq(S) /\ Len(a) = c + 1
      BY <2>8
    <3>2. \A n \in 1..c + 1 : a[n] = IF n = c + 1 THEN e ELSE p[n]
      BY <2>1, <2>8
    <3> HIDE DEF a
    <3>3. a = [n \in 1..c + 1 |-> a[n]]
      BY <3>1
    <3>4. a = [n \in 1..c + 1 |-> IF n = c + 1 THEN e ELSE p[n]]
      BY <3>2, <3>3
    <3> QED
      BY <3>4 DEF a
  <2>10. \A n \in 1..c + 1 : longer[q[n]] = IF n = c + 1 THEN e ELSE p[n]
    <3> TAKE n \in 1..c + 1
    <3>1. CASE n = c + 1
      BY <1>1, <2>6, <3>1
    <3>2. CASE n # c + 1 /\ n \in 1..c
      BY <1>1, <1>2, <2>6, <2>8, <3>2
    <3> QED
      BY <2>1, <3>1, <3>2
  <2> QED
    BY <2>7, <2>9, <2>10 DEF p
<1> QED
  BY <1>6, <1>7 DEF longer, m

\* Selecting twice.
LEMMA PickedTwice ==
    ASSUME NEW S, NEW s \in Seq(S), NEW kept \in SUBSET DOMAIN s, NEW both \in SUBSET kept
    PROVE Picked(Picked(s, kept), {Rank(kept, i) : i \in both}) = Picked(s, both)
<1> DEFINE m == Len(s)
           c == Cardinality(kept)
           b == Cardinality(both)
           J == {Rank(kept, i) : i \in both}
           p == Picked(s, kept)
           q == [n \in 1..b |-> Rank(kept, Position(both, n))]
<1>1. m \in Nat /\ kept \in SUBSET (1..m) /\ both \in SUBSET (1..m)
  OBVIOUS
<1>2. /\ c \in Nat /\ \A i \in kept : Rank(kept, i) \in 1..c /\ p[Rank(kept, i)] = s[i]
      /\ p = [n \in 1..c |-> s[Position(kept, n)]]
  <2>1. c \in Nat /\ \A i \in kept : Rank(kept, i) \in 1..c
    BY <1>1, Ranks
  <2>2. \A i \in kept : p[Rank(kept, i)] = s[i]
    BY Selecting
  <2> QED
    BY <2>1, <2>2 DEF Picked, Position
<1>3. \A i, k \in kept : i < k => Rank(kept, i) < Rank(kept, k)
  BY <1>1, Ranks
<1>4. b \in Nat /\ \A n \in 1..b : Position(both, n) \in both
  <2>1. \A n \in 1..b : Position(both, n) \in both
    BY <1>1, Positions
  <2>2. b \in Nat
    BY <1>1, Ranks
  <2> QED
    BY <2>1, <2>2
<1>5. \A n, k \in 1..b : n < k => Position(both, n) < Position(both, k)
  BY <1>1, Positions
<1>6. \A i \in both : \E n \in 1..b : Position(both, n) = i
  <2>1. \A i \in both : Rank(both, i) \in 1..b /\ Position(both, Rank(both, i)) = i
    BY <1>1, Ranks, Positions
  <2> QED
    BY <2>1
<1> HIDE DEF m, c, b, p
<1>7. J \in SUBSET (1..c)
  BY <1>2
<1>8. q \in [1..b -> J]
  BY <1>4
<1>9. \A n, k \in 1..b : n < k => q[n] < q[k]
  BY <1>3, <1>4, <1>5
<1>10. \A j \in J : \E n \in 1..b : q[n] = j
  BY <1>6
<1> HIDE DEF J
<1>11. \A n \in 1..b : q[n] = Rank(kept, Position(both, n))
  OBVIOUS
<1> HIDE DEF q
<1>12. Picked(p, J) = [n \in 1..b |-> p[q[n]]]
  <2>1. Enumerates(q, b, J, c)
    BY <1>7, <1>8, <1>9, <1>10 DEF Enumerates
  <2>2. c \in Nat /\ b \in Nat
    BY <1>2, <1>4
  <2>3. /\ Picked(p, J) = [n \in DOMAIN Picked(p, J) |-> Picked(p, J)[n]]
        /\ DOMAIN Picked(p, J) = 1..b
        /\ \A n \in 1..b : Picked(p, J)[n] = p[q[n]]
    BY <2>1, <2>2, PickedByEnumeration
  <2> QED
    BY <2>3
<1>13. Picked(s, both) = [n \in 1..b |-> s[Position(both, n)]]
  BY DEF Picked, Position, b
<1>14. \A n \in 1..b : p[q[n]] = s[Position(both, n)]
  BY <1>2, <1>4, <1>11
<1> QED
  BY <1>12, <1>13, <1>14 DEF p, J

Injective(s) == \A i, j \in DOMAIN s : s[i] = s[j] => i = j

\* Of the positions kept those with a value in W; the elements of a sequence that are in W.
Where(s, kept, W) == {i \in kept : s[i] \in W}
Only(s, W) == Picked(s, Where(s, DOMAIN s, W))

\* Selecting by the values of what was selected.
LEMMA PickedWhere ==
    ASSUME NEW S, NEW s \in Seq(S), NEW kept \in SUBSET DOMAIN s, NEW W
    PROVE Only(Picked(s, kept), W) = Picked(s, Where(s, kept, W))
<1> DEFINE p == Picked(s, kept)
           both == {i \in kept : s[i] \in W}
           J == {n \in DOMAIN p : p[n] \in W}
<1>1. /\ \A n \in DOMAIN p : Position(kept, n) \in kept /\ p[n] = s[Position(kept, n)]
      /\ \A i \in kept : Rank(kept, i) \in DOMAIN p /\ p[Rank(kept, i)] = s[i]
  BY Selecting
<1>2. \A n \in DOMAIN p : Rank(kept, Position(kept, n)) = n
  <2>1. Len(s) \in Nat /\ kept \in SUBSET (1..Len(s))
    OBVIOUS
  <2>2. \A n \in 1..Cardinality(kept) : Rank(kept, Position(kept, n)) = n
    BY <2>1, Positions
  <2>3. DOMAIN p = 1..Cardinality(kept)
    BY DEF Picked
  <2> HIDE DEF p
  <2> QED
    BY <2>2, <2>3
<1> HIDE DEF p
<1>3. \A n \in DOMAIN p : p[n] \in W => \E i \in both : Rank(kept, i) = n
  BY <1>1, <1>2
<1>4. \A i \in both : Rank(kept, i) \in DOMAIN p /\ p[Rank(kept, i)] \in W
  BY <1>1
<1>5. J = {Rank(kept, i) : i \in both}
  BY <1>3, <1>4
<1>6. both \in SUBSET kept
  OBVIOUS
<1> HIDE DEF J, both
<1>7. Picked(Picked(s, kept), {Rank(kept, i) : i \in both}) = Picked(s, both)
  BY <1>6, PickedTwice
<1> QED
  BY <1>5, <1>7 DEF p, J, both, Only, Where

LEMMA PickedAll ==
    ASSUME NEW S, NEW s \in Seq(S)
    PROVE Picked(s, DOMAIN s) = s
<1> DEFINE m == Len(s)
           q == [n \in 1..m |-> n]
<1>1. m \in Nat /\ DOMAIN s = 1..m
  OBVIOUS
<1> HIDE DEF m
<1>2. Enumerates(q, m, 1..m, m)
  BY <1>1 DEF Enumerates
<1>3. \A n \in 1..m : q[n] = n
  OBVIOUS
<1> HIDE DEF q
<1>4. Cardinality(1..m) = m /\ \A n \in 1..m : Position(1..m, n) = q[n]
  BY <1>1, <1>2, Enumeration
<1>5. Picked(s, 1..m) = [n \in 1..m |-> s[Position(1..m, n)]]
  BY <1>4 DEF Picked, Position
<1>6. Picked(s, 1..m) = [n \in 1..m |-> s[n]]
  BY <1>3, <1>4, <1>5
<1>7. s = [n \in 1..m |-> s[n]]
  BY <1>1
<1> QED
  BY <1>1, <1>6, <1>7

\* Each element once, where it came last.
LastOnes(s) == {i \in DOMAIN s : \A j \in DOMAIN s : s[j] = s[i] => j <= i}
Latest(s) == Picked(s, LastOnes(s))

LEMMA LatestOf ==
    ASSUME NEW S, NEW s \in Seq(S)
    PROVE Latest(s) \in Seq(S) /\ Injective(Latest(s)) /\ Range(Latest(s)) = Range(s)
<1> DEFINE L == LastOnes(s)
           p == Picked(s, L)
<1>1. L \in SUBSET DOMAIN s /\ Len(s) \in Nat /\ DOMAIN s = 1..Len(s)
  BY DEF LastOnes
<1> HIDE DEF L
<1>2. /\ p \in Seq(S)
      /\ \A n \in DOMAIN p : Position(L, n) \in L /\ p[n] = s[Position(L, n)]
      /\ \A i \in L : Rank(L, i) \in DOMAIN p /\ p[Rank(L, i)] = s[i]
      /\ \A n, k \in DOMAIN p : n < k => Position(L, n) < Position(L, k)
  BY <1>1, Selecting
<1> HIDE DEF p
<1>3. Injective(p)
  <2> SUFFICES ASSUME NEW n \in DOMAIN p, NEW k \in DOMAIN p, p[n] = p[k] PROVE n = k
    BY DEF Injective
  <2> DEFINE i == Position(L, n)
             j == Position(L, k)
  <2>1. i \in L /\ j \in L /\ s[i] = s[j]
    BY <1>2
  <2>2. i \in DOMAIN s /\ j \in DOMAIN s
    BY <1>1, <2>1
  <2>3. i <= j /\ j <= i
    BY <2>1, <2>2 DEF L, LastOnes
  <2>4. i \in Int /\ j \in Int
    BY <1>1, <2>2
  <2> HIDE DEF i, j
  <2>5. ~(i < j) /\ ~(j < i)
    BY <2>3, <2>4
  <2>6. ~(n < k) /\ ~(k < n)
    BY <1>2, <2>5 DEF i, j
  <2>7. n \in Int /\ k \in Int
    BY <1>2
  <2> QED
    BY <2>6, <2>7
<1>4. ASSUME NEW i \in DOMAIN s PROVE \E j \in L : s[j] = s[i]
  <2> DEFINE T == {j \in DOMAIN s : s[j] = s[i]}
  <2>1. T \in SUBSET (0..Len(s)) /\ i \in T
    BY <1>1
  <2> HIDE DEF T
  <2>2. Max(T) \in T /\ \A j \in T : j <= Max(T)
    BY <1>1, <2>1, Greatest
  <2>3. Max(T) \in DOMAIN s /\ s[Max(T)] = s[i]
    BY <2>2 DEF T
  <2>4. \A j \in DOMAIN s : s[j] = s[Max(T)] => j <= Max(T)
    BY <2>2, <2>3 DEF T
  <2> QED
    BY <2>3, <2>4 DEF L, LastOnes
<1>5. Range(p) = Range(s)
  <2>1. \A n \in DOMAIN p : \E i \in DOMAIN s : p[n] = s[i]
    BY <1>1, <1>2
  <2>2. \A i \in DOMAIN s : \E n \in DOMAIN p : p[n] = s[i]
    BY <1>2, <1>4
  <2> QED
    BY <2>1, <2>2 DEF Range
<1> QED
  BY <1>2, <1>3, <1>5 DEF Latest, p, L

LEMMA LatestOfDistinct ==
    ASSUME NEW S, NEW s \in Seq(S), Injective(s)
    PROVE Latest(s) = s
<1>1. \A i, j \in DOMAIN s : s[j] = s[i] => j <= i
  <2> TAKE i, j \in DOMAIN s
  <2>1. i \in Int /\ j \in Int
    OBVIOUS
  <2>2. s[j] = s[i] => j = i
    BY DEF Injective
  <2> QED
    BY <2>1, <2>2
<1>2. LastOnes(s) = DOMAIN s
  BY <1>1 DEF LastOnes
<1> QED
  BY <1>2, PickedAll DEF Latest

LEMMA LatestOfAppend ==
    ASSUME NEW S, NEW s \in Seq(S), NEW x \in S
    PROVE Latest(Append(s, x)) = Append(Only(Latest(s), S \ {x}), x)
<1> DEFINE longer == Append(s, x)
           m == Len(s)
           others == {i \in LastOnes(s) : s[i] \in S \ {x}}
<1>1. /\ m \in Nat /\ DOMAIN s = 1..m /\ DOMAIN longer = 1..m + 1
      /\ longer[m + 1] = x /\ \A i \in 1..m : longer[i] = s[i] /\ s[i] \in S
  OBVIOUS
<1> HIDE DEF longer, m
<1>2. LastOnes(longer) = others \union {m + 1}
  <2>1. m + 1 \in LastOnes(longer)
    BY <1>1 DEF LastOnes
  <2>2. ASSUME NEW i \in others PROVE i \in LastOnes(longer)
    <3>1. i \in 1..m /\ i \in 1..m + 1 /\ longer[i] = s[i] /\ s[i] # x
      BY <1>1 DEF LastOnes
    <3>2. \A j \in 1..m : s[j] = s[i] => j <= i
      BY <1>1 DEF LastOnes
    <3>3. \A j \in 1..m + 1 : j = m + 1 \/ j \in 1..m
      BY <1>1
    <3>4. \A j \in 1..m + 1 : longer[j] = longer[i] => j <= i
      BY <1>1, <3>1, <3>2, <3>3
    <3> QED
      BY <1>1, <3>1, <3>4 DEF LastOnes
  <2>3. ASSUME NEW i \in LastOnes(longer), i # m + 1 PROVE i \in others
    <3>1. i \in 1..m + 1 /\ i \in 1..m
      BY <1>1, <2>3 DEF LastOnes
    <3>2. \A j \in 1..m + 1 : longer[j] = longer[i] => j <= i
      BY <1>1 DEF LastOnes
    <3>3. s[i] # x
      <4>1. m + 1 \in 1..m + 1 /\ ~(m + 1 <= i)
        BY <1>1, <3>1
      <4> QED
        BY <1>1, <3>1, <3>2, <4>1
    <3>4. \A j \in 1..m : s[j] = s[i] => j <= i
      <4>1. \A j \in 1..m : j \in 1..m + 1
        BY <1>1
      <4> QED
        BY <1>1, <3>1, <3>2, <4>1
    <3> QED
      BY <1>1, <3>1, <3>3, <3>4 DEF LastOnes
  <2> QED
    BY <2>1, <2>2, <2>3
<1>3. others \in SUBSET DOMAIN s /\ LastOnes(s) \in SUBSET DOMAIN s
  BY DEF LastOnes
<1>4. Picked(longer, others \union {m + 1}) = Append(Picked(s, others), x)
  <2> HIDE DEF others
  <2>1. Picked(Append(s, x), others \union {Len(s) + 1}) = Append(Picked(s, others), x)
    BY <1>3, PickedAppend
  <2> QED
    BY <2>1 DEF longer, m
<1>5. Picked(s, others) = Only(Latest(s), S \ {x})
  <2> DEFINE L == LastOnes(s)
             W == S \ {x}
  <2>1. L \in SUBSET DOMAIN s
    BY <1>3
  <2> HIDE DEF L, W
  <2>2. Only(Picked(s, L), W) = Picked(s, Where(s, L, W))
    BY <2>1, PickedWhere
  <2> QED
    BY <2>2 DEF L, W, Latest, Where
<1> QED
  BY <1>2, <1>4, <1>5 DEF longer, Latest

LEMMA LatestTwice ==
    ASSUME NEW S, NEW s \in Seq(S), NEW x \in S
    PROVE Latest(Append(Latest(s), x)) = Latest(Append(s, x))
<1> DEFINE L == Latest(s)
<1>1. L \in Seq(S) /\ Injective(L)
  BY LatestOf
<1>2. Latest(Append(s, x)) = Append(Only(L, S \ {x}), x)
  BY LatestOfAppend
<1> HIDE DEF L
<1>3. Latest(L) = L
  BY <1>1, LatestOfDistinct
<1>4. Latest(Append(L, x)) = Append(Only(Latest(L), S \ {x}), x)
  BY <1>1, LatestOfAppend
<1> QED
  BY <1>2, <1>3, <1>4 DEF L

-------------------------------------------------------------------------------
(* The order of the routes *)

\* An element more, kept as well, comes last.
KeptLast(s, kept, e) == Picked(Append(s, e), kept \union {Len(s) + 1}) = Append(Picked(s, kept), e)

LEMMA PickedNext ==
    ASSUME NEW S, NEW s, s \in Seq(S), NEW e, e \in S, NEW kept, kept \in SUBSET DOMAIN s
    PROVE  KeptLast(s, kept, e)
  BY PickedAppend DEF KeptLast

PathsOf(s) == [i \in DOMAIN s.routes |-> s.routes[i].path]

\* The routes stand in the order of their paths.
Follows(s) ==
    \A i, j \in DOMAIN s.routes, k, l \in DOMAIN RouteOrder(s) :
        i < j /\ Normalize(s.routes[i].path) = RouteOrder(s)[k] /\ Normalize(s.routes[j].path) = RouteOrder(s)[l] => k <= l

LEMMA SpelledAsKey ==
    ASSUME NEW s \in States, NEW i \in DOMAIN s.routes
    PROVE s.routes[i].path \in Keys <=> Normalize(s.routes[i].path) = s.routes[i].path
  BY RouteFields, KeysNormal DEF IsNormal

LEMMA OrderIs ==
    ASSUME NEW s \in States
    PROVE /\ RouteOrder(s) = Only(PathsOf(s), Keys) /\ PathsOf(s) \in Seq({s.routes[i].path : i \in DOMAIN s.routes})
          /\ DOMAIN PathsOf(s) = DOMAIN s.routes /\ \A i \in DOMAIN s.routes : PathsOf(s)[i] = s.routes[i].path
<1> DEFINE q == PathsOf(s)
<1>1. DOMAIN q = DOMAIN s.routes /\ \A i \in DOMAIN s.routes : q[i] = s.routes[i].path
  BY DEF PathsOf
<1>2. s.routes \in Seq(Routes)
  BY StateFields
<1>3. q \in Seq({s.routes[i].path : i \in DOMAIN s.routes})
  <2>1. Len(s.routes) \in Nat /\ DOMAIN s.routes = 1..Len(s.routes)
    BY <1>2
  <2> DEFINE n == Len(s.routes)
             P == {s.routes[i].path : i \in DOMAIN s.routes}
  <2>2. q = [i \in 1..n |-> q[i]] /\ \A i \in 1..n : q[i] \in P
    BY <1>1, <2>1 DEF PathsOf
  <2> HIDE DEF q, n, P
  <2>3. n \in Nat
    BY <2>1 DEF n
  <2>4. q \in [1..n -> P]
    BY <2>2
  <2>5. q \in Seq(P)
    BY <2>3, <2>4
  <2> QED
    BY <2>5 DEF P
<1>4. {i \in DOMAIN q : Normalize(q[i]) = q[i]} = {i \in DOMAIN q : q[i] \in Keys}
  BY <1>1, SpelledAsKey
<1>5. RouteOrder(s) = Picked(q, {i \in DOMAIN q : Normalize(q[i]) = q[i]})
  BY DEF RouteOrder, PathsOf
<1> HIDE DEF q
<1>6. RouteOrder(s) = Only(q, Keys)
  BY <1>4, <1>5 DEF Only, Where
<1> QED
  BY <1>1, <1>3, <1>6 DEF q

\* The order has the paths that have routes.
LEMMA OrderOf ==
    ASSUME NEW s \in States, NEW m \in Configurations, Agreed(s, m)
    PROVE /\ RouteOrder(s) \in Seq(Keys) /\ Range(RouteOrder(s)) = DOMAIN m
<1> DEFINE q == PathsOf(s)
           W == Where(q, DOMAIN q, Keys)
           order == RouteOrder(s)
<1>1. /\ order = Picked(q, W) /\ q \in Seq({s.routes[i].path : i \in DOMAIN s.routes})
      /\ DOMAIN q = DOMAIN s.routes /\ \A i \in DOMAIN s.routes : q[i] = s.routes[i].path
  BY OrderIs DEF Only
<1>2. W \in SUBSET DOMAIN q /\ \A i \in DOMAIN q : i \in W <=> q[i] \in Keys
  BY DEF Where
<1>3. DOMAIN m \in SUBSET Keys
  BY DEF Configurations
<1> HIDE DEF q, W, order
<1>4. /\ order \in Seq({s.routes[i].path : i \in DOMAIN s.routes})
      /\ \A n \in DOMAIN order : Position(W, n) \in W /\ order[n] = q[Position(W, n)]
      /\ \A i \in W : Rank(W, i) \in DOMAIN order /\ order[Rank(W, i)] = q[i]
  BY <1>1, <1>2, Selecting
<1>5. \A n \in DOMAIN order : order[n] \in DOMAIN m
  <2> TAKE n \in DOMAIN order
  <2> DEFINE i == Position(W, n)
  <2>1. i \in DOMAIN s.routes /\ order[n] = s.routes[i].path /\ s.routes[i].path \in Keys
    BY <1>1, <1>2, <1>4
  <2> HIDE DEF i
  <2>2. PICK p \in DOMAIN m : s.routes[i].path \in RouteCandidates(p)
    BY <2>1 DEF Agreed
  <2>3. Normalize(s.routes[i].path) = p /\ Normalize(s.routes[i].path) = s.routes[i].path
    BY <1>3, <2>1, <2>2, KeysNormal, CandidatesOf DEF IsNormal
  <2> QED
    BY <2>1, <2>2, <2>3
<1>6. \A p \in DOMAIN m : \E n \in DOMAIN order : order[n] = p
  <2> TAKE p \in DOMAIN m
  <2>1. p \in Keys /\ p \in RouteCandidates(p)
    BY <1>3, KeysNormal, CandidatesOf
  <2>2. PICK i \in DOMAIN s.routes : s.routes[i].path = p
    BY <2>1 DEF Agreed
  <2>3. i \in W /\ q[i] = p
    BY <1>1, <1>2, <2>1, <2>2
  <2> QED
    BY <1>4, <2>3
<1>7. order \in Seq(Keys)
  <2>1. Len(order) \in Nat /\ DOMAIN order = 1..Len(order) /\ order = [n \in 1..Len(order) |-> order[n]]
    BY <1>4
  <2>2. \A n \in 1..Len(order) : order[n] \in Keys
    BY <1>3, <1>5, <2>1
  <2> HIDE DEF Keys
  <2>3. order \in [1..Len(order) -> Keys]
    BY <2>1, <2>2
  <2> QED
    BY <2>1, <2>3
<1>8. Range(order) = DOMAIN m
  BY <1>5, <1>6 DEF Range
<1> QED
  BY <1>7, <1>8 DEF order

\* Taking paths down leaves the others in their order.
LEMMA OrderRemoved ==
    ASSUME NEW s \in States, NEW t \in States, NEW keys, t.routes = Picked(s.routes, Others(s, keys))
    PROVE RouteOrder(t) = Only(RouteOrder(s), Keys \ keys)
<1> DEFINE q == PathsOf(s)
           R == Others(s, keys)
           W == Where(q, DOMAIN q, Keys)
           new == t.routes
<1>1. /\ RouteOrder(s) = Picked(q, W) /\ q \in Seq({s.routes[i].path : i \in DOMAIN s.routes})
      /\ DOMAIN q = DOMAIN s.routes /\ \A i \in DOMAIN s.routes : q[i] = s.routes[i].path
  BY OrderIs DEF Only
<1>2. s.routes \in Seq(Routes) /\ R \in SUBSET DOMAIN s.routes
  BY StateFields DEF Others
<1>3. W \in SUBSET DOMAIN q /\ \A i \in DOMAIN q : i \in W <=> q[i] \in Keys
  BY DEF Where
<1>4. \A i \in DOMAIN q : i \in R <=> Normalize(q[i]) \notin keys
  BY <1>1 DEF Others
<1>5. \A i \in W : Normalize(q[i]) = q[i]
  BY <1>3, KeysNormal DEF IsNormal
<1> HIDE DEF q, R, W
<1>6. PathsOf(t) = Picked(q, R)
  <2>1. DOMAIN new = 1..Cardinality(R) /\ \A n \in DOMAIN new : Position(R, n) \in R /\ new[n] = s.routes[Position(R, n)]
    <3>1. new = Picked(s.routes, R)
      BY DEF R
    <3>2. DOMAIN new = 1..Cardinality(R)
      BY <3>1 DEF Picked
    <3> HIDE DEF new
    <3> QED
      BY <1>2, <3>1, <3>2, Selecting
  <2>2. PathsOf(t) = [n \in DOMAIN new |-> new[n].path]
    BY DEF PathsOf
  <2>3. \A n \in DOMAIN new : new[n].path = q[Position(R, n)]
    BY <1>1, <1>2, <2>1
  <2> HIDE DEF new
  <2>4. Picked(q, R) = [n \in 1..Cardinality(R) |-> q[Position(R, n)]]
    BY DEF Picked, Position
  <2> QED
    BY <2>1, <2>2, <2>3, <2>4
<1>7. RouteOrder(t) = Only(Picked(q, R), Keys)
  BY <1>6, OrderIs
<1>8. Only(Picked(q, R), Keys) = Picked(q, Where(q, R, Keys))
  BY <1>1, <1>2, PickedWhere
<1>9. Only(RouteOrder(s), Keys \ keys) = Picked(q, Where(q, W, Keys \ keys))
  BY <1>1, <1>3, PickedWhere
<1>10. Where(q, R, Keys) = Where(q, W, Keys \ keys)
  <2>1. R \in SUBSET DOMAIN q
    BY <1>1, <1>2
  <2> QED
    BY <1>3, <1>4, <1>5, <2>1 DEF Where
<1> QED
  BY <1>7, <1>8, <1>9, <1>10

\* A path that has no routes yet is tried last.
LEMMA OrderAdded ==
    ASSUME NEW s \in States, NEW t \in States, NEW key \in Keys, NEW mock \in Mocks, NEW object \in Nat,
           t.routes = s.routes \o NewRoutes(key, mock, object)
    PROVE RouteOrder(t) = Append(RouteOrder(s), key)
<1> DEFINE q == PathsOf(s)
           n == Len(s.routes)
           W == Where(q, DOMAIN q, Keys)
           u == PathsOf(t)
           U == Where(u, DOMAIN u, Keys)
           extra == NewRoutes(key, mock, object)
<1>1. /\ RouteOrder(s) = Picked(q, W) /\ RouteOrder(t) = Picked(u, U)
      /\ DOMAIN q = DOMAIN s.routes /\ \A i \in DOMAIN s.routes : q[i] = s.routes[i].path
      /\ DOMAIN u = DOMAIN t.routes /\ \A i \in DOMAIN t.routes : u[i] = t.routes[i].path
  BY OrderIs DEF Only
<1>2. /\ s.routes \in Seq(Routes) /\ n \in Nat /\ DOMAIN s.routes = 1..n
  BY StateFields
<1>3. W \in SUBSET DOMAIN q /\ \A i \in DOMAIN q : i \in W <=> q[i] \in Keys
  BY DEF Where
<1>4. U \in SUBSET DOMAIN u /\ \A i \in DOMAIN u : i \in U <=> u[i] \in Keys
  BY DEF Where
<1>5. /\ Slashed(key) \notin Keys
  <2>1. Normalize(Slashed(key)) = key /\ Slashed(key) # key
    BY KeysNormal, SlashedPath
  <2> QED
    BY <2>1, KeysNormal DEF IsNormal
<1>6. /\ Len(extra) \in {1, 2} /\ extra[1].path = key
      /\ Len(extra) = 2 => extra[2].path = Slashed(key)
  BY DEF NewRoutes
<1>7. /\ DOMAIN t.routes = 1..n + Len(extra)
      /\ \A i \in 1..n : t.routes[i] = s.routes[i]
      /\ \A i \in 1..Len(extra) : t.routes[n + i] = extra[i]
  <2>1. extra \in Seq(Routes)
    BY NewRoutesOf
  <2> HIDE DEF extra
  <2>2. /\ Len(s.routes \o extra) = n + Len(extra) 
        /\ s.routes \o extra \in Seq(Routes)
        /\ \A i \in 1..n + Len(extra) : (s.routes \o extra)[i] = IF i <= n THEN s.routes[i] ELSE extra[i - n]
    BY <1>2, <2>1
  <2>3. t.routes = s.routes \o extra
    BY DEF extra
  <2> DEFINE k == Len(extra)
  <2> HIDE DEF n, k
  <2>4. k \in Nat
    BY <1>6 DEF k
  <2>5. DOMAIN t.routes = 1..n + k
    BY <2>2, <2>3, <2>4 DEF k
  <2>6. \A i \in 1..n + k : t.routes[i] = IF i <= n THEN s.routes[i] ELSE extra[i - n]
    BY <2>2, <2>3 DEF k
  <2>7. \A i \in 1..n : i \in 1..n + k /\ i <= n
    BY <1>2, <2>4
  <2>8. \A i \in 1..k : n + i \in 1..n + k /\ ~(n + i <= n) /\ (n + i) - n = i
    BY <1>2, <2>4
  <2>9. \A i \in 1..n : t.routes[i] = s.routes[i]
    BY <2>6, <2>7
  <2>10. \A i \in 1..k : t.routes[n + i] = extra[i]
    BY <2>6, <2>8
  <2> QED
    BY <2>5, <2>9, <2>10 DEF k
<1> HIDE DEF extra, n, q, u
<1>8. U = W \union {n + 1}
  <2> DEFINE k == Len(extra)
  <2>1. k \in {1, 2} /\ DOMAIN u = 1..n + k /\ DOMAIN q = 1..n
    BY <1>1, <1>2, <1>6, <1>7
  <2> HIDE DEF k
  <2>2. \A i \in 1..n : i \in 1..n + k /\ u[i] = q[i]
    BY <1>1, <1>2, <1>7, <2>1
  <2>3. n + 1 \in 1..n + k /\ 1 \in 1..k
    BY <1>2, <2>1
  <2>4. u[n + 1] = key
    BY <1>1, <1>6, <1>7, <2>1, <2>3 DEF k
  <2>5. \A i \in 1..n + k : i \in 1..n \/ i = n + 1 \/ (k = 2 /\ i = n + 2)
    BY <1>2, <2>1
  <2>6. k = 2 => u[n + 2] = Slashed(key)
    <3> SUFFICES ASSUME k = 2 PROVE u[n + 2] = Slashed(key)
      OBVIOUS
    <3>1. 2 \in 1..k /\ n + 2 \in 1..n + k
      BY <1>2
    <3> QED
      BY <1>1, <1>6, <1>7, <2>1, <3>1 DEF k
  <2> HIDE DEF W, U
  <2>7. \A i \in 1..n : i \in U <=> i \in W
    BY <1>3, <1>4, <2>1, <2>2
  <2>8. n + 1 \in U
    BY <1>4, <2>1, <2>3, <2>4
  <2>9. k = 2 => n + 2 \notin U
    BY <1>4, <1>5, <2>1, <2>6
  <2>10. \A i \in U : i \in 1..n + k
    BY <1>4, <2>1
  <2>11. \A i \in W : i \in 1..n
    BY <1>3, <2>1
  <2>12. \A i \in U : i \in W \/ i = n + 1
    BY <2>5, <2>7, <2>9, <2>10
  <2> QED
    BY <2>7, <2>8, <2>11, <2>12
<1>9. Picked(u, W \union {n + 1}) = Append(Picked(q, W), key)
  <2>1. W \in SUBSET (1..n) /\ n \in Nat
    BY <1>1, <1>2, <1>3
  <2>2. q \in Seq({s.routes[i].path : i \in DOMAIN s.routes}) /\ Len(q) = n
    <3>1. q \in Seq({s.routes[i].path : i \in DOMAIN s.routes})
      BY OrderIs DEF q
    <3> QED
      BY <1>1, <1>2, <3>1
  <2> DEFINE S == {s.routes[i].path : i \in DOMAIN s.routes} \union {key}
             v == Append(q, key)
  <2>3. q \in Seq(S) /\ key \in S
    BY <2>2
  <2> HIDE DEF S
  <2>4. v \in Seq(S) /\ Len(v) = n + 1 /\ v[n + 1] = key /\ \A i \in 1..n : v[i] = q[i]
    BY <2>1, <2>2, <2>3
  <2>5. Picked(v, W \union {n + 1}) = Append(Picked(q, W), key)
    <3>1. W \in SUBSET DOMAIN q
      BY <1>3
    <3> HIDE DEF W, v, U
    <3>2. Picked(Append(q, key), W \union {Len(q) + 1}) = Append(Picked(q, W), key)
      <4>1. q \in Seq(S) /\ key \in S
        BY <2>3
      <4>2. KeptLast(q, W, key)
        BY <3>1, <4>1, PickedNext
      <4> QED
        BY <4>2 DEF KeptLast
    <3> QED
      BY <2>2, <3>2 DEF v
  <2>6. \A i \in W \union {n + 1} : u[i] = v[i]
    <3>1. \A i \in 1..n : u[i] = q[i]
      <4>1. \A i \in 1..n : i \in DOMAIN t.routes
        BY <1>2, <1>6, <1>7
      <4> QED
        BY <1>1, <1>2, <1>7, <4>1
    <3>2. u[n + 1] = key
      <4>1. n + 1 \in DOMAIN t.routes /\ 1 \in 1..Len(extra)
        BY <1>2, <1>6, <1>7
      <4> QED
        BY <1>1, <1>6, <1>7, <4>1
    <3> QED
      BY <2>1, <2>4, <3>1, <3>2
  <2> DEFINE K == W \union {n + 1}
  <2> HIDE DEF K, v, W
  <2>7. \A c \in 1..Cardinality(K) : Position(K, c) \in K
    <3>1. K \in SUBSET (1..n + 1) /\ n + 1 \in Nat
      BY <2>1 DEF K
    <3> QED
      BY <3>1, Positions
  <2>8. Picked(u, K) = Picked(v, K)
    <3>1. \A c \in 1..Cardinality(K) : u[Position(K, c)] = v[Position(K, c)]
      BY <2>6, <2>7 DEF K
    <3> QED
      BY <3>1 DEF Picked, Position
  <2> QED
    BY <2>5, <2>8 DEF K
<1> QED
  BY <1>1, <1>8, <1>9

-------------------------------------------------------------------------------
(* What each path owns, and the order of paths *)

\* The objects of the mocks in m: each its own, and none for a static one.
Owned(s, m) ==
    /\ \A p \in DOMAIN m : Registered(s, p) = NoObject <=> m[p].kind = "static"
    /\ \A p, q \in DOMAIN m : Registered(s, p) = Registered(s, q) /\ Registered(s, p) # NoObject => p = q

Ordered(s) == Injective(RouteOrder(s)) /\ Follows(s)

Arranged(s, m) == Owned(s, m) /\ Ordered(s)

\* Selecting elements keeps them apart and in their order.
LEMMA OnlyOf ==
    ASSUME NEW S, NEW s, s \in Seq(S), NEW W
    PROVE /\ Only(s, W) \in Seq(S)
          /\ \A n \in DOMAIN Only(s, W) : Only(s, W)[n] \in W /\ \E i \in DOMAIN s : s[i] = Only(s, W)[n]
          /\ \A i \in DOMAIN s : s[i] \in W => \E n \in DOMAIN Only(s, W) : Only(s, W)[n] = s[i]
          /\ Injective(s) => Injective(Only(s, W))
          /\ \A n, k \in DOMAIN Only(s, W) :
                 n < k => \E i, j \in DOMAIN s : i < j /\ s[i] = Only(s, W)[n] /\ s[j] = Only(s, W)[k]
<1> DEFINE K == Where(s, DOMAIN s, W)
           p == Picked(s, K)
<1>1. Only(s, W) = p
  BY DEF Only
<1>2. K \in SUBSET DOMAIN s /\ \A i \in DOMAIN s : i \in K <=> s[i] \in W
  BY DEF Where
<1> HIDE DEF K
<1>3. /\ p \in Seq(S)
      /\ \A n \in DOMAIN p : Position(K, n) \in K /\ p[n] = s[Position(K, n)]
      /\ \A i \in K : Rank(K, i) \in DOMAIN p /\ p[Rank(K, i)] = s[i]
      /\ \A n, k \in DOMAIN p : n < k => Position(K, n) < Position(K, k)
  BY <1>2, Selecting
<1> HIDE DEF p
<1>4. \A n \in DOMAIN p : p[n] \in W /\ \E i \in DOMAIN s : s[i] = p[n]
  BY <1>2, <1>3
<1>5. \A i \in DOMAIN s : s[i] \in W => \E n \in DOMAIN p : p[n] = s[i]
  BY <1>2, <1>3
<1>6. ASSUME Injective(s) PROVE Injective(p)
  <2> SUFFICES ASSUME NEW n \in DOMAIN p, NEW k \in DOMAIN p, p[n] = p[k] PROVE n = k
    BY DEF Injective
  <2>1. Position(K, n) = Position(K, k) /\ Position(K, n) \in DOMAIN s
    BY <1>2, <1>3, <1>6 DEF Injective
  <2>2. Position(K, n) \in Int
    BY <2>1
  <2>3. ~(n < k) /\ ~(k < n)
    BY <1>3, <2>1, <2>2
  <2>4. n \in Int /\ k \in Int
    BY <1>3
  <2> QED
    BY <2>3, <2>4
<1>7. \A n, k \in DOMAIN p : n < k => \E i, j \in DOMAIN s : i < j /\ s[i] = p[n] /\ s[j] = p[k]
  BY <1>2, <1>3
<1> QED
  BY <1>1, <1>3, <1>4, <1>5, <1>6, <1>7

LEMMA RemovedOrdered ==
    ASSUME NEW s \in States, NEW m \in Configurations, Agreed(s, m), NEW t \in States, NEW keys,
           t.routes = Picked(s.routes, Others(s, keys)), Ordered(s)
    PROVE Ordered(t)
<1> DEFINE R == Others(s, keys)
           old == RouteOrder(s)
           order == RouteOrder(t)
           W == Keys \ keys
<1>1. order = Only(old, W)
  BY OrderRemoved
<1>2. old \in Seq(Keys)
  BY OrderOf
<1>3. s.routes \in Seq(Routes) /\ R \in SUBSET DOMAIN s.routes
  BY StateFields DEF Others
<1>4. Injective(old) /\ Follows(s)
  BY DEF Ordered
<1> HIDE DEF R, W
<1>5. /\ \A n \in DOMAIN t.routes : Position(R, n) \in DOMAIN s.routes /\ t.routes[n] = s.routes[Position(R, n)]
      /\ \A n, k \in DOMAIN t.routes : n < k => Position(R, n) < Position(R, k)
  <2>1. t.routes = Picked(s.routes, R)
    BY DEF R
  <2> QED
    BY <1>3, <2>1, Selecting
<1> HIDE DEF old
<1> DEFINE o == Only(old, W)
<1>6. /\ o \in Seq(Keys) /\ Injective(o)
      /\ \A n, k \in DOMAIN o :
             n < k => \E i, j \in DOMAIN old : i < j /\ old[i] = o[n] /\ old[j] = o[k]
  BY <1>2, <1>4, OnlyOf
<1> HIDE DEF o, order
<1>7. order = o
  BY <1>1 DEF o
<1>8. ASSUME NEW i \in DOMAIN t.routes, NEW j \in DOMAIN t.routes, NEW k \in DOMAIN o, NEW l \in DOMAIN o,
             i < j, Normalize(t.routes[i].path) = o[k], Normalize(t.routes[j].path) = o[l], l < k
      PROVE FALSE
  <2>1. PICK a \in DOMAIN old, b \in DOMAIN old : a < b /\ old[a] = o[l] /\ old[b] = o[k]
    BY <1>6, <1>8
  <2>2. Position(R, i) < Position(R, j) /\ Position(R, i) \in DOMAIN s.routes /\ Position(R, j) \in DOMAIN s.routes
    BY <1>5, <1>8
  <2>3. Normalize(s.routes[Position(R, i)].path) = old[b] /\ Normalize(s.routes[Position(R, j)].path) = old[a]
    BY <1>5, <1>8, <2>1
  <2>4. b <= a
    BY <1>4, <2>2, <2>3 DEF Follows, old
  <2>5. a \in Int /\ b \in Int
    BY <1>2
  <2> QED
    BY <2>1, <2>4, <2>5
<1>9. \A k, l \in DOMAIN o : k \in Int /\ l \in Int
  BY <1>6
<1>10. \A i, j \in DOMAIN t.routes, k, l \in DOMAIN o :
           i < j /\ Normalize(t.routes[i].path) = o[k] /\ Normalize(t.routes[j].path) = o[l] => k <= l
  BY <1>8, <1>9
<1> QED
  BY <1>6, <1>7, <1>10 DEF Ordered, Follows, order

LEMMA AddedOrdered ==
    ASSUME NEW s \in States, NEW m \in Configurations, Agreed(s, m), NEW t \in States, NEW key \in Keys,
           key \notin DOMAIN m, NEW mock \in Mocks, NEW object \in Nat,
           t.routes = s.routes \o NewRoutes(key, mock, object), Ordered(s)
    PROVE Ordered(t)
<1> DEFINE old == RouteOrder(s)
           order == RouteOrder(t)
           c == Len(old)
           n == Len(s.routes)
           extra == NewRoutes(key, mock, object)
<1>1. order = Append(old, key)
  BY OrderAdded
<1>2. old \in Seq(Keys) /\ Range(old) = DOMAIN m
  BY OrderOf
<1>3. Injective(old) /\ Follows(s)
  BY DEF Ordered
<1> HIDE DEF old, order
<1>4. /\ c \in Nat /\ DOMAIN old = 1..c /\ DOMAIN order = 1..c + 1 /\ order[c + 1] = key
      /\ \A k \in 1..c : order[k] = old[k]
  BY <1>1, <1>2
<1>5. \A k \in 1..c : old[k] # key
  BY <1>2, <1>4 DEF Range
<1> HIDE DEF c
<1>6. Injective(order)
  <2> SUFFICES ASSUME NEW k \in 1..c + 1, NEW l \in 1..c + 1, order[k] = order[l] PROVE k = l
    BY <1>4 DEF Injective
  <2>1. (k \in 1..c \/ k = c + 1) /\ (l \in 1..c \/ l = c + 1)
    BY <1>4
  <2>2. k \in 1..c /\ l \in 1..c => k = l
    BY <1>3, <1>4 DEF Injective
  <2>3. ~(k \in 1..c /\ l = c + 1) /\ ~(k = c + 1 /\ l \in 1..c)
    BY <1>4, <1>5
  <2> QED
    BY <2>1, <2>2, <2>3
<1>7. s.routes \in Seq(Routes) /\ extra \in Seq(Routes) /\ \A i \in DOMAIN extra : extra[i].path \in RouteCandidates(key)
  <2>1. extra \in Seq(Routes) /\ {extra[i].path : i \in DOMAIN extra} = RouteCandidates(key)
    BY NewRoutesOf
  <2>2. s.routes \in Seq(Routes)
    BY StateFields
  <2> HIDE DEF extra
  <2> QED
    BY <2>1, <2>2
<1> HIDE DEF extra
<1>8. /\ n \in Nat /\ DOMAIN s.routes = 1..n
      /\ DOMAIN t.routes = 1..n + Len(extra) /\ Len(extra) \in Nat
      /\ \A i \in 1..n + Len(extra) : t.routes[i] = IF i <= n THEN s.routes[i] ELSE extra[i - n]
  <2>1. /\ Len(s.routes \o extra) = n + Len(extra) /\ s.routes \o extra \in Seq(Routes)
        /\ \A i \in 1..n + Len(extra) : (s.routes \o extra)[i] = IF i <= n THEN s.routes[i] ELSE extra[i - n]
    BY <1>7
  <2>2. t.routes = s.routes \o extra
    BY DEF extra
  <2>3. n \in Nat /\ Len(extra) \in Nat /\ DOMAIN s.routes = 1..n
    BY <1>7
  <2> HIDE DEF n
  <2>4. DOMAIN t.routes = 1..n + Len(extra)
    BY <2>1, <2>2
  <2> QED
    BY <2>1, <2>2, <2>3, <2>4
<1> DEFINE k1 == Len(extra)
<1> HIDE DEF n, k1
<1>9. \A i \in 1..n + k1 : i \in 1..n => t.routes[i] = s.routes[i] /\ Normalize(s.routes[i].path) # key
  <2> SUFFICES ASSUME NEW i \in 1..n PROVE (i \in 1..n + k1 => t.routes[i] = s.routes[i]) /\ Normalize(s.routes[i].path) # key
    OBVIOUS
  <2>1. i \in 1..n + k1 => t.routes[i] = s.routes[i]
    BY <1>8 DEF k1
  <2>2. PICK p \in DOMAIN m : s.routes[i].path \in RouteCandidates(p)
    BY <1>8 DEF Agreed
  <2>3. Normalize(s.routes[i].path) = p
    BY <2>2, KeysNormal, CandidatesOf DEF Configurations
  <2> QED
    BY <2>1, <2>2, <2>3
<1>10. \A i \in 1..n + k1 : i \notin 1..n => Normalize(t.routes[i].path) = key
  <2> SUFFICES ASSUME NEW i \in 1..n + k1, i \notin 1..n PROVE Normalize(t.routes[i].path) = key
    OBVIOUS
  <2>1. ~(i <= n) /\ i - n \in 1..k1
    BY <1>8 DEF k1
  <2>2. t.routes[i] = extra[i - n]
    BY <1>8, <2>1 DEF k1
  <2>3. DOMAIN extra = 1..k1
    BY <1>7 DEF k1
  <2>4. t.routes[i].path \in RouteCandidates(key)
    BY <1>7, <2>1, <2>2, <2>3
  <2> QED
    BY <2>4, KeysNormal, CandidatesOf
<1>11. ASSUME NEW i \in 1..n + k1, NEW j \in 1..n + k1, NEW k \in 1..c + 1, NEW l \in 1..c + 1,
              i < j, Normalize(t.routes[i].path) = order[k], Normalize(t.routes[j].path) = order[l]
       PROVE k <= l
  <2>1. (k \in 1..c \/ k = c + 1) /\ (l \in 1..c \/ l = c + 1)
    BY <1>4
  <2>2. CASE l = c + 1
    BY <1>4, <2>1, <2>2
  <2>3. CASE l \in 1..c
    <3>1. order[l] # key /\ order[l] = old[l]
      BY <1>4, <1>5, <2>3
    <3>2. j \in 1..n
      BY <1>10, <1>11, <3>1
    <3>3. i \in 1..n
      BY <1>8, <1>11, <3>2
    <3>4. Normalize(s.routes[i].path) = order[k] /\ Normalize(s.routes[j].path) = old[l] /\ order[k] # key
      BY <1>9, <1>11, <3>1, <3>2, <3>3
    <3>5. k \in 1..c /\ order[k] = old[k]
      BY <1>4, <2>1, <3>4
    <3> QED
      BY <1>3, <1>4, <1>8, <1>11, <2>3, <3>2, <3>3, <3>4, <3>5 DEF Follows, old
  <2> QED
    BY <2>1, <2>2, <2>3
<1>12. DOMAIN t.routes = 1..n + k1
  BY <1>8 DEF k1
<1>13. Follows(t)
  BY <1>4, <1>11, <1>12 DEF Follows, order
<1> QED
  BY <1>6, <1>13 DEF Ordered, order

LEMMA OwnedWithout ==
    ASSUME NEW s, NEW t, NEW m, NEW keys, Owned(s, m), \A p : p \notin keys => Registered(t, p) = Registered(s, p)
    PROVE Owned(t, Without(m, keys))
<1> DEFINE g == Without(m, keys)
<1>1. DOMAIN g = DOMAIN m \ keys /\ \A p \in DOMAIN g : g[p] = m[p]
  BY DEF Without
<1> HIDE DEF g
<1>2. Owned(t, g)
  BY <1>1 DEF Owned
<1> QED
  BY <1>2 DEF g

\* A registered object is live.
LEMMA RegisteredLive ==
    ASSUME NEW s, NEW m, Agreed(s, m), NEW p \in DOMAIN m
    PROVE Registered(s, p) \in Live(s) \union {NoObject}
  BY DEF Agreed, Registered, Live, Range

LEMMA OwnedWith ==
    ASSUME NEW s, NEW t, NEW m, Agreed(s, m), Owned(s, m), NEW key, key \notin DOMAIN m, NEW mock, NEW object,
           object = NoObject <=> mock.kind = "static", object \notin Live(s),
           Registered(t, key) = object, \A p : p # key => Registered(t, p) = Registered(s, p)
    PROVE Owned(t, With(m, key, mock))
<1> DEFINE g == With(m, key, mock)
<1>1. /\ DOMAIN g = DOMAIN m \union {key} /\ g[key] = mock /\ \A p \in DOMAIN m : g[p] = m[p]
  BY DEF With
<1> HIDE DEF g
<1>2. \A p \in DOMAIN g : Registered(t, p) = NoObject <=> g[p].kind = "static"
  BY <1>1 DEF Owned
<1>3. \A p \in DOMAIN m : p # key /\ Registered(t, p) = Registered(s, p)
  OBVIOUS
<1>4. \A p \in DOMAIN m : Registered(s, p) # NoObject => Registered(s, p) # object
  BY RegisteredLive
<1>5. ASSUME NEW p \in DOMAIN g, NEW q \in DOMAIN g, Registered(t, p) = Registered(t, q), Registered(t, p) # NoObject
      PROVE p = q
  <2>1. p \in DOMAIN m /\ q \in DOMAIN m => p = q
    BY <1>3, <1>5 DEF Owned
  <2>2. ~(p \in DOMAIN m /\ q = key) /\ ~(p = key /\ q \in DOMAIN m)
    BY <1>3, <1>4, <1>5
  <2> QED
    BY <1>1, <2>1, <2>2
<1> QED
  BY <1>2, <1>5 DEF Owned, g

\* Initializing a mock changes it and lets it be tried last.
Established(s, t, key, mock, progress) ==
    /\ Consistent(t) /\ MocksOf(t) = With(MocksOf(s), key, mock) /\ Arranged(t, MocksOf(t))
    /\ Held(t) = With(Held(s), key, [mock |-> mock, progress |-> progress])
    /\ RouteOrder(t) = Latest(Append(RouteOrder(s), key))
    /\ t.storage = SetMockData(s, key, mock).storage

LEMMA SameOrder ==
    ASSUME NEW s, NEW t, t.routes = s.routes
    PROVE RouteOrder(t) = RouteOrder(s) /\ (Ordered(s) <=> Ordered(t)) /\ \A keys : Others(t, keys) = Others(s, keys)
<1>1. RouteOrder(t) = RouteOrder(s)
  BY DEF RouteOrder
<1> QED
  BY <1>1 DEF Ordered, Follows, Others

LEMMA HeldIs ==
    ASSUME NEW s
    PROVE /\ DOMAIN Held(s) = DOMAIN MocksOf(s) /\ DOMAIN MocksOf(s) = StoredPaths(s)
          /\ \A p \in StoredPaths(s) : Held(s)[p] = [mock |-> MocksOf(s)[p], progress |-> Progress(s, p)]
          /\ Held(s) = [p \in StoredPaths(s) |-> Held(s)[p]]
  BY DEF Held, MocksOf

LEMMA HeldEqual ==
    ASSUME NEW s, NEW f, DOMAIN f = StoredPaths(s), f = [p \in DOMAIN f |-> f[p]],
           \A p \in StoredPaths(s) : f[p] = [mock |-> MocksOf(s)[p], progress |-> Progress(s, p)]
    PROVE Held(s) = f
<1>1. Held(s) = [p \in StoredPaths(s) |-> Held(s)[p]] /\ \A p \in StoredPaths(s) : Held(s)[p] = f[p]
  BY HeldIs
<1> QED
  BY <1>1

\* What registering adds.
Entered(s, t, key, mock, object, progress) ==
    /\ t \in States /\ t.storage = s.storage /\ t.routes = s.routes \o NewRoutes(key, mock, object)
    /\ t.objects = IF object = NoObject THEN s.objects ELSE With(s.objects, object, progress)
    /\ Registered(t, key) = object
    /\ \A p : p # key => Registered(t, p) = Registered(s, p)

LEMMA Entering ==
    ASSUME NEW s, s \in States, NEW m, m \in Configurations, Agreed(s, m), Exist(s),
           NEW key, key \in Keys, key \notin DOMAIN m, NEW mock, mock \in Mocks,
           NEW object, object \in Nat, object = NoObject <=> mock.kind = "static",
           NEW progress, progress \in 0..MaxProgress
    PROVE Entered(s, Registering(s, key, mock, object, progress), key, mock, object, progress)
  BY Registration DEF Entered

ComesLast(s, t, key) == RouteOrder(t) = Append(RouteOrder(s), key)

LEMMA LastAdded ==
    ASSUME NEW s, s \in States, NEW t, t \in States, NEW key, key \in Keys, NEW mock, mock \in Mocks,
           NEW object, object \in Nat, t.routes = s.routes \o NewRoutes(key, mock, object)
    PROVE ComesLast(s, t, key)
  BY OrderAdded DEF ComesLast

LEMMA Establishing ==
    ASSUME NEW s, Consistent(s), Arranged(s, MocksOf(s)), NEW path, Normalize(path) \in Keys,
           NEW mock \in Mocks, NEW progress \in 0..MaxProgress, mock.kind = "static" => progress = 0
    PROVE Established(s, MockInitialization(s, path, mock, progress), Normalize(path), mock, progress)
<1> DEFINE key == Normalize(path)
           m == MocksOf(s)
           g == Without(m, {key})
           old == RouteOrder(s)
<1>1. PICK stored, removed, object :
          /\ Made(s, key, mock, stored, removed, object)
          /\ MockInitialization(s, path, mock, progress) = Registering(removed, key, mock, object, progress)
  BY Making
<1> DEFINE t == Registering(removed, key, mock, object, progress)
<1>2. key \in Keys
  OBVIOUS
<1>3. Consistent(t) /\ MocksOf(t) = With(m, key, mock)
  BY <1>1, Initializing
<1> HIDE DEF key
<1>4. /\ stored = SetMockData(s, key, mock) /\ stored \in States /\ MocksOf(stored) = With(m, key, mock)
      /\ stored.routes = s.routes /\ stored.sequences = s.sequences /\ stored.recordings = s.recordings
      /\ stored.objects = s.objects
  BY <1>1 DEF Made
<1>5. /\ removed \in States /\ removed.storage = stored.storage /\ removed.objects = s.objects
      /\ removed.routes = Picked(stored.routes, Others(stored, {key})) /\ Agreed(removed, g) /\ Exist(removed)
  BY <1>1 DEF Made
<1>6. /\ \A p : p # key => Registered(removed, p) = Registered(stored, p)
      /\ object \in Nat /\ (object = NoObject <=> mock.kind = "static") /\ object \notin Live(removed)
  BY <1>1 DEF Made
<1>7. /\ m \in Configurations /\ s \in States /\ Agreed(s, m)
  BY MocksTyped DEF Consistent
<1>8. Owned(s, m) /\ Ordered(s)
  BY DEF Arranged
<1> HIDE DEF m
<1>9. g \in Configurations /\ key \notin DOMAIN g
  <2>1. PICK K \in SUBSET Keys : m \in [K -> Mocks]
    BY <1>7 DEF Configurations
  <2>2. g \in [K \ {key} -> Mocks] /\ K \ {key} \in SUBSET Keys
    BY <2>1 DEF Without
  <2> QED
    BY <2>2 DEF Configurations
<1>10. \A p : Registered(stored, p) = Registered(s, p)
  BY <1>4, SameRoutes
<1>11. Agreed(stored, m)
  BY <1>4, <1>7, SameRoutes
<1>12. RouteOrder(stored) = old /\ Ordered(stored)
  BY <1>4, <1>8, SameOrder
<1>13. Owned(removed, g)
  <2>1. \A p : p \notin {key} => Registered(removed, p) = Registered(s, p)
    BY <1>6, <1>10
  <2> QED
    BY <1>8, <2>1, OwnedWithout
<1>14. Ordered(removed)
  BY <1>4, <1>5, <1>7, <1>11, <1>12, RemovedOrdered
<1>15. RouteOrder(removed) = Only(old, Keys \ {key})
  BY <1>4, <1>5, <1>12, OrderRemoved
<1> HIDE DEF g
<1>16. /\ t \in States /\ t.storage = removed.storage /\ t.routes = removed.routes \o NewRoutes(key, mock, object)
       /\ t.objects = IF object = NoObject THEN removed.objects ELSE With(removed.objects, object, progress)
       /\ Registered(t, key) = object
       /\ \A p : p # key => Registered(t, p) = Registered(removed, p)
  <2>1. Entered(removed, t, key, mock, object, progress)
    BY <1>2, <1>5, <1>6, <1>9, Entering
  <2> HIDE DEF t
  <2> QED
    BY <2>1 DEF Entered
<1> HIDE DEF t
<1>17. Ordered(t)
  BY <1>2, <1>5, <1>6, <1>9, <1>14, <1>16, AddedOrdered
<1>18. RouteOrder(t) = Latest(Append(old, key))
  <2>1. RouteOrder(t) = Append(Only(old, Keys \ {key}), key)
    <3>1. ComesLast(removed, t, key)
      BY <1>2, <1>5, <1>6, <1>16, LastAdded
    <3> QED
      BY <1>15, <3>1 DEF ComesLast
  <2>2. old \in Seq(Keys)
    BY <1>7, OrderOf
  <2>3. Injective(old)
    BY <1>8 DEF Ordered
  <2> HIDE DEF old
  <2>4. Latest(old) = old
    BY <2>2, <2>3, LatestOfDistinct
  <2>5. Latest(Append(old, key)) = Append(Only(Latest(old), Keys \ {key}), key)
    BY <1>2, <2>2, LatestOfAppend
  <2> QED
    BY <2>1, <2>4, <2>5
<1>19. Owned(t, With(g, key, mock))
  BY <1>5, <1>6, <1>9, <1>13, <1>16, OwnedWith
<1>20. With(g, key, mock) = With(m, key, mock)
  BY WithWithout DEF g
<1>21. Arranged(t, MocksOf(t))
  BY <1>3, <1>17, <1>19, <1>20 DEF Arranged
<1>22. Held(t) = With(Held(s), key, [mock |-> mock, progress |-> progress])
  <2> DEFINE f == With(Held(s), key, [mock |-> mock, progress |-> progress])
  <2>1. /\ DOMAIN f = StoredPaths(s) \union {key} /\ f = [p \in DOMAIN f |-> f[p]]
        /\ f[key] = [mock |-> mock, progress |-> progress]
        /\ \A p \in StoredPaths(s) : p # key => f[p] = Held(s)[p]
    BY HeldIs DEF With
  <2> HIDE DEF f
  <2>2. StoredPaths(t) = StoredPaths(s) \union {key}
    <3>1. DOMAIN MocksOf(t) = DOMAIN m \union {key}
      BY <1>3 DEF With
    <3> QED
      BY <3>1, HeldIs DEF m
  <2>3. MocksOf(t)[key] = mock /\ \A p \in StoredPaths(s) : p # key => MocksOf(t)[p] = m[p]
    <3>1. \A p \in DOMAIN m : p # key => With(m, key, mock)[p] = m[p]
      BY DEF With
    <3>2. With(m, key, mock)[key] = mock
      BY DEF With
    <3>3. DOMAIN m = StoredPaths(s)
      BY HeldIs DEF m
    <3> QED
      BY <1>3, <3>1, <3>2, <3>3
  <2>4. PICK O \in SUBSET Nat : removed.objects \in [O -> 0..MaxProgress]
    BY <1>5, StateFields
  <2>5. Progress(t, key) = progress
    <3>1. CASE object = NoObject
      BY <1>6, <1>16, <3>1 DEF Progress
    <3>2. CASE object # NoObject
      <4>1. t.objects = With(removed.objects, object, progress)
        BY <1>16, <3>2
      <4>2. With(removed.objects, object, progress)[object] = progress
        BY DEF With
      <4> QED
        BY <1>16, <3>2, <4>1, <4>2 DEF Progress
    <3> QED
      BY <3>1, <3>2
  <2>6. ASSUME NEW p \in StoredPaths(s), p # key PROVE Progress(t, p) = Progress(s, p)
    <3>1. Registered(t, p) = Registered(removed, p) /\ Registered(removed, p) = Registered(s, p)
      BY <1>6, <1>10, <1>16, <2>6
    <3>2. CASE Registered(s, p) = NoObject
      BY <3>1, <3>2 DEF Progress
    <3>3. CASE Registered(s, p) # NoObject
      <4>1. p \in DOMAIN g
        BY <2>6, HeldIs DEF g, Without, m
      <4>2. Registered(removed, p) \in Live(removed)
        BY <1>5, <3>1, <3>3, <4>1, RegisteredLive
      <4>3. Registered(removed, p) \in DOMAIN removed.objects /\ Registered(removed, p) # object
        BY <1>5, <1>6, <4>2 DEF Exist
      <4>4. t.objects[Registered(removed, p)] = removed.objects[Registered(removed, p)]
        <5>1. \A o \in DOMAIN removed.objects : o # object => With(removed.objects, object, progress)[o] = removed.objects[o]
          BY DEF With
        <5> QED
          BY <1>16, <4>3, <5>1
      <4> QED
        BY <1>5, <3>1, <3>3, <4>4 DEF Progress
    <3> QED
      BY <3>2, <3>3
  <2>7. \A p \in StoredPaths(t) : f[p] = [mock |-> MocksOf(t)[p], progress |-> Progress(t, p)]
    <3> TAKE p \in StoredPaths(t)
    <3>1. CASE p = key
      BY <2>1, <2>3, <2>5, <3>1
    <3>2. CASE p # key
      <4>1. p \in StoredPaths(s)
        BY <2>2, <3>2
      <4>2. Held(s)[p] = [mock |-> m[p], progress |-> Progress(s, p)]
        BY <4>1, HeldIs DEF m
      <4> QED
        BY <2>1, <2>3, <2>6, <3>2, <4>1, <4>2
    <3> QED
      BY <3>1, <3>2
  <2>8. Held(t) = f
    BY <2>1, <2>2, <2>7, HeldEqual
  <2> QED
    BY <2>8 DEF f
<1>23. t.storage = SetMockData(s, key, mock).storage
  BY <1>4, <1>5, <1>16
<1>24. Established(s, t, key, mock, progress)
  BY <1>3, <1>18, <1>21, <1>22, <1>23 DEF Established, m, old
<1> QED
  BY <1>1, <1>24 DEF key, t

\* What nothing refers to any more is gone, and nothing else.
Settled(s) == [s EXCEPT !.objects = Restrict(@, Live(s))]

LEMMA Settling ==
    ASSUME NEW s, Consistent(s), Arranged(s, MocksOf(s))
    PROVE /\ Held(Settled(s)) = Held(s) /\ RouteOrder(Settled(s)) = RouteOrder(s)
          /\ MocksOf(Settled(s)) = MocksOf(s) /\ Arranged(Settled(s), MocksOf(s))
          /\ Settled(s).storage = s.storage
<1> DEFINE obj == Restrict(s.objects, Live(s))
           t == Settled(s)
<1>1. s \in States /\ Agreed(s, MocksOf(s)) /\ Exist(s)
  BY DEF Consistent
<1>2. /\ t.storage = s.storage /\ t.routes = s.routes /\ t.sequences = s.sequences
      /\ t.recordings = s.recordings /\ t.objects = obj
  BY <1>1 DEF States, Settled
<1>3. \A o \in Live(s) : obj[o] = s.objects[o]
  BY <1>1 DEF Restrict, Exist
<1> HIDE DEF t, obj
<1>4. \A p : Registered(t, p) = Registered(s, p)
  BY <1>2 DEF Registered
<1>5. MocksOf(t) = MocksOf(s) /\ StoredPaths(t) = StoredPaths(s)
  BY <1>2, SameStorage
<1>6. RouteOrder(t) = RouteOrder(s) /\ (Ordered(s) <=> Ordered(t))
  BY <1>2, SameOrder
<1>7. Arranged(t, MocksOf(s))
  BY <1>4, <1>6 DEF Arranged, Owned
<1>8. \A p \in StoredPaths(s) : Progress(t, p) = Progress(s, p)
  <2> TAKE p \in StoredPaths(s)
  <2>1. Registered(s, p) \in Live(s) \union {NoObject}
    BY <1>1, HeldIs, RegisteredLive
  <2> QED
    BY <1>2, <1>3, <1>4, <2>1 DEF Progress
<1>9. Held(t) = Held(s)
  <2>1. \A p \in StoredPaths(t) : Held(s)[p] = [mock |-> MocksOf(t)[p], progress |-> Progress(t, p)]
    BY <1>5, <1>8, HeldIs
  <2>2. DOMAIN Held(s) = StoredPaths(t) /\ Held(s) = [p \in DOMAIN Held(s) |-> Held(s)[p]]
    BY <1>5, HeldIs
  <2> QED
    BY <2>1, <2>2, HeldEqual
<1> QED
  BY <1>2, <1>5, <1>6, <1>7, <1>9 DEF t

\* Nothing is arranged in any order.
LEMMA NothingArranged ==
    ASSUME NEW s, Consistent(s), MocksOf(s) = [p \in {} |-> NoObject], s.routes = << >>
    PROVE /\ Arranged(s, MocksOf(s)) /\ RouteOrder(s) = << >>
          /\ Held(s) = [p \in {} |-> 0] /\ \A f : Without(f, DOMAIN f) = Held(s)
<1>1. s \in States /\ MocksOf(s) \in Configurations /\ Agreed(s, MocksOf(s))
  BY MocksTyped DEF Consistent
<1>2. DOMAIN MocksOf(s) = {}
  OBVIOUS
<1>3. RouteOrder(s) \in Seq(Keys) /\ Range(RouteOrder(s)) = {}
  BY <1>1, <1>2, OrderOf
<1> DEFINE order == RouteOrder(s)
<1> HIDE DEF order
<1>4. order = << >>
  <2>1. order \in Seq(Keys) /\ \A i \in DOMAIN order : FALSE
    BY <1>3 DEF order, Range
  <2>2. ~(1 \in DOMAIN order) /\ Len(order) \in Nat /\ DOMAIN order = 1..Len(order)
    BY <2>1
  <2> DEFINE n == Len(order)
  <2> HIDE DEF n
  <2>3. n \in Nat /\ ~(1 \in 1..n)
    BY <2>2 DEF n
  <2>4. n = 0
    BY <2>3
  <2> QED
    BY <2>1, <2>4 DEF n
<1>5. Owned(s, MocksOf(s))
  BY <1>2 DEF Owned
<1>6. DOMAIN s.routes = {}
  OBVIOUS
<1>7. Ordered(s)
  <2>1. DOMAIN RouteOrder(s) = {}
    BY <1>4 DEF order
  <2> QED
    BY <1>6, <2>1 DEF Ordered, Injective, Follows
<1>8. StoredPaths(s) = {}
  BY <1>2, HeldIs
<1>9. Held(s) = [p \in {} |-> 0] /\ \A f : Without(f, DOMAIN f) = Held(s)
  BY <1>8 DEF Held, Without
<1> QED
  BY <1>4, <1>5, <1>7, <1>9 DEF Arranged, order

LEMMA CleaningArranged ==
    ASSUME NEW s, Consistent(s)
    PROVE LET t == CleanupStorage(s) IN
          /\ Arranged(t, MocksOf(t)) /\ RouteOrder(t) = << >>
          /\ Held(t) = [p \in {} |-> 0] /\ \A f : Without(f, DOMAIN f) = Held(t)
<1> DEFINE t == CleanupStorage(s)
<1>1. Consistent(t) /\ MocksOf(t) = [p \in {} |-> NoObject] /\ t.routes = << >>
  BY Cleaning
<1> HIDE DEF t
<1>2. /\ Arranged(t, MocksOf(t)) /\ RouteOrder(t) = << >>
      /\ Held(t) = [p \in {} |-> 0] /\ \A f : Without(f, DOMAIN f) = Held(t)
  BY <1>1, NothingArranged
<1> QED
  BY <1>2 DEF t

-------------------------------------------------------------------------------
(* Documents *)

\* The places of a path among the first n mocks of a document, and the keys of these.
Places(document, n, p) == {i \in 1..n : Key(document[i].path) = p}
KeysOf(document, n) == [i \in 1..n |-> Key(document[i].path)]

\* What the first n mocks of a document make of the mocks held.
Loaded(held, document, n, f) ==
    /\ DOMAIN f = DOMAIN held \union {Key(document[i].path) : i \in 1..n}
    /\ f = [p \in DOMAIN f |-> f[p]]
    /\ \A p \in DOMAIN f :
           f[p] = IF Places(document, n, p) # {}
                  THEN LET item == document[Max(Places(document, n, p))]
                       IN  [mock |-> item.mock, progress |-> item.recordings]
                  ELSE held[p]

LEMMA GreatestIs ==
    ASSUME NEW n \in Nat, NEW T \in SUBSET (0..n), NEW x \in T, \A y \in T : y <= x
    PROVE Max(T) = x
<1>1. Max(T) \in T /\ \A y \in T : y <= Max(T)
  BY Greatest
<1> DEFINE g == Max(T)
<1> HIDE DEF g
<1>2. g <= x /\ x <= g /\ g \in 0..n /\ x \in 0..n
  BY <1>1 DEF g
<1> QED
  BY <1>2 DEF g

LEMMA LoadedNext ==
    ASSUME NEW held, NEW document, NEW n \in Nat \ {0}, NEW f, Loaded(held, document, n - 1, f),
           NEW t, t = With(f, Key(document[n].path), [mock |-> document[n].mock, progress |-> document[n].recordings])
    PROVE Loaded(held, document, n, t)
<1> DEFINE key == Key(document[n].path)
           value == [mock |-> document[n].mock, progress |-> document[n].recordings]
<1>1. /\ DOMAIN t = DOMAIN f \union {key} /\ t = [p \in DOMAIN t |-> t[p]] /\ t[key] = value
      /\ \A p \in DOMAIN f : p # key => t[p] = f[p]
  BY DEF With
<1>2. \A i : i \in 1..n <=> i \in 1..n - 1 \/ i = n
  OBVIOUS
<1>3. DOMAIN t = DOMAIN held \union {Key(document[i].path) : i \in 1..n}
  <2>1. \A p : p \in DOMAIN f <=> p \in DOMAIN held \/ \E i \in 1..n - 1 : p = Key(document[i].path)
    BY DEF Loaded
  <2>2. \A p : p \in DOMAIN t <=> p \in DOMAIN held \/ \E i \in 1..n : p = Key(document[i].path)
    BY <1>1, <1>2, <2>1
  <2> QED
    BY <2>2
<1>4. Places(document, n, key) # {} /\ Max(Places(document, n, key)) = n
  <2> DEFINE T == Places(document, n, key)
  <2>1. T \in SUBSET (0..n) /\ n \in T /\ \A y \in T : y <= n
    BY DEF Places
  <2> HIDE DEF T
  <2>2. Max(T) = n
    BY <2>1, GreatestIs
  <2> QED
    BY <2>1, <2>2 DEF T
<1>5. ASSUME NEW p, p # key PROVE Places(document, n, p) = Places(document, n - 1, p)
  BY <1>2, <1>5 DEF Places
<1>6. ASSUME NEW p \in DOMAIN t
      PROVE t[p] = IF Places(document, n, p) # {}
                   THEN LET item == document[Max(Places(document, n, p))]
                        IN  [mock |-> item.mock, progress |-> item.recordings]
                   ELSE held[p]
  <2>1. CASE p = key
    BY <1>1, <1>4, <2>1
  <2>2. CASE p # key
    <3>1. p \in DOMAIN f /\ t[p] = f[p]
      BY <1>1, <2>2
    <3>2. Places(document, n, p) = Places(document, n - 1, p)
      BY <1>5, <2>2
    <3> QED
      BY <3>1, <3>2 DEF Loaded
  <2> QED
    BY <2>1, <2>2
<1> QED
  BY <1>1, <1>3, <1>6 DEF Loaded

LEMMA LoadedNone ==
    ASSUME NEW held, NEW document, held = [p \in DOMAIN held |-> held[p]]
    PROVE Loaded(held, document, 0, held)
<1>1. 1..0 = {}
  OBVIOUS
<1>2. \A p : Places(document, 0, p) = {}
  BY <1>1 DEF Places
<1>3. {Key(document[i].path) : i \in 1..0} = {}
  BY <1>1
<1> QED
  BY <1>2, <1>3 DEF Loaded

\* A state in which the first n mocks of a document have been initialized.
Reached(s, document, n, t) ==
    /\ Consistent(t) /\ Arranged(t, MocksOf(t))
    /\ Loaded(Held(s), document, n, Held(t))
    /\ RouteOrder(t) = Latest(RouteOrder(s) \o KeysOf(document, n))

Following(base, document, n) == base \o KeysOf(document, n)

LEMMA KeysNext ==
    ASSUME NEW base \in Seq(Keys), NEW document, NEW n \in Nat, \A i \in 1..n : Key(document[i].path) \in Keys
    PROVE Following(base, document, n) \in Seq(Keys)
<1> DEFINE q == KeysOf(document, n)
<1>1. q \in [1..n -> Keys]
  BY DEF KeysOf
<1> HIDE DEF q
<1>2. q \in Seq(Keys)
  BY <1>1
<1>3. base \o q \in Seq(Keys)
  BY <1>2
<1> QED
  BY <1>3 DEF Following, q

LEMMA FollowedBy ==
    ASSUME NEW base \in Seq(Keys), NEW document, NEW n \in Nat \ {0}, \A i \in 1..n : Key(document[i].path) \in Keys
    PROVE Following(base, document, n) = Append(Following(base, document, n - 1), Key(document[n].path))
<1> DEFINE q == KeysOf(document, n)
           p == KeysOf(document, n - 1)
           key == Key(document[n].path)
           m == Len(base)
           l == base \o q
           b == base \o p
           r == Append(b, key)
<1>1. n - 1 \in Nat /\ \A i \in 1..n - 1 : i \in 1..n
  OBVIOUS
<1>2. q \in [1..n -> Keys] /\ p \in [1..n - 1 -> Keys] /\ key \in Keys
  BY <1>1 DEF KeysOf
<1>3. q[n] = key /\ \A i \in 1..n - 1 : q[i] = p[i]
  BY <1>1 DEF KeysOf
<1> HIDE DEF q, p, key
<1>4. q \in Seq(Keys) /\ Len(q) = n /\ p \in Seq(Keys) /\ Len(p) = n - 1 /\ m \in Nat
  BY <1>1, <1>2
<1>5. /\ l \in Seq(Keys) /\ Len(l) = m + n /\ \A i \in 1..m + n : l[i] = IF i <= m THEN base[i] ELSE q[i - m]
  <2>1. l \in Seq(Keys) /\ Len(l) = m + Len(q)
    BY <1>4
  <2>2. \A i \in 1..m + Len(q) : l[i] = IF i <= m THEN base[i] ELSE q[i - m]
    BY <1>4
  <2> QED
    BY <1>4, <2>1, <2>2
<1>6. /\ b \in Seq(Keys) /\ Len(b) = m + (n - 1)
      /\ \A i \in 1..m + (n - 1) : b[i] = IF i <= m THEN base[i] ELSE p[i - m]
  BY <1>4
<1> HIDE DEF b, l, m
<1>7. /\ r \in Seq(Keys) /\ Len(r) = m + n /\ r[m + n] = key
      /\ \A i \in 1..m + (n - 1) : r[i] = b[i]
  BY <1>2, <1>4, <1>6
<1> HIDE DEF r
<1>8. ASSUME NEW i \in 1..m + n PROVE l[i] = r[i]
  <2>1. CASE i = m + n
    <3>1. ~(i <= m) /\ i - m = n
      BY <1>4, <2>1
    <3> QED
      BY <1>3, <1>5, <1>7, <2>1, <3>1
  <2>2. CASE i # m + n
    <3>1. i \in 1..m + (n - 1)
      BY <1>4, <2>2
    <3>2. CASE i <= m
      BY <1>5, <1>6, <1>7, <3>1, <3>2
    <3>3. CASE ~(i <= m)
      <4>1. i - m \in 1..n - 1
        BY <1>4, <3>1, <3>3
      <4> QED
        BY <1>3, <1>5, <1>6, <1>7, <3>1, <3>3, <4>1
    <3> QED
      BY <3>2, <3>3
  <2> QED
    BY <2>1, <2>2
<1>9. m + n \in Nat
  BY <1>4
<1>10. l = r
  <2>1. l = [i \in 1..m + n |-> l[i]] /\ r = [i \in 1..m + n |-> r[i]]
    BY <1>5, <1>7, <1>9
  <2> QED
    BY <1>8, <2>1
<1> QED
  BY <1>10 DEF Following, l, r, b, q, p, key

\* An import that was validated has loaded what it has come to.
LEMMA ImportReaches ==
    ASSUME NEW s, Consistent(s), Arranged(s, MocksOf(s)), NEW document \in Documents, Parses(document)
    PROVE \A n \in 0..Len(document) : Reached(s, document, n, After(s, document)[n])
<1> DEFINE N == Len(document)
           a == After(s, document)
           T == {n \in 0..N : ~Reached(s, document, n, a[n])}
           base == RouteOrder(s)
<1>1. document \in Seq(Items) /\ N \in Nat
  BY DocumentItems
<1>2. a[0] = s /\ \A n \in 1..N : a[n] = Initialize(a[n - 1], document[n])
  BY <1>1, AfterEach
<1>3. SUFFICES ASSUME T # {} PROVE FALSE
  OBVIOUS
<1> HIDE DEF a
<1>4. PICK n \in T : \A k \in T : n <= k
  <2>1. T \in SUBSET Nat
    BY <1>1
  <2> HIDE DEF T
  <2> QED
    BY <1>3, <2>1, Least
<1>5. base \in Seq(Keys) /\ Injective(base)
  <2>1. s \in States /\ MocksOf(s) \in Configurations /\ Agreed(s, MocksOf(s))
    BY MocksTyped DEF Consistent
  <2> QED
    BY <2>1, OrderOf DEF Arranged, Ordered
<1>6. Reached(s, document, 0, s)
  <2>1. KeysOf(document, 0) = << >>
    BY DEF KeysOf
  <2>2. base \o << >> = base
    BY <1>5
  <2> HIDE DEF base
  <2>3. Latest(base) = base
    BY <1>5, LatestOfDistinct
  <2>4. Loaded(Held(s), document, 0, Held(s))
    <3> DEFINE h == Held(s)
    <3>1. h = [p \in DOMAIN h |-> h[p]]
      BY HeldIs
    <3> HIDE DEF h
    <3>2. Loaded(h, document, 0, h)
      BY <3>1, LoadedNone
    <3> QED
      BY <3>2 DEF h
  <2> QED
    BY <2>1, <2>2, <2>3, <2>4 DEF Reached, base
<1>7. n \in 1..N /\ n - 1 \in 0..N /\ n \in Nat \ {0}
  BY <1>1, <1>2, <1>4, <1>6
<1>8. Reached(s, document, n - 1, a[n - 1])
  <2>1. ~(n <= n - 1)
    BY <1>7
  <2> QED
    BY <1>4, <1>7, <2>1
<1> DEFINE item == document[n]
           path == Normalize(Normalize(Normalize(item.path)))
           key == Key(item.path)
           t == a[n - 1]
           u == a[n]
<1>9. /\ item.mock \in Mocks /\ item.recordings \in Nat /\ Normalize(path) = key /\ key \in Keys
      /\ \A i \in 1..n : Key(document[i].path) \in Keys
  <2>1. \A i \in 1..n : i \in DOMAIN document
    BY <1>1, <1>7
  <2> QED
    BY <1>1, <1>7, <2>1, DocumentItems DEF Key
<1>10. item.recordings \in 0..MaxProgress /\ (item.mock.kind = "static" => item.recordings = 0)
  BY <1>1, <1>7, <1>9, BoundsAssumption DEF Parses
<1>11. u = MockInitialization(t, path, item.mock, item.recordings)
  BY <1>2, <1>7 DEF Initialize
<1> HIDE DEF item, path, key, t, u
<1>12. Established(t, u, key, item.mock, item.recordings)
  <2>1. Consistent(t) /\ Arranged(t, MocksOf(t))
    BY <1>8 DEF Reached, t
  <2> QED
    BY <1>9, <1>10, <1>11, <2>1, Establishing
<1>13. Loaded(Held(s), document, n, Held(u))
  <2>1. Loaded(Held(s), document, n - 1, Held(t))
    BY <1>8 DEF Reached, t
  <2>2. Held(u) = With(Held(t), Key(document[n].path), [mock |-> document[n].mock, progress |-> document[n].recordings])
    BY <1>12 DEF Established, key, item
  <2> QED
    BY <1>7, <2>1, <2>2, LoadedNext
<1>14. RouteOrder(u) = Latest(Following(base, document, n))
  <2> DEFINE before == Following(base, document, n - 1)
  <2>1. RouteOrder(t) = Latest(before)
    BY <1>8 DEF Reached, t, Following
  <2>2. RouteOrder(u) = Latest(Append(RouteOrder(t), key))
    BY <1>12 DEF Established
  <2>3. Following(base, document, n) = Append(before, key)
    BY <1>5, <1>7, <1>9, FollowedBy DEF key, item
  <2>4. before \in Seq(Keys)
    <3>1. n - 1 \in Nat /\ \A i \in 1..n - 1 : i \in 1..n
      BY <1>7
    <3> QED
      BY <1>5, <1>9, <3>1, KeysNext
  <2> HIDE DEF before
  <2>5. Latest(Append(Latest(before), key)) = Latest(Append(before, key))
    BY <1>9, <2>4, LatestTwice
  <2> QED
    BY <2>1, <2>2, <2>3, <2>5
<1>15. Reached(s, document, n, u)
  BY <1>12, <1>13, <1>14 DEF Reached, Established, Following
<1> QED
  BY <1>4, <1>7, <1>15 DEF u

\* The key of a normal path, and of two spellings that were told apart.
LEMMA NormalKey ==
    ASSUME NEW path, Normalize(path) = path
    PROVE Key(path) = path
  BY DEF Key

\* Replacing everything by distinct normal paths stores them in the order of the document.
LEMMA ImportStores ==
    ASSUME NEW s, Consistent(s), Arranged(s, MocksOf(s)), s.storage = << >>, NEW document \in Documents, Parses(document),
           \A i \in DOMAIN document : Normalize(document[i].path) = document[i].path
    PROVE \A n \in 0..Len(document) :
              After(s, document)[n].storage = [i \in 1..n |-> [path |-> document[i].path, mock |-> document[i].mock]]
<1> DEFINE N == Len(document)
           a == After(s, document)
           list(n) == [i \in 1..n |-> [path |-> document[i].path, mock |-> document[i].mock]]
           T == {n \in 0..N : a[n].storage # list(n)}
<1>1. document \in Seq(Items) /\ N \in Nat
  BY DocumentItems
<1>2. a[0] = s /\ \A n \in 1..N : a[n] = Initialize(a[n - 1], document[n])
  BY <1>1, AfterEach
<1>3. SUFFICES ASSUME T # {} PROVE FALSE
  OBVIOUS
<1>4. \A n \in 0..N : Consistent(a[n]) /\ Arranged(a[n], MocksOf(a[n]))
  BY ImportReaches DEF Reached
<1> HIDE DEF a
<1>5. PICK n \in T : \A k \in T : n <= k
  <2>1. T \in SUBSET Nat
    BY <1>1
  <2> HIDE DEF T
  <2> QED
    BY <1>3, <2>1, Least
<1>6. list(0) = << >>
  OBVIOUS
<1>7. n \in 1..N /\ n - 1 \in 0..N /\ n \in Nat \ {0}
  BY <1>1, <1>2, <1>5, <1>6
<1>8. a[n - 1].storage = list(n - 1)
  <2>1. ~(n <= n - 1)
    BY <1>7
  <2> QED
    BY <1>5, <1>7, <2>1
<1> DEFINE item == document[n]
           path == Normalize(Normalize(Normalize(item.path)))
           t == a[n - 1]
           key == item.path
           entry == [path |-> key, mock |-> item.mock]
<1>9. /\ item.mock \in Mocks /\ item.recordings \in 0..MaxProgress /\ (item.mock.kind = "static" => item.recordings = 0)
      /\ Normalize(path) = key /\ key \in Keys /\ Normalize(key) = key
  <2>1. n \in DOMAIN document
    BY <1>1, <1>7
  <2>2. item.mock \in Mocks /\ item.recordings \in Nat /\ Key(item.path) \in Keys /\ Normalize(item.path) = item.path
    BY <2>1, DocumentItems
  <2>3. item.recordings \in 0..MaxProgress /\ (item.mock.kind = "static" => item.recordings = 0)
    BY <2>1, <2>2, BoundsAssumption DEF Parses
  <2> QED
    BY <2>2, <2>3 DEF Key
<1>10. a[n] = MockInitialization(t, path, item.mock, item.recordings)
  BY <1>2, <1>7 DEF Initialize
<1>11. \A i \in 1..n - 1 : document[i].path # key
  <2> TAKE i \in 1..n - 1
  <2>1. i \in DOMAIN document /\ n \in DOMAIN document /\ i # n
    BY <1>1, <1>7
  <2> QED
    BY <2>1 DEF Parses
<1>12. ~IsStored(t, key)
  <2>1. DOMAIN list(n - 1) = 1..n - 1 /\ \A i \in 1..n - 1 : list(n - 1)[i].path = document[i].path
    OBVIOUS
  <2> HIDE DEF list
  <2> QED
    BY <1>8, <1>11, <2>1 DEF IsStored
<1> HIDE DEF path, t
<1>13. a[n].storage = SetMockData(t, key, item.mock).storage
  <2> HIDE DEF item
  <2>1. Consistent(t) /\ Arranged(t, MocksOf(t))
    BY <1>4, <1>7 DEF t
  <2> DEFINE u == MockInitialization(t, path, item.mock, item.recordings)
             k == Normalize(path)
  <2> HIDE DEF key
  <2>2. k \in Keys
    BY <1>9
  <2>3. Established(t, u, k, item.mock, item.recordings)
    BY <1>9, <2>1, <2>2, Establishing
  <2> QED
    BY <1>9, <1>10, <2>3 DEF Established
<1>14. SetMockData(t, key, item.mock).storage = Append(t.storage, entry)
  <2>1. t \in States
    BY <1>4, <1>7 DEF Consistent, t
  <2> QED
    BY <1>9, <1>12, <2>1 DEF SetMockData, States
<1>15. Append(list(n - 1), entry) = list(n)
  <2> DEFINE S == {list(n)[i] : i \in 1..n}
             l == list(n)
             b == list(n - 1)
             r == Append(b, entry)
  <2>1. n - 1 \in Nat /\ \A i \in 1..n : i \in 1..n - 1 \/ i = n
    BY <1>7
  <2>2. DOMAIN l = 1..n /\ l[n] = entry /\ DOMAIN b = 1..n - 1 /\ \A i \in 1..n - 1 : b[i] = l[i] /\ i \in 1..n
    BY <1>7
  <2>3. l = [i \in 1..n |-> l[i]] /\ b = [i \in 1..n - 1 |-> b[i]]
    OBVIOUS
  <2>4. entry \in S /\ \A i \in 1..n - 1 : b[i] \in S
    BY <1>7, <2>2
  <2> HIDE DEF l, b, S, entry
  <2>5. b \in [1..n - 1 -> S]
    BY <2>3, <2>4
  <2>6. b \in Seq(S) /\ Len(b) = n - 1
    BY <2>1, <2>2, <2>5
  <2>7. r \in Seq(S) /\ Len(r) = n /\ r[n] = entry /\ \A i \in 1..n - 1 : r[i] = b[i]
    BY <2>1, <2>4, <2>6
  <2> HIDE DEF r
  <2>8. r = [i \in 1..n |-> r[i]]
    BY <1>7, <2>7
  <2>9. \A i \in 1..n : r[i] = l[i]
    BY <2>1, <2>2, <2>7
  <2>10. r = l
    BY <2>3, <2>8, <2>9
  <2> QED
    BY <2>10 DEF r, l, b
<1>16. a[n].storage = list(n)
  <2> HIDE DEF list, entry
  <2> QED
    BY <1>8, <1>13, <1>14, <1>15 DEF t
<1> QED
  BY <1>5, <1>16

-------------------------------------------------------------------------------
(* Every request as the contract has it *)

\* What the refinement needs beyond consistency: objects that are not shared, and the order.
ArrangedInv == IInv /\ Arranged(app, MocksOf(app))

\* The mocks held and their order, as a step leaves them.
Becomes(s) == Held(app') = Held(s) /\ RouteOrder(app') = RouteOrder(s) /\ app'.storage = s.storage

LEMMA BecomingArranged ==
    ASSUME NEW s, Consistent(s), Arranged(s, MocksOf(s)), Become(s)
    PROVE ArrangedInv' /\ Becomes(s)
<1>1. IInv'
  BY Becoming
<1>2. app' = Settled(s)
  BY DEF Become, Settled
<1>3. Arranged(app', MocksOf(app')) /\ Becomes(s)
  BY <1>2, Settling DEF Becomes
<1> QED
  BY <1>1, <1>3 DEF ArrangedInv

LEMMA StayingArranged ==
    ASSUME ArrangedInv, UNCHANGED app
    PROVE ArrangedInv' /\ Becomes(app)
  BY DEF ArrangedInv, IInv, Becomes

\* A path configured: it holds what it was given, and is tried last.
SetTo(path, mock, progress) ==
    /\ Held(app') = With(Held(app), path, [mock |-> mock, progress |-> progress])
    /\ RouteOrder(app') = Latest(Append(RouteOrder(app), path))

LEMMA ConfiguringArranged ==
    ASSUME ArrangedInv, NEW what, NEW path \in Paths, NEW mock \in Mocks, NEW progress \in 0..MaxProgress,
           mock.kind = "static" => progress = 0,
           Configure(what, path, mock, progress)
    PROVE /\ ArrangedInv'
          /\ \/ event'.what \in {"refused", "failed"} /\ Becomes(app)
             \/ event' = [what |-> what, path |-> Key(path), mock |-> mock] /\ SetTo(Key(path), mock, progress)
<1> DEFINE value == Normalize(Normalize(path))
           s == MockInitialization(app, Normalize(value), mock, progress)
           key == Normalize(Normalize(value))
<1>1. key \in Keys /\ key = Key(path)
  BY DEF Keys, Key, Spellings
<1>2. Consistent(app) /\ Arranged(app, MocksOf(app))
  BY DEF ArrangedInv, IInv
<1>3. Established(app, s, key, mock, progress)
  <2> HIDE DEF value
  <2> QED
    BY <1>1, <1>2, Establishing
<1>4. CASE UNCHANGED app /\ event'.what \in {"refused", "failed"}
  BY <1>4, StayingArranged
<1>5. CASE Become(s) /\ event' = [what |-> what, path |-> key, mock |-> mock]
  <2> HIDE DEF s, key
  <2>1. ArrangedInv' /\ Becomes(s)
    BY <1>3, <1>5, BecomingArranged DEF Established
  <2>2. SetTo(key, mock, progress)
    BY <1>3, <2>1 DEF Established, Becomes, SetTo
  <2> QED
    BY <1>1, <1>5, <2>1, <2>2
<1> QED
  BY <1>4, <1>5 DEF Configure, Tell

\* The operators the contract is built from are those of the server.
LEMMA SameOperators ==
    /\ \A s, kept : Contract!Picked(s, kept) = Picked(s, kept)
    /\ \A f, key, value : Contract!With(f, key, value) = With(f, key, value)
    /\ \A f, keys : Contract!Without(f, keys) = Without(f, keys)
    /\ \A f : Contract!Range(f) = Range(f)
    /\ \A T : Contract!Max(T) = Max(T) /\ Contract!Min(T) = Min(T)
    /\ \A path : Contract!Key(path) = Key(path)
    /\ \A path : Contract!Slashed(path) = Slashed(path)
    /\ \A base : Contract!Plain(base) = Plain(base)
    /\ \A path : Contract!Reserved(path) <=> Reserved(path)
    /\ \A route, url : Contract!Matches(route, url) <=> Matches(route, url)
<1>1. \A s, kept : Contract!Picked(s, kept) = Picked(s, kept)
  BY Zenon DEF Picked, Contract!Picked, Cardinality, Contract!Cardinality
<1>2. \A f, key, value : Contract!With(f, key, value) = With(f, key, value)
  BY DEF With, Contract!With
<1>3. \A f, keys : Contract!Without(f, keys) = Without(f, keys)
  BY DEF Without, Contract!Without
<1>4. \A path : Contract!Normalize(path) = Normalize(path)
  <2>1. \A T : Contract!Max(T) = Max(T)
    BY DEF Max, Contract!Max
  <2>2. \A tail, char : Contract!Stripped(tail, char) = Stripped(tail, char)
    BY <2>1 DEF Stripped, Contract!Stripped
  <2> QED
    BY <2>2 DEF Normalize, Contract!Normalize
<1>5. \A path : Contract!Key(path) = Key(path)
  BY <1>4 DEF Key, Contract!Key
<1>6. \A path : Contract!Slashed(path) = Slashed(path)
  BY DEF Slashed, Contract!Slashed
<1>7. \A base : Contract!Plain(base) = Plain(base)
  BY DEF Plain, Contract!Plain
<1>8. \A path : Contract!Reserved(path) <=> Reserved(path)
  BY DEF Reserved, Contract!Reserved
<1>9. \A route, url : Contract!Matches(route, url) <=> Matches(route, url)
  <2>1. \A s, t : Contract!IsSuffix(s, t) <=> IsSuffix(s, t)
    BY DEF IsSuffix, Contract!IsSuffix, IsPrefix, Contract!IsPrefix, Reverse, Contract!Reverse
  <2> QED
    BY <2>1 DEF Matches, Contract!Matches
<1>10. \A f : Contract!Range(f) = Range(f)
  BY DEF Range, Contract!Range
<1>11. \A T : Contract!Max(T) = Max(T) /\ Contract!Min(T) = Min(T)
  BY DEF Max, Contract!Max, Min, Contract!Min
<1> QED
  BY <1>1, <1>2, <1>3, <1>5, <1>6, <1>7, <1>8, <1>9, <1>10, <1>11

LEMMA SameLatest ==
    \A s : Contract!Latest(s) = Latest(s)
  BY SameOperators DEF Latest, LastOnes, Contract!Latest

LEMMA PutArranged ==
    ASSUME ArrangedInv, NEW path \in Paths, NEW mock \in Mocks, PutMock(path, mock)
    PROVE ArrangedInv' /\ Contract!Next
<1>1. 0 \in 0..MaxProgress
  BY BoundsAssumption
<1>2. Configure("put", path, mock, 0)
  BY DEF PutMock
<1>3. /\ ArrangedInv'
      /\ \/ event'.what \in {"refused", "failed"} /\ Becomes(app)
         \/ event' = [what |-> "put", path |-> Key(path), mock |-> mock] /\ SetTo(Key(path), mock, 0)
  BY <1>1, <1>2, ConfiguringArranged
<1>4. CASE event'.what \in {"refused", "failed"} /\ Becomes(app)
  <2>1. Contract!Refuse
    BY <1>4 DEF Becomes, Contract!Refuse
  <2> QED
    BY <1>3, <2>1 DEF Contract!Next
<1>5. CASE event' = [what |-> "put", path |-> Key(path), mock |-> mock] /\ SetTo(Key(path), mock, 0)
  <2>1. Contract!Put
    BY <1>5, SameOperators, SameLatest DEF SetTo, Contract!Put, Contract!Set
  <2> QED
    BY <1>3, <2>1 DEF Contract!Next
<1> QED
  BY <1>3, <1>4, <1>5

\* What a mock that is stored holds.
LEMMA HeldAt ==
    ASSUME NEW key, IsStored(app, key)
    PROVE key \in DOMAIN Held(app) /\ Held(app)[key].mock = StoredMock(app, key)
          /\ Held(app)[key].progress = Progress(app, key)
  BY DEF IsStored, Held, StoredPaths

LEMMA StoredNormal ==
    ASSUME ArrangedInv, NEW key, IsStored(app, key)
    PROVE key \in Keys /\ Normalize(key) = key
<1>1. key \in StoredPaths(app)
  BY DEF IsStored, StoredPaths
<1>2. key \in Keys
  BY <1>1, MocksTyped DEF ArrangedInv, IInv, Consistent
<1> QED
  BY <1>2, KeysNormal DEF IsNormal

\* Nothing advances a static mock.
LEMMA StaticProgress ==
    ASSUME ArrangedInv, NEW key, IsStored(app, key), StoredMock(app, key).kind = "static"
    PROVE Progress(app, key) = 0
<1>1. key \in DOMAIN MocksOf(app) /\ MocksOf(app)[key] = StoredMock(app, key)
  BY DEF IsStored, MocksOf, StoredPaths
<1> QED
  BY <1>1 DEF ArrangedInv, Arranged, Owned, Progress

LEMMA PatchArranged ==
    ASSUME ArrangedInv, NEW path \in Paths, NEW mock \in Mocks, PatchMock(path, mock)
    PROVE ArrangedInv' /\ Contract!Next
<1> DEFINE key == Normalize(Normalize(path))
           saved == StoredMock(app, key)
           progress == PatchProgress(key, saved, mock)
<1>1. CASE ~IsStored(app, key)
  <2>1. event'.what = "not found" /\ UNCHANGED app
    <3>1. event' = [what |-> "not found"] /\ app' = app
      BY <1>1, Zenon DEF PatchMock, Tell
    <3> QED
      BY <3>1
  <2>2. ArrangedInv' /\ Becomes(app)
    BY <2>1, StayingArranged
  <2>3. Contract!Refuse
    BY <2>1, <2>2 DEF Becomes, Contract!Refuse
  <2> QED
    BY <2>2, <2>3 DEF Contract!Next
<1>2. CASE IsStored(app, key)
  <2>1. Configure("patch", path, mock, progress)
    BY <1>2 DEF PatchMock
  <2>2. Key(path) = key
    <3>1. Normalize(key) = key
      BY <1>2, StoredNormal
    <3> QED
      BY <3>1 DEF Key
  <2>3. key \in DOMAIN Held(app) /\ Held(app)[key].mock = saved /\ Held(app)[key].progress = Progress(app, key)
    BY <1>2, HeldAt
  <2>4. saved.kind = "static" => Progress(app, key) = 0
    BY <1>2, StaticProgress
  <2> HIDE DEF key
  <2>5. progress \in 0..MaxProgress
    BY ProgressTyped, BoundsAssumption DEF PatchProgress, ArrangedInv
  <2> HIDE DEF saved
  <2>6. /\ mock.kind = "static" => progress = 0
        /\ progress = IF saved.kind = mock.kind THEN Progress(app, key) ELSE 0
    BY <2>4 DEF PatchProgress
  <2> HIDE DEF progress
  <2>7. /\ ArrangedInv'
        /\ \/ event'.what \in {"refused", "failed"} /\ Becomes(app)
           \/ event' = [what |-> "patch", path |-> key, mock |-> mock] /\ SetTo(key, mock, progress)
    BY <2>1, <2>2, <2>5, <2>6, ConfiguringArranged
  <2>8. CASE event'.what \in {"refused", "failed"} /\ Becomes(app)
    <3>1. Contract!Refuse
      BY <2>8 DEF Becomes, Contract!Refuse
    <3> QED
      BY <2>7, <3>1 DEF Contract!Next
  <2>9. CASE event' = [what |-> "patch", path |-> key, mock |-> mock] /\ SetTo(key, mock, progress)
    <3> DEFINE old == Held(app)[key]
    <3>1. progress = IF old.mock.kind = mock.kind THEN old.progress ELSE 0
      BY <2>3, <2>6
    <3>2. event'.what = "patch" /\ event'.path = key /\ event'.mock = mock
      BY <2>9
    <3>3. Contract!Set(key, mock, progress)
      BY <2>9, SameOperators, SameLatest DEF SetTo, Contract!Set
    <3>4. Contract!Patch
      BY <2>3, <3>1, <3>2, <3>3 DEF Contract!Patch
    <3> QED
      BY <2>7, <3>4 DEF Contract!Next
  <2> QED
    BY <2>7, <2>8, <2>9
<1> QED
  BY <1>1, <1>2

\* Paths taken down: nothing of them is left, and the others are as they were.
Taken(s, t, keys) ==
    /\ Consistent(t) /\ Arranged(t, MocksOf(t))
    /\ Held(t) = Without(Held(s), keys)
    /\ RouteOrder(t) = Only(RouteOrder(s), Keys \ keys)

LEMMA TakingDown ==
    ASSUME NEW s, Consistent(s), Arranged(s, MocksOf(s)), NEW identity, Normalize(identity) \in Keys
    PROVE Taken(s, RemoveRuntimeRoutes(DeleteMockData(s, identity), {identity}), {Normalize(identity)})
<1> DEFINE key == Normalize(identity)
           keys == {key}
           paths == {identity}
           d == DeleteMockData(s, identity)
           t == RemoveRuntimeRoutes(d, paths)
           m == MocksOf(s)
           g == Without(m, keys)
<1>1. s \in States /\ Once(s) /\ Agreed(s, m) /\ Exist(s) /\ Owned(s, m) /\ Ordered(s)
  BY DEF Consistent, Arranged
<1>2. key \in Keys /\ Normalize(key) = key
  BY KeysNormal DEF IsNormal
<1>3. /\ d \in States /\ Once(d) /\ MocksOf(d) = g
      /\ d.routes = s.routes /\ d.sequences = s.sequences /\ d.recordings = s.recordings /\ d.objects = s.objects
  BY <1>1, Deleting
<1> HIDE DEF d, m
<1>4. Agreed(d, m) /\ Exist(d) /\ \A p : Registered(d, p) = Registered(s, p)
  BY <1>1, <1>3, SameRoutes
<1>5. RouteOrder(d) = RouteOrder(s) /\ Ordered(d)
  BY <1>1, <1>3, SameOrder
<1>6. m \in Configurations
  BY <1>1, MocksTyped DEF m
<1>7. keys = {Normalize(p) : p \in paths}
  OBVIOUS
<1>8. \A p \in paths : Normalize(p) \in Keys /\ RouteCandidates(p) = RouteCandidates(Normalize(p))
  BY <1>2 DEF RouteCandidates
<1> HIDE DEF paths, keys, key
<1>9. /\ t \in States /\ t.storage = d.storage /\ t.objects = d.objects
      /\ t.routes = Picked(d.routes, Others(d, keys))
      /\ Agreed(t, Without(m, keys)) /\ Live(t) \subseteq Live(d)
      /\ \A p : p \notin keys => Registered(t, p) = Registered(d, p)
  BY <1>3, <1>4, <1>6, <1>7, <1>8, Removing
<1> HIDE DEF t
<1>10. RouteOrder(t) = Only(RouteOrder(d), Keys \ keys)
  BY <1>3, <1>9, OrderRemoved
<1>11. Ordered(t)
  BY <1>3, <1>4, <1>5, <1>6, <1>9, RemovedOrdered
<1>12. Owned(t, g)
  BY <1>1, <1>4, <1>9, OwnedWithout
<1>13. Once(t) /\ MocksOf(t) = MocksOf(d) /\ StoredPaths(t) = StoredPaths(d)
  BY <1>3, <1>9, SameStorage
<1>14. Consistent(t) /\ Arranged(t, MocksOf(t))
  <2> HIDE DEF g
  <2> QED
    BY <1>3, <1>4, <1>9, <1>11, <1>12, <1>13 DEF Consistent, Arranged, Exist, g
<1>15. StoredPaths(t) = DOMAIN m \ keys /\ MocksOf(t) = g
  <2>1. StoredPaths(t) = DOMAIN MocksOf(t)
    BY HeldIs
  <2> QED
    BY <1>3, <1>13, <2>1 DEF Without
<1>16. Held(t) = Without(Held(s), keys)
  <2> DEFINE f == Without(Held(s), keys)
  <2>1. DOMAIN Held(s) = DOMAIN m /\ \A p \in DOMAIN m : Held(s)[p] = [mock |-> m[p], progress |-> Progress(s, p)]
    BY HeldIs DEF m
  <2>2. DOMAIN f = StoredPaths(t) /\ f = [p \in DOMAIN f |-> f[p]]
    BY <1>15, <2>1 DEF Without
  <2>3. ASSUME NEW p \in StoredPaths(t) PROVE f[p] = [mock |-> MocksOf(t)[p], progress |-> Progress(t, p)]
    <3>1. p \in DOMAIN m /\ p \notin keys
      BY <1>15
    <3>2. f[p] = Held(s)[p] /\ MocksOf(t)[p] = m[p]
      BY <1>15, <2>1, <3>1 DEF Without
    <3>3. Progress(t, p) = Progress(s, p)
      BY <1>3, <1>4, <1>9, <3>1 DEF Progress
    <3> QED
      BY <2>1, <3>1, <3>2, <3>3
  <2> HIDE DEF f
  <2>4. Held(t) = f
    BY <2>2, <2>3, HeldEqual
  <2> QED
    BY <2>4 DEF f
<1>17. Taken(s, t, keys)
  BY <1>5, <1>10, <1>14, <1>16 DEF Taken
<1> QED
  BY <1>17 DEF t, d, keys, key, paths

\* Selecting the others is leaving these out.
LEMMA LeavingOut ==
    ASSUME NEW s, s \in Seq(Keys), NEW keys
    PROVE Only(s, Keys \ keys) = Picked(s, {i \in DOMAIN s : s[i] \notin keys})
<1>1. Where(s, DOMAIN s, Keys \ keys) = {i \in DOMAIN s : s[i] \notin keys}
  BY DEF Where
<1> QED
  BY <1>1 DEF Only

LEMMA DeleteArranged ==
    ASSUME ArrangedInv, NEW path \in Paths, DeleteMock(path)
    PROVE ArrangedInv' /\ Contract!Next
<1> DEFINE identity == Normalize(path)
           key == Normalize(identity)
           r == RemoveRuntimeRoutes(DeleteMockData(app, identity), {identity})
<1>1. CASE ~IsStored(app, key)
  <2>1. event'.what = "not found" /\ UNCHANGED app
    <3>1. event' = [what |-> "not found"] /\ app' = app
      BY <1>1, Zenon DEF DeleteMock, Tell
    <3> QED
      BY <3>1
  <2>2. ArrangedInv' /\ Becomes(app)
    BY <2>1, StayingArranged
  <2>3. Contract!Refuse
    BY <2>1, <2>2 DEF Becomes, Contract!Refuse
  <2> QED
    BY <2>2, <2>3 DEF Contract!Next
<1>2. CASE IsStored(app, key)
  <2>1. Become(r) /\ event' = [what |-> "delete", path |-> key]
    BY <1>2, Zenon DEF DeleteMock, Tell
  <2>2. key \in Keys /\ key \in DOMAIN Held(app)
    BY <1>2, StoredNormal, HeldAt
  <2>3. Consistent(app) /\ Arranged(app, MocksOf(app))
    BY DEF ArrangedInv, IInv
  <2> HIDE DEF identity
  <2>4. Taken(app, r, {key})
    BY <2>2, <2>3, TakingDown
  <2> HIDE DEF r, key
  <2>5. ArrangedInv' /\ Becomes(r)
    BY <2>1, <2>4, BecomingArranged DEF Taken
  <2>6. RouteOrder(app) \in Seq(Keys)
    BY <2>3, MocksTyped, OrderOf DEF Consistent
  <2>7. Contract!Forget({key})
    BY <2>4, <2>5, <2>6, LeavingOut, SameOperators DEF Taken, Becomes, Contract!Forget
  <2>8. Contract!Delete
    BY <2>1, <2>2, <2>7 DEF Contract!Delete
  <2> QED
    BY <2>5, <2>8 DEF Contract!Next
<1> QED
  BY <1>1, <1>2

\* Selecting nothing.
LEMMA PickedNothing ==
    ASSUME NEW s
    PROVE Picked(s, {}) = << >>
<1>1. Cardinality({}) = 0
  BY FS_EmptySet
<1>2. 1..0 = {}
  OBVIOUS
<1> QED
  BY <1>1, <1>2 DEF Picked

LEMMA DeleteAllArranged ==
    ASSUME ArrangedInv, DeleteMocks
    PROVE ArrangedInv' /\ Contract!Next
<1> DEFINE t == CleanupStorage(app)
<1>1. Become(t) /\ event'.what = "delete all"
  BY DEF DeleteMocks, Tell
<1>2. Consistent(app)
  BY DEF ArrangedInv, IInv
<1>3. /\ Consistent(t) /\ Arranged(t, MocksOf(t)) /\ RouteOrder(t) = << >>
      /\ \A f : Without(f, DOMAIN f) = Held(t)
  BY <1>2, Cleaning, CleaningArranged
<1> HIDE DEF t
<1>4. ArrangedInv' /\ Becomes(t)
  BY <1>1, <1>3, BecomingArranged
<1>5. Range(RouteOrder(app)) = DOMAIN Held(app)
  BY <1>2, MocksTyped, OrderOf, HeldIs DEF Consistent
<1>6. {i \in DOMAIN RouteOrder(app) : RouteOrder(app)[i] \notin DOMAIN Held(app)} = {}
  BY <1>5 DEF Range
<1>7. Contract!Forget(DOMAIN Held(app))
  BY <1>3, <1>4, <1>6, PickedNothing, SameOperators DEF Becomes, Contract!Forget
<1>8. Contract!DeleteAll
  BY <1>1, <1>7 DEF Contract!DeleteAll
<1> QED
  BY <1>4, <1>8 DEF Contract!Next

\* The first n mocks of a document loaded, as the contract has it.
LEMMA Loading ==
    ASSUME NEW mode, mode \in {"merge", "replace"}, NEW s, NEW document, NEW n, n \in Nat,
           NEW d, d = [i \in 1..n |-> document[i]],
           Held(s) = IF mode = "merge" THEN Held(app) ELSE Without(Held(app), DOMAIN Held(app)),
           RouteOrder(s) = IF mode = "merge" THEN RouteOrder(app) ELSE << >>,
           Loaded(Held(s), document, n, Held(app')),
           RouteOrder(app') = Latest(RouteOrder(s) \o KeysOf(document, n))
    PROVE Contract!Load(d, mode)
<1> DEFINE paths == [i \in DOMAIN d |-> Contract!Key(d[i].path)]
           named == Contract!Range(paths)
           item(p) == d[Contract!Max({i \in DOMAIN d : paths[i] = p})]
           kept == IF mode = "merge" THEN Held(app) ELSE Contract!Without(Held(app), DOMAIN Held(app))
           f == Held(app')
           new == [p \in DOMAIN kept \union named |->
                      IF p \in named THEN [mock |-> item(p).mock, progress |-> item(p).recordings] ELSE kept[p]]
<1>1. DOMAIN d = 1..n /\ \A i \in 1..n : d[i] = document[i]
  OBVIOUS
<1>2. paths = KeysOf(document, n)
  BY <1>1, SameOperators DEF KeysOf
<1>3. kept = Held(s)
  BY SameOperators
<1>4. named = {Key(document[i].path) : i \in 1..n}
  <2>1. named = Range(KeysOf(document, n))
    BY <1>2, SameOperators
  <2> QED
    BY <2>1 DEF Range, KeysOf
<1>5. \A p : {i \in DOMAIN d : paths[i] = p} = Places(document, n, p)
  BY <1>1, <1>2 DEF Places, KeysOf
<1>6. \A p : p \in named <=> Places(document, n, p) # {}
  BY <1>4 DEF Places
<1>7. \A p \in named : item(p) = document[Max(Places(document, n, p))]
  <2> SUFFICES ASSUME NEW p \in named PROVE item(p) = document[Max(Places(document, n, p))]
    OBVIOUS
  <2> DEFINE T == Places(document, n, p)
  <2>1. T \in SUBSET (0..n) /\ T \subseteq 1..n /\ T # {}
    BY <1>6 DEF Places
  <2>2. item(p) = d[Max(T)]
    BY <1>5, SameOperators
  <2> HIDE DEF T
  <2>3. Max(T) \in 1..n
    BY <2>1, Greatest
  <2>4. item(p) = document[Max(T)]
    <3> HIDE DEF item
    <3>1. d[Max(T)] = document[Max(T)]
      BY <1>1, <2>3
    <3> QED
      BY <2>2, <3>1
  <2> HIDE DEF item
  <2> QED
    BY <2>4 DEF T
<1> HIDE DEF paths, named, item, kept
<1>8. /\ DOMAIN f = DOMAIN kept \union named
      /\ f = [p \in DOMAIN f |-> f[p]]
      /\ \A p \in DOMAIN f :
             f[p] = IF Places(document, n, p) # {}
                    THEN LET i == document[Max(Places(document, n, p))]
                         IN  [mock |-> i.mock, progress |-> i.recordings]
                    ELSE kept[p]
  BY <1>3, <1>4 DEF Loaded
<1> HIDE DEF f
<1>9. \A p \in DOMAIN kept \union named :
          f[p] = IF p \in named THEN [mock |-> item(p).mock, progress |-> item(p).recordings] ELSE kept[p]
  BY <1>6, <1>7, <1>8
<1>10. f = new
  BY <1>8, <1>9
<1>11. RouteOrder(app') = Contract!Latest((IF mode = "merge" THEN RouteOrder(app) ELSE << >>) \o paths)
  BY <1>2, SameLatest
<1> QED
  BY <1>10, <1>11 DEF Contract!Load, f, new, paths, named, item, kept

\* Where an import starts.
LEMMA Starting ==
    ASSUME ArrangedInv, NEW mode, mode \in {"merge", "replace"}
    PROVE LET s == ImportStart(mode) IN
          /\ Consistent(s) /\ Arranged(s, MocksOf(s))
          /\ Held(s) = IF mode = "merge" THEN Held(app) ELSE Without(Held(app), DOMAIN Held(app))
          /\ RouteOrder(s) = IF mode = "merge" THEN RouteOrder(app) ELSE << >>
          /\ mode = "replace" => s.storage = << >> /\ Held(s) = [p \in {} |-> 0]
<1>1. Consistent(app) /\ Arranged(app, MocksOf(app))
  BY DEF ArrangedInv, IInv
<1>2. CASE mode = "merge"
  BY <1>1, <1>2 DEF ImportStart
<1>3. CASE mode = "replace"
  <2>1. ImportStart(mode) = CleanupStorage(app)
    BY <1>3 DEF ImportStart
  <2> DEFINE t == CleanupStorage(app)
  <2>2. /\ Consistent(t) /\ t.storage = << >> /\ Arranged(t, MocksOf(t)) /\ RouteOrder(t) = << >>
        /\ Held(t) = [p \in {} |-> 0] /\ \A f : Without(f, DOMAIN f) = Held(t)
    BY <1>1, Cleaning, CleaningArranged
  <2> HIDE DEF t
  <2> QED
    BY <1>3, <2>1, <2>2 DEF t
<1> QED
  BY <1>2, <1>3

\* What an import that was validated comes to.
Comes(document, mode, n, t) ==
    /\ n = Imported(document) /\ n \in 0..Len(document) /\ t = After(ImportStart(mode), document)[n]
    /\ Reached(ImportStart(mode), document, n, t)
    /\ Becomes(t)

LEMMA ImportComes ==
    ASSUME ArrangedInv, NEW document \in Documents, NEW mode, mode \in {"merge", "replace"},
           Importable(document), Become(Initialized(ImportStart(mode), document))
    PROVE ArrangedInv' /\ \E n, t : Comes(document, mode, n, t)
<1> DEFINE s == ImportStart(mode)
           n == Imported(document)
           t == After(s, document)[n]
<1>1. Consistent(s) /\ Arranged(s, MocksOf(s))
  BY Starting
<1>2. n \in 0..Len(document)
  BY DocumentItems, ImportedBounds
<1>3. Initialized(s, document) = t
  BY InitializedAfter
<1> HIDE DEF s, n
<1>4. Reached(s, document, n, t)
  BY <1>1, <1>2, ImportReaches DEF Importable
<1>5. Become(t)
  BY <1>3 DEF s
<1> HIDE DEF t
<1>6. ArrangedInv' /\ Becomes(t)
  BY <1>4, <1>5, BecomingArranged DEF Reached
<1>7. Comes(document, mode, n, t)
  BY <1>2, <1>4, <1>6 DEF Comes, s, n, t
<1> QED
  BY <1>6, <1>7

LEMMA ImportLoads ==
    ASSUME ArrangedInv, NEW document, document \in Documents, NEW mode, mode \in {"merge", "replace"},
           NEW n, NEW t, Comes(document, mode, n, t), NEW d, d = [i \in 1..n |-> document[i]]
    PROVE Contract!Load(d, mode)
<1> DEFINE s == ImportStart(mode)
<1>1. /\ Held(s) = IF mode = "merge" THEN Held(app) ELSE Without(Held(app), DOMAIN Held(app))
      /\ RouteOrder(s) = IF mode = "merge" THEN RouteOrder(app) ELSE << >>
  BY Starting
<1> HIDE DEF s
<1>2. Loaded(Held(s), document, n, Held(app')) /\ RouteOrder(app') = Latest(RouteOrder(s) \o KeysOf(document, n))
  BY DEF Comes, Reached, Becomes, s
<1>3. n \in Nat
  BY DocumentItems DEF Comes
<1> QED
  BY <1>1, <1>2, <1>3, Loading

LEMMA ImportArranged ==
    ASSUME ArrangedInv, NEW document \in Documents, NEW mode \in {"merge", "replace"}, ImportSnapshot(document, mode)
    PROVE ArrangedInv' /\ Contract!Next
<1>1. CASE ~Importable(document)
  <2>1. event'.what = "rejected import" /\ app' = app
    <3>1. event' = [what |-> "rejected import"] /\ app' = app
      BY <1>1 DEF ImportSnapshot, Tell
    <3> QED
      BY <3>1
  <2>2. ArrangedInv' /\ Becomes(app)
    BY <2>1, StayingArranged
  <2>3. Contract!Refuse
    BY <2>1, <2>2 DEF Becomes, Contract!Refuse
  <2> QED
    BY <2>2, <2>3 DEF Contract!Next
<1>2. CASE Importable(document)
  <2>1. /\ Become(Initialized(ImportStart(mode), document))
        /\ event' = [what |-> IF Failing(document) = {} THEN "import" ELSE "failed import",
                     mode |-> mode, document |-> document]
    BY <1>2 DEF ImportSnapshot, Tell
  <2>2. ArrangedInv' /\ \E n, t : Comes(document, mode, n, t)
    BY <1>2, <2>1, ImportComes
  <2>3. PICK n, t : Comes(document, mode, n, t)
    BY <2>2
  <2>4. document \in Seq(Items)
    BY DocumentItems
  <2>5. CASE Failing(document) = {}
    <3>1. n = Len(document) /\ document = [i \in 1..n |-> document[i]]
      BY <2>3, <2>4, <2>5 DEF Comes, Imported
    <3>2. Contract!Load(document, mode)
      BY <2>3, <3>1, ImportLoads
    <3>3. event'.what = "import" /\ event'.document = document /\ event'.mode = mode
      BY <2>1, <2>5
    <3>4. Contract!Import
      BY <3>2, <3>3 DEF Contract!Import
    <3> QED
      BY <2>2, <3>4 DEF Contract!Next
  <2>6. CASE Failing(document) # {}
    <3> DEFINE i == Min(Failing(document))
               d == SubSeq(document, 1, i - 1)
    <3>1. Failing(document) \in SUBSET Nat /\ Failing(document) \subseteq DOMAIN document
      BY <2>4 DEF Failing
    <3>2. i \in DOMAIN document
      BY <2>6, <3>1, Smallest
    <3>3. n = i - 1
      BY <2>3, <2>6 DEF Comes, Imported
    <3> HIDE DEF i
    <3>4. d = [k \in 1..n |-> document[k]]
      BY <2>4, <3>2, <3>3
    <3> HIDE DEF d
    <3>5. Contract!Load(d, mode)
      BY <2>3, <3>4, ImportLoads
    <3>6. event'.what = "failed import" /\ event'.document = document /\ event'.mode = mode
      BY <2>1, <2>6
    <3>7. Contract!FailedImport
      BY <3>2, <3>5, <3>6 DEF Contract!FailedImport, d
    <3> QED
      BY <2>2, <3>7 DEF Contract!Next
  <2> QED
    BY <2>5, <2>6
<1> QED
  BY <1>1, <1>2

\* What an export tells of the mock stored in each place.
ExportedAt(s, i) ==
    LET entry == s.storage[i]
    IN  [path |-> entry.path, mock |-> entry.mock,
         recordings |-> IF entry.mock.kind = "recording" THEN Progress(s, entry.path) ELSE 0]

LEMMA Exporting ==
    ASSUME NEW s, Consistent(s), Arranged(s, MocksOf(s))
    PROVE /\ DOMAIN Exported(s) = DOMAIN s.storage /\ Exported(s) = [i \in DOMAIN s.storage |-> ExportedAt(s, i)]
          /\ \A i \in DOMAIN s.storage : /\ s.storage[i].mock = MocksOf(s)[s.storage[i].path]
                                         /\ s.storage[i].path \in StoredPaths(s)
                                         /\ s.storage[i].mock.kind = "recording" => s.storage[i].path \in DOMAIN s.recordings
<1>1. \A i \in DOMAIN s.storage : /\ s.storage[i].mock = MocksOf(s)[s.storage[i].path]
                                  /\ s.storage[i].path \in StoredPaths(s)
  BY MocksTyped DEF Consistent, StoredPaths
<1>2. ASSUME NEW i \in DOMAIN s.storage, s.storage[i].mock.kind = "recording"
      PROVE /\ s.storage[i].path \in DOMAIN s.recordings
            /\ s.objects[s.recordings[s.storage[i].path]] = Progress(s, s.storage[i].path)
  <2> DEFINE p == s.storage[i].path
  <2>1. p \in DOMAIN MocksOf(s) /\ MocksOf(s)[p].kind = "recording"
    BY <1>1, <1>2, HeldIs
  <2>2. p \in DOMAIN s.recordings
    BY <2>1 DEF Consistent, Agreed
  <2>3. Registered(s, p) = s.recordings[p]
    BY <2>2 DEF Registered
  <2>4. Registered(s, p) # NoObject
    BY <2>1 DEF Arranged, Owned
  <2> HIDE DEF p
  <2>5. Progress(s, p) = s.objects[s.recordings[p]]
    BY <2>3, <2>4 DEF Progress
  <2> QED
    BY <2>2, <2>5 DEF p
<1>3. \A i \in DOMAIN s.storage : Exported(s)[i] = ExportedAt(s, i)
  BY <1>2 DEF Exported, ExportedAt
<1>4. DOMAIN Exported(s) = DOMAIN s.storage /\ Exported(s) = [i \in DOMAIN s.storage |-> Exported(s)[i]]
  BY DEF Exported
<1> QED
  BY <1>1, <1>2, <1>3, <1>4

\* As many mocks are stored as paths.
LEMMA StoredCount ==
    ASSUME NEW s, Consistent(s)
    PROVE Cardinality(StoredPaths(s)) = Len(s.storage)
<1> DEFINE N == Len(s.storage)
           q == [i \in 1..N |-> s.storage[i].path]
<1>1. s.storage \in Seq(Entries) /\ N \in Nat /\ DOMAIN s.storage = 1..N /\ Once(s)
  BY StateFields DEF Consistent
<1>2. q \in Bijection(1..N, StoredPaths(s))
  <2>1. \A i, j \in 1..N : q[i] = q[j] => i = j
    BY <1>1 DEF Once
  <2>2. \A p \in StoredPaths(s) : \E i \in 1..N : q[i] = p
    BY <1>1 DEF StoredPaths
  <2>3. q \in [1..N -> StoredPaths(s)]
    BY <1>1 DEF StoredPaths
  <2> HIDE DEF q
  <2> QED
    BY <2>1, <2>2, <2>3 DEF Bijection, Injection, Surjection, IsInjective
<1>3. IsFiniteSet(1..N) /\ Cardinality(1..N) = N
  BY <1>1, FS_Interval
<1>4. ExistsBijection(1..N, StoredPaths(s))
  BY <1>2 DEF ExistsBijection
<1> QED
  BY <1>3, <1>4, FS_Bijection

LEMMA ExportArranged ==
    ASSUME ArrangedInv, ExportSnapshot
    PROVE ArrangedInv' /\ Contract!Next
<1> DEFINE document == Exported(app)
<1>1. Consistent(app) /\ Arranged(app, MocksOf(app))
  BY DEF ArrangedInv, IInv
<1>2. ArrangedInv' /\ Becomes(app)
  BY StayingArranged DEF ExportSnapshot
<1>3. app.storage \in Seq(Entries) /\ Len(app.storage) \in Nat
  BY <1>1, StateFields DEF Consistent
<1>4. /\ DOMAIN document = DOMAIN app.storage /\ document = [i \in DOMAIN app.storage |-> ExportedAt(app, i)]
      /\ \A i \in DOMAIN app.storage :
             /\ app.storage[i].mock = MocksOf(app)[app.storage[i].path]
             /\ app.storage[i].path \in StoredPaths(app)
             /\ app.storage[i].mock.kind = "recording" => app.storage[i].path \in DOMAIN app.recordings
  BY <1>1, Exporting
<1>5. event' = [what |-> "export", document |-> document]
  <2>1. \A entry \in ToSet(app.storage) : entry.mock.kind = "recording" => entry.path \in DOMAIN app.recordings
    BY <1>4 DEF ToSet
  <2> QED
    BY <2>1 DEF ExportSnapshot, Tell
<1> HIDE DEF document
<1>6. event'.what = "export" /\ event'.document = document
  BY <1>5
<1>7. Len(document) = Contract!Cardinality(DOMAIN Held(app))
  <2>1. \A S : Contract!Cardinality(S) = Cardinality(S)
    BY DEF Cardinality, Contract!Cardinality
  <2>2. DOMAIN Held(app) = StoredPaths(app)
    BY HeldIs
  <2>3. Len(document) = Len(app.storage)
    BY <1>3, <1>4
  <2> QED
    BY <1>1, <2>1, <2>2, <2>3, StoredCount
<1>8. {document[i].path : i \in DOMAIN document} = DOMAIN Held(app)
  <2>1. \A i \in DOMAIN document : document[i].path = app.storage[i].path
    BY <1>4 DEF ExportedAt
  <2>2. DOMAIN Held(app) = StoredPaths(app)
    BY HeldIs
  <2>3. DOMAIN document = DOMAIN app.storage
    BY <1>4
  <2>4. \A p : p \in {document[i].path : i \in DOMAIN document} <=> p \in StoredPaths(app)
    BY <2>1, <2>3 DEF StoredPaths
  <2> QED
    BY <2>2, <2>4
<1>9. ASSUME NEW i \in DOMAIN document
      PROVE LET entry == Held(app)[document[i].path] IN
            /\ document[i].mock = entry.mock
            /\ document[i].recordings = IF entry.mock.kind = "recording" THEN entry.progress ELSE 0
  <2> DEFINE p == app.storage[i].path
  <2>1. i \in DOMAIN app.storage /\ document[i] = ExportedAt(app, i)
    BY <1>4
  <2>2. p \in StoredPaths(app) /\ app.storage[i].mock = MocksOf(app)[p]
    BY <1>4, <2>1
  <2>3. Held(app)[p] = [mock |-> MocksOf(app)[p], progress |-> Progress(app, p)]
    BY <2>2, HeldIs
  <2>4. document[i].path = p /\ document[i].mock = app.storage[i].mock
        /\ document[i].recordings = IF app.storage[i].mock.kind = "recording" THEN Progress(app, p) ELSE 0
    BY <2>1 DEF ExportedAt
  <2> HIDE DEF p
  <2> QED
    BY <2>2, <2>3, <2>4
<1>10. Contract!Export
  BY <1>2, <1>6, <1>7, <1>8, <1>9 DEF Contract!Export, Becomes
<1> QED
  BY <1>2, <1>10 DEF Contract!Next

LEMMA SmallestIs ==
    ASSUME NEW T, T \in SUBSET Nat, NEW x, x \in T, \A y \in T : x <= y
    PROVE Min(T) = x
<1>1. Min(T) \in T /\ \A y \in T : Min(T) <= y
  BY Smallest
<1>2. Min(T) <= x /\ x <= Min(T) /\ x \in Nat /\ Min(T) \in Nat
  BY <1>1
<1> QED
  BY <1>2

\* A route belongs to the path it is a spelling of.
Belongs(s, i, p) ==
    /\ p \in DOMAIN MocksOf(s)
    /\ s.routes[i].path \in RouteCandidates(p)
    /\ s.routes[i].mock = MocksOf(s)[p] /\ s.routes[i].object = Registered(s, p)

LEMMA Belonging ==
    ASSUME NEW s, Consistent(s), NEW i, i \in DOMAIN s.routes
    PROVE Belongs(s, i, Normalize(s.routes[i].path))
<1> DEFINE m == MocksOf(s)
<1>1. s \in States /\ Once(s) /\ Agreed(s, m)
  BY DEF Consistent
<1>2. PICK p \in DOMAIN m : s.routes[i].path \in RouteCandidates(p)
  BY <1>1 DEF Agreed
<1>3. DOMAIN m \in SUBSET Keys
  BY <1>1, MocksTyped
<1>4. Normalize(s.routes[i].path) = p
  BY <1>2, <1>3, KeysNormal, CandidatesOf
<1>5. /\ s.routes[i].mock = m[Normalize(s.routes[i].path)]
      /\ s.routes[i].object = Registered(s, Normalize(s.routes[i].path))
  BY <1>1 DEF Agreed
<1> QED
  BY <1>2, <1>4, <1>5 DEF Belongs

\* The state after one object has moved on: only the path that owns it has.
Moved(s, p) ==
    [s EXCEPT ![p].progress = IF @ < MaxProgress THEN @ + 1 ELSE @]

LEMMA Moving ==
    ASSUME NEW s, Consistent(s), Arranged(s, MocksOf(s)), NEW p, p \in DOMAIN MocksOf(s),
           NEW o, o = Registered(s, p), o # NoObject,
           NEW t, t = [s EXCEPT !.objects[o] = Advanced(@)]
    PROVE /\ Arranged(t, MocksOf(t)) /\ RouteOrder(t) = RouteOrder(s)
          /\ Held(t) = Moved(Held(s), p)
<1> DEFINE m == MocksOf(s)
           f == Moved(Held(s), p)
<1>1. s \in States /\ Agreed(s, m) /\ Exist(s) /\ Owned(s, m) /\ Ordered(s)
  BY DEF Consistent, Arranged
<1>2. /\ t.storage = s.storage /\ t.routes = s.routes /\ t.sequences = s.sequences /\ t.recordings = s.recordings
      /\ t.objects = [s.objects EXCEPT ![o] = Advanced(@)]
  BY <1>1 DEF States
<1>3. o \in DOMAIN s.objects
  BY <1>1, RegisteredLive DEF Exist
<1>4. \A q : Registered(t, q) = Registered(s, q)
  BY <1>2 DEF Registered
<1>5. MocksOf(t) = m /\ StoredPaths(t) = StoredPaths(s)
  BY <1>2, SameStorage
<1>6. RouteOrder(t) = RouteOrder(s) /\ Ordered(t)
  BY <1>1, <1>2, SameOrder
<1>7. Owned(t, m)
  BY <1>1, <1>4 DEF Owned
<1>8. /\ DOMAIN Held(s) = StoredPaths(s) /\ DOMAIN m = StoredPaths(s)
      /\ \A q \in StoredPaths(s) : Held(s)[q] = [mock |-> m[q], progress |-> Progress(s, q)]
      /\ Held(s) = [q \in StoredPaths(s) |-> Held(s)[q]]
  BY HeldIs
<1> HIDE DEF m
<1>9. DOMAIN f = StoredPaths(t) /\ f = [q \in DOMAIN f |-> f[q]]
  BY <1>5, <1>8 DEF Moved
<1>10. ASSUME NEW q \in StoredPaths(t) PROVE f[q] = [mock |-> MocksOf(t)[q], progress |-> Progress(t, q)]
  <2>1. Held(s)[q] = [mock |-> m[q], progress |-> Progress(s, q)] /\ q \in DOMAIN Held(s)
    BY <1>5, <1>8
  <2>2. CASE q = p
    <3>1. Progress(s, p) = s.objects[o] /\ Progress(t, p) = t.objects[o]
      BY <1>4 DEF Progress
    <3>2. Progress(t, p) = Advanced(Progress(s, p))
      BY <1>2, <1>3, <3>1
    <3>3. f[q] = [Held(s)[q] EXCEPT !.progress = IF @ < MaxProgress THEN @ + 1 ELSE @]
      BY <2>1, <2>2 DEF Moved
    <3> QED
      BY <1>5, <2>1, <2>2, <3>2, <3>3 DEF Advanced
  <2>3. CASE q # p
    <3>1. Registered(s, q) = NoObject \/ Registered(s, q) # o
      BY <1>1, <1>5, <1>8, <2>3 DEF Owned, m
    <3>2. Progress(t, q) = Progress(s, q)
      BY <1>2, <1>3, <1>4, <3>1 DEF Progress
    <3>3. f[q] = Held(s)[q]
      BY <2>1, <2>3 DEF Moved
    <3> QED
      BY <1>5, <2>1, <3>2, <3>3
  <2> QED
    BY <2>2, <2>3
<1> HIDE DEF f
<1>11. Held(t) = f
  BY <1>9, <1>10, HeldEqual
<1> QED
  BY <1>5, <1>6, <1>7, <1>11 DEF Arranged, f

-------------------------------------------------------------------------------
(* The router: what routes match, their paths take *)

\* The place of a path in the order.
At(s, k, p) == k \in DOMAIN RouteOrder(s) /\ RouteOrder(s)[k] = p

LEMMA Placed ==
    ASSUME NEW s, Consistent(s)
    PROVE /\ RouteOrder(s) \in Seq(Keys)
          /\ \A p \in DOMAIN MocksOf(s) : \E k : At(s, k, p)
          /\ \A k \in DOMAIN RouteOrder(s) : RouteOrder(s)[k] \in DOMAIN MocksOf(s) /\ RouteOrder(s)[k] \in Keys
<1>1. RouteOrder(s) \in Seq(Keys) /\ Range(RouteOrder(s)) = DOMAIN MocksOf(s)
  BY MocksTyped, OrderOf DEF Consistent
<1> QED
  BY <1>1 DEF Range, At

LEMMA TakesIs ==
    ASSUME NEW p, p \in Keys, NEW url
    PROVE Contract!Takes(p, url) <=> \E spelling \in RouteCandidates(p) : Matches(spelling, url)
<1>1. RouteCandidates(p) = {p} \union (IF p = Plain(Root) THEN {} ELSE {Slashed(p)})
  BY KeysNormal, CandidatesOf
<1> QED
  BY <1>1, SameOperators DEF Contract!Takes

\* A route that matches is one of a path that takes the request.
LEMMA CandidateTakes ==
    ASSUME ArrangedInv, NEW url, NEW method, NEW i, i \in Candidates(url)
    PROVE \E k : /\ k \in Contract!Takers(url) /\ At(app, k, Normalize(app.routes[i].path))
                 /\ i \in Full(url, method) <=> k \in Contract!Accepting(url, method)
<1> DEFINE p == Normalize(app.routes[i].path)
<1>1. i \in DOMAIN app.routes /\ Matches(app.routes[i].path, url)
  BY DEF Candidates
<1>2. Consistent(app)
  BY DEF ArrangedInv, IInv
<1>3. Belongs(app, i, p)
  BY <1>1, <1>2, Belonging
<1> HIDE DEF p
<1>4. PICK k : At(app, k, p)
  BY <1>2, <1>3, Placed DEF Belongs
<1>5. p \in Keys
  BY <1>2, <1>4, Placed DEF At
<1>6. Contract!Takes(p, url)
  BY <1>1, <1>3, <1>5, TakesIs DEF Belongs
<1>7. k \in Contract!Takers(url)
  BY <1>4, <1>6 DEF At, Contract!Takers
<1>8. Held(app)[p].mock = app.routes[i].mock
  <2>1. p \in StoredPaths(app) /\ app.routes[i].mock = MocksOf(app)[p]
    BY <1>3, HeldIs DEF Belongs
  <2>2. Held(app)[p] = [mock |-> MocksOf(app)[p], progress |-> Progress(app, p)]
    BY <2>1, HeldIs
  <2> QED
    BY <2>1, <2>2
<1>9. i \in Full(url, method) <=> k \in Contract!Accepting(url, method)
  BY <1>4, <1>7, <1>8 DEF At, Full, Contract!Accepting
<1> QED
  BY <1>4, <1>7, <1>9 DEF p

\* A path that takes the request has a route that matches.
LEMMA TakerMatches ==
    ASSUME ArrangedInv, NEW url, NEW method, NEW k, k \in Contract!Takers(url)
    PROVE \E i : /\ i \in Candidates(url) /\ At(app, k, Normalize(app.routes[i].path))
                 /\ i \in Full(url, method) <=> k \in Contract!Accepting(url, method)
<1> DEFINE p == RouteOrder(app)[k]
<1>1. k \in DOMAIN RouteOrder(app) /\ Contract!Takes(p, url)
  BY DEF Contract!Takers
<1>2. Consistent(app)
  BY DEF ArrangedInv, IInv
<1>3. p \in DOMAIN MocksOf(app) /\ p \in Keys
  BY <1>1, <1>2, Placed
<1>4. At(app, k, p)
  BY <1>1 DEF At
<1> HIDE DEF p
<1>5. PICK spelling \in RouteCandidates(p) : Matches(spelling, url)
  BY <1>1, <1>3, TakesIs
<1>6. PICK i \in DOMAIN app.routes : app.routes[i].path = spelling
  BY <1>2, <1>3 DEF Consistent, Agreed
<1>7. Normalize(spelling) = p
  BY <1>3, KeysNormal, CandidatesOf
<1>8. i \in Candidates(url)
  BY <1>5, <1>6 DEF Candidates
<1>9. Belongs(app, i, p)
  BY <1>2, <1>6, <1>7, Belonging
<1>10. Held(app)[p].mock = app.routes[i].mock
  <2>1. p \in StoredPaths(app) /\ app.routes[i].mock = MocksOf(app)[p]
    BY <1>9, HeldIs DEF Belongs
  <2>2. Held(app)[p] = [mock |-> MocksOf(app)[p], progress |-> Progress(app, p)]
    BY <2>1, HeldIs
  <2> QED
    BY <2>1, <2>2
<1>11. i \in Full(url, method) <=> k \in Contract!Accepting(url, method)
  BY <1>4, <1>8, <1>10 DEF At, Full, Contract!Accepting
<1> QED
  BY <1>4, <1>6, <1>7, <1>8, <1>11

\* The first route that takes the request is one of the first path that does.
LEMMA FirstAnswers ==
    ASSUME ArrangedInv, NEW url, NEW method, Full(url, method) # {}
    PROVE LET i == Min(Full(url, method))
              p == Normalize(app.routes[i].path)
          IN  /\ i \in DOMAIN app.routes
              /\ Contract!Accepting(url, method) # {}
              /\ p = RouteOrder(app)[Contract!Min(Contract!Accepting(url, method))]
<1> DEFINE F == Full(url, method)
           A == Contract!Accepting(url, method)
           i == Min(F)
           p == Normalize(app.routes[i].path)
<1>1. Consistent(app) /\ Ordered(app)
  BY DEF ArrangedInv, IInv, Arranged
<1>2. app.routes \in Seq(Routes) /\ RouteOrder(app) \in Seq(Keys)
  BY <1>1, StateFields, Placed DEF Consistent
<1>3. F \in SUBSET DOMAIN app.routes /\ F \in SUBSET Nat /\ F \subseteq Candidates(url)
  BY <1>2 DEF Full, Candidates
<1>4. A \in SUBSET DOMAIN RouteOrder(app) /\ A \in SUBSET Nat /\ A \subseteq Contract!Takers(url)
  BY <1>2 DEF Contract!Accepting, Contract!Takers
<1>5. i \in F /\ \A j \in F : i <= j
  <2> HIDE DEF F
  <2> QED
    BY <1>3, Smallest DEF F
<1> HIDE DEF i
<1>6. i \in Candidates(url) /\ i \in DOMAIN app.routes
  BY <1>3, <1>5
<1>7. PICK k : k \in A /\ At(app, k, p)
  BY <1>5, <1>6, CandidateTakes
<1>8. ASSUME NEW l \in A PROVE k <= l
  <2>1. l \in Contract!Takers(url)
    BY <1>4
  <2>2. PICK j : j \in F /\ At(app, l, Normalize(app.routes[j].path))
    BY <2>1, TakerMatches
  <2>3. i <= j /\ j \in DOMAIN app.routes /\ i \in Nat /\ j \in Nat /\ k \in Nat /\ l \in Nat
    BY <1>3, <1>4, <1>5, <1>7, <2>2
  <2>4. CASE i = j
    <3>1. k = l
      BY <1>1, <1>7, <2>2, <2>4 DEF At, Ordered, Injective
    <3> QED
      BY <2>3, <3>1
  <2>5. CASE i < j
    BY <1>1, <1>6, <1>7, <2>2, <2>3, <2>5 DEF At, Ordered, Follows
  <2> QED
    BY <2>3, <2>4, <2>5
<1> HIDE DEF A
<1>9. Min(A) = k
  BY <1>4, <1>7, <1>8, SmallestIs
<1>10. Contract!Min(A) = k
  BY <1>9, SameOperators
<1> QED
  BY <1>6, <1>7, <1>10 DEF A, At, i, F

LEMMA AnswerArranged ==
    ASSUME ArrangedInv, NEW url, NEW method, ~Reserved(url), Full(url, method) # {},
           Answer(url, method, app.routes[Min(Full(url, method))])
    PROVE Arranged(app', MocksOf(app')) /\ Contract!Next
<1> DEFINE i == Min(Full(url, method))
           A == Contract!Accepting(url, method)
           p == Normalize(app.routes[i].path)
           route == app.routes[i]
           progress == IF route.object = NoObject THEN 0 ELSE app.objects[route.object]
<1>1. i \in DOMAIN app.routes /\ A # {} /\ p = RouteOrder(app)[Contract!Min(A)]
  BY FirstAnswers
<1>2. Consistent(app) /\ Arranged(app, MocksOf(app))
  BY DEF ArrangedInv, IInv
<1>3. Belongs(app, i, p)
  BY <1>1, <1>2, Belonging
<1>4. event' = [what |-> "answer", url |-> url, method |-> method, mock |-> route.mock, progress |-> progress]
  BY DEF Answer, Tell
<1>5. app' = IF route.object = NoObject THEN app ELSE [app EXCEPT !.objects[route.object] = Advanced(@)]
  BY DEF Answer
<1> HIDE DEF i, p, A
<1>6. route.mock = MocksOf(app)[p] /\ route.object = Registered(app, p) /\ p \in DOMAIN MocksOf(app)
  BY <1>3 DEF Belongs
<1>7. progress = Progress(app, p)
  BY <1>6 DEF Progress
<1>8. route.object = NoObject <=> route.mock.kind = "static"
  BY <1>2, <1>6 DEF Arranged, Owned
<1> HIDE DEF route, progress
<1>9. Held(app)[p] = [mock |-> route.mock, progress |-> progress]
  BY <1>6, <1>7, HeldIs
<1>10. /\ Arranged(app', MocksOf(app')) /\ RouteOrder(app') = RouteOrder(app)
       /\ Held(app') = IF route.mock.kind = "static" THEN Held(app) ELSE Moved(Held(app), p)
  <2>1. CASE route.object = NoObject
    BY <1>2, <1>5, <1>8, <2>1
  <2>2. CASE route.object # NoObject
    <3> DEFINE o == route.object
               t == [app EXCEPT !.objects[o] = Advanced(@)]
    <3>1. app' = t
      BY <1>5, <2>2
    <3>2. Arranged(t, MocksOf(t)) /\ RouteOrder(t) = RouteOrder(app) /\ Held(t) = Moved(Held(app), p)
      BY <1>2, <1>6, <2>2, Moving
    <3> HIDE DEF t
    <3> QED
      BY <1>8, <2>2, <3>1, <3>2
  <2> QED
    BY <2>1, <2>2
<1>11. event'.what = "answer" /\ event'.url = url /\ event'.method = method
       /\ event'.mock = route.mock /\ event'.progress = progress
  BY <1>4
<1>12. Contract!Answer
  <2>1. event'.mock = Held(app)[p].mock /\ event'.progress = Held(app)[p].progress
    BY <1>9, <1>11
  <2>2. ~Contract!Reserved(event'.url)
    BY <1>11, SameOperators
  <2>3. Contract!Accepting(event'.url, event'.method) = A
    BY <1>11 DEF A
  <2>4. Held(app') = IF event'.mock.kind = "static" THEN Held(app) ELSE Moved(Held(app), p)
    BY <1>10, <1>11
  <2> QED
    BY <1>1, <1>10, <1>11, <2>1, <2>2, <2>3, <2>4 DEF Contract!Answer, Moved
<1> QED
  BY <1>10, <1>12 DEF Contract!Next

\* No route matches exactly when no path takes the request, with its method or without.
LEMMA NoTakers ==
    ASSUME ArrangedInv, NEW url, NEW method
    PROVE /\ Candidates(url) = {} <=> Contract!Takers(url) = {}
          /\ Full(url, method) = {} => Contract!Accepting(url, method) = {}
<1>1. Candidates(url) # {} => Contract!Takers(url) # {}
  BY CandidateTakes
<1>2. Contract!Takers(url) # {} => Candidates(url) # {}
  BY TakerMatches
<1>3. ASSUME Full(url, method) = {}, NEW k \in Contract!Accepting(url, method) PROVE FALSE
  <2>1. k \in Contract!Takers(url)
    BY <1>3 DEF Contract!Accepting
  <2> QED
    BY <1>3, <2>1, TakerMatches
<1> QED
  BY <1>1, <1>2, <1>3

LEMMA RefusalArranged ==
    ASSUME ArrangedInv, NEW url, NEW method, NEW status, Refuse(url, method, status),
           \/ status = "administration" /\ Reserved(url)
           \/ status = "404" /\ ~Reserved(url) /\ Candidates(url) = {}
           \/ status = "405" /\ ~Reserved(url) /\ Candidates(url) # {} /\ Full(url, method) = {}
    PROVE ArrangedInv' /\ Contract!Next
<1>1. event'.what = status /\ event'.url = url /\ event'.method = method /\ app' = app
  BY DEF Refuse, Tell
<1>2. ArrangedInv' /\ Becomes(app)
  BY <1>1, StayingArranged
<1>3. Contract!NoAnswer
  BY <1>1, <1>2, NoTakers, SameOperators DEF Contract!NoAnswer, Becomes
<1> QED
  BY <1>2, <1>3 DEF Contract!Next

LEMMA ServeArranged ==
    ASSUME ArrangedInv, NEW url, NEW method, Serve(url, method)
    PROVE ArrangedInv' /\ Contract!Next
<1>1. CASE Reserved(url)
  <2>1. Refuse(url, method, "administration")
    BY <1>1 DEF Serve, Dispatched
  <2> QED
    BY <1>1, <2>1, RefusalArranged
<1>2. CASE ~Reserved(url) /\ Full(url, method) # {}
  <2>1. Answer(url, method, app.routes[Min(Full(url, method))])
    BY <1>2 DEF Serve, Dispatched
  <2>2. Arranged(app', MocksOf(app')) /\ Contract!Next
    BY <1>2, <2>1, AnswerArranged
  <2>3. IInv'
    BY ServeStep DEF ArrangedInv
  <2> QED
    BY <2>2, <2>3 DEF ArrangedInv
<1>3. CASE ~Reserved(url) /\ Full(url, method) = {} /\ Candidates(url) # {}
  <2>1. Refuse(url, method, "405")
    BY <1>3 DEF Serve, Dispatched
  <2> QED
    BY <1>3, <2>1, RefusalArranged
<1>4. CASE ~Reserved(url) /\ Full(url, method) = {} /\ Candidates(url) = {}
  <2>1. Refuse(url, method, "404")
    BY <1>4 DEF Serve, Dispatched
  <2> QED
    BY <1>4, <2>1, RefusalArranged
<1> QED
  BY <1>1, <1>2, <1>3, <1>4

LEMMA EmptyArranged ==
    Init => ArrangedInv /\ Contract!Init
<1> SUFFICES ASSUME Init PROVE ArrangedInv /\ Contract!Init
  OBVIOUS
<1>1. Consistent(app) /\ IInv
  BY Empty DEF IInv
<1>2. app.storage = << >> /\ app.routes = << >> /\ event = NoEvent
  BY DEF Init, EmptyState
<1>3. MocksOf(app) = [p \in {} |-> NoObject]
  <2>1. StoredPaths(app) = {}
    BY <1>2 DEF StoredPaths
  <2> QED
    BY <2>1 DEF MocksOf
<1>4. Arranged(app, MocksOf(app)) /\ RouteOrder(app) = << >> /\ Held(app) = [p \in {} |-> 0]
  BY <1>1, <1>2, <1>3, NothingArranged
<1> QED
  BY <1>1, <1>2, <1>4 DEF ArrangedInv, Contract!Init, NoEvent

\* Every step keeps the arrangement, and is a step of the contract.
LEMMA StepArranged ==
    ASSUME ArrangedInv, [Next]_vars
    PROVE ArrangedInv' /\ [Contract!Next]_(Contract!vars)
<1>1. ASSUME NEW path \in Paths, DeleteMock(path) PROVE ArrangedInv' /\ Contract!Next
  BY <1>1, DeleteArranged
<1>2. ASSUME NEW path \in Paths, NEW mock \in Mocks, PutMock(path, mock) PROVE ArrangedInv' /\ Contract!Next
  BY <1>2, PutArranged
<1>3. ASSUME NEW path \in Paths, NEW mock \in Mocks, PatchMock(path, mock) PROVE ArrangedInv' /\ Contract!Next
  BY <1>3, PatchArranged
<1>4. CASE DeleteMocks
  BY <1>4, DeleteAllArranged
<1>5. CASE ExportSnapshot
  BY <1>5, ExportArranged
<1>6. ASSUME NEW document \in Documents, NEW mode \in {"merge", "replace"}, ImportSnapshot(document, mode)
      PROVE ArrangedInv' /\ Contract!Next
  BY <1>6, ImportArranged
<1>7. ASSUME NEW url \in Urls, NEW method \in Methods, Serve(url, method) PROVE ArrangedInv' /\ Contract!Next
  BY <1>7, ServeArranged
<1>8. CASE UNCHANGED vars
  <2>1. app' = app /\ event' = event
    BY <1>8 DEF vars
  <2>2. ArrangedInv' /\ Becomes(app)
    BY <2>1, StayingArranged
  <2> QED
    BY <2>1, <2>2 DEF Becomes, Contract!vars
<1> QED
  BY <1>1, <1>2, <1>3, <1>4, <1>5, <1>6, <1>7, <1>8 DEF Next

\* No two mocks ever share a sequence or a recording store, a mock without either has none,
\* and the routes stand in blocks, in the order in which their paths were configured.
THEOREM ArrangedInductive == Spec => []ArrangedInv
<1>1. ArrangedInv /\ [Next]_vars => ArrangedInv'
  BY StepArranged
<1> QED
  BY <1>1, EmptyArranged, PTL DEF Spec

\* Behind its routes, registries and objects the server is the map from paths to mocks
\* that the contract describes, and answers each request as that map does.
THEOREM Refinement == Spec => KeepsContract
<1>1. ArrangedInv /\ [Next]_vars => [Contract!Next]_(Contract!vars)
  BY StepArranged
<1> QED
  BY <1>1, EmptyArranged, ArrangedInductive, PTL DEF Spec, KeepsContract, Contract!Spec

-------------------------------------------------------------------------------
(* Exports and imports *)

LEMMA OtherEvents ==
    ASSUME Next, event'.what = "import"
    PROVE \E document \in Documents, mode \in {"merge", "replace"} : ImportSnapshot(document, mode)
<1>1. ASSUME NEW path \in Paths, DeleteMock(path) PROVE FALSE
  <2>1. event' = [what |-> "delete", path |-> Normalize(Normalize(path))] \/ event' = [what |-> "not found"]
    BY <1>1, Zenon DEF DeleteMock, Tell
  <2>2. ASSUME event' = [what |-> "delete", path |-> Normalize(Normalize(path))] PROVE FALSE
    BY <2>2
  <2>3. ASSUME event' = [what |-> "not found"] PROVE FALSE
    BY <2>3
  <2> QED
    BY <2>1, <2>2, <2>3
<1>2. ASSUME NEW what, what \in {"put", "patch"}, NEW path, NEW mock, NEW progress, Configure(what, path, mock, progress)
      PROVE FALSE
  <2> DEFINE told == Normalize(Normalize(Normalize(Normalize(path))))
  <2>1. \/ event' = [what |-> "refused"] \/ event' = [what |-> "failed"]
        \/ event' = [what |-> what, path |-> told, mock |-> mock]
    BY <1>2, Zenon DEF Configure, Tell
  <2> HIDE DEF told
  <2>2. ASSUME event' = [what |-> what, path |-> told, mock |-> mock] PROVE FALSE
    <3>1. event'.what = what
      BY <2>2
    <3> QED
      BY <1>2, <3>1
  <2>3. ASSUME event' = [what |-> "refused"] PROVE FALSE
    BY <2>3
  <2>4. ASSUME event' = [what |-> "failed"] PROVE FALSE
    BY <2>4
  <2> QED
    BY <2>1, <2>2, <2>3, <2>4
<1>3. ASSUME NEW path \in Paths, NEW mock \in Mocks, PutMock(path, mock) PROVE FALSE
  BY <1>2, <1>3 DEF PutMock
<1>4. ASSUME NEW path \in Paths, NEW mock \in Mocks, PatchMock(path, mock) PROVE FALSE
  <2>1. event' = [what |-> "not found"] \/ \E progress : Configure("patch", path, mock, progress)
    BY <1>4, Zenon DEF PatchMock, Tell
  <2>2. ASSUME event' = [what |-> "not found"] PROVE FALSE
    BY <2>2
  <2> QED
    BY <1>2, <2>1, <2>2
<1>5. CASE DeleteMocks
  BY <1>5 DEF DeleteMocks, Tell
<1>6. CASE ExportSnapshot
  <2>1. event' = [what |-> "export", document |-> Exported(app)] \/ event' = [what |-> "failed export"]
    BY <1>6, Zenon DEF ExportSnapshot, Tell
  <2>2. ASSUME event' = [what |-> "export", document |-> Exported(app)] PROVE FALSE
    BY <2>2
  <2>3. ASSUME event' = [what |-> "failed export"] PROVE FALSE
    BY <2>3
  <2> QED
    BY <2>1, <2>2, <2>3
<1>7. ASSUME NEW url \in Urls, NEW method \in Methods, Serve(url, method) PROVE FALSE
  <2>1. ASSUME NEW status, status \in {"administration", "405", "404"}, Refuse(url, method, status) PROVE FALSE
    BY <2>1 DEF Refuse, Tell
  <2>2. ASSUME NEW route, Answer(url, method, route) PROVE FALSE
    BY <2>2 DEF Answer, Tell
  <2> QED
    BY <1>7, <2>1, <2>2 DEF Serve
<1> QED
  BY <1>1, <1>3, <1>4, <1>5, <1>6, <1>7 DEF Next

LEMMA Restoring ==
    ASSUME ArrangedInv, NEW document \in Documents, ImportSnapshot(document, "replace"), event'.what = "import",
           \A i \in DOMAIN document : Normalize(document[i].path) = document[i].path
    PROVE Exported(app') = document /\ RouteOrder(app') = [i \in DOMAIN document |-> document[i].path]
<1> DEFINE s == ImportStart("replace")
           paths == [i \in DOMAIN document |-> document[i].path]
<1>1. Importable(document) /\ Become(Initialized(s, document)) /\ Failing(document) = {}
  <2>1. CASE ~Importable(document)
    <3>1. event' = [what |-> "rejected import"]
      BY <2>1 DEF ImportSnapshot, Tell
    <3> QED
      BY <3>1
  <2>2. CASE Importable(document)
    <3>1. /\ Become(Initialized(s, document))
          /\ event' = [what |-> IF Failing(document) = {} THEN "import" ELSE "failed import",
                       mode |-> "replace", document |-> document]
      BY <2>2 DEF ImportSnapshot, Tell
    <3> QED
      BY <2>2, <3>1
  <2> QED
    BY <2>1, <2>2
<1>2. ArrangedInv' /\ \E n, t : Comes(document, "replace", n, t)
  BY <1>1, ImportComes
<1>3. PICK n, t : Comes(document, "replace", n, t)
  BY <1>2
<1>4. document \in Seq(Items) /\ Parses(document)
  BY <1>1, DocumentItems DEF Importable
<1>5. n = Len(document) /\ DOMAIN document = 1..n /\ n \in Nat
  BY <1>1, <1>3, <1>4 DEF Comes, Imported
<1>6. Consistent(s) /\ Arranged(s, MocksOf(s)) /\ s.storage = << >> /\ RouteOrder(s) = << >>
  BY Starting
<1> HIDE DEF s
<1>7. /\ t = After(s, document)[n] /\ Loaded(Held(s), document, n, Held(t))
      /\ RouteOrder(t) = Latest(RouteOrder(s) \o KeysOf(document, n)) /\ Becomes(t)
  BY <1>3 DEF Comes, Reached, s
<1>8. app'.storage = [i \in 1..n |-> [path |-> document[i].path, mock |-> document[i].mock]]
  BY <1>4, <1>5, <1>6, <1>7, ImportStores DEF Becomes
<1>9. \A i \in 1..n : Key(document[i].path) = document[i].path
  BY <1>5, NormalKey
<1>10. \A i, j \in 1..n : document[i].path = document[j].path => i = j
  BY <1>4, <1>5 DEF Parses
<1>11. KeysOf(document, n) = paths
  BY <1>5, <1>9 DEF KeysOf
<1>12. paths \in Seq(Spellings) /\ Injective(paths)
  <2>1. \A i \in 1..n : document[i].path \in Spellings
    <3>1. \A i \in 1..n : document[i] \in Items
      BY <1>4, <1>5
    <3> QED
      BY <3>1 DEF Items
  <2>2. paths \in [1..n -> Spellings]
    BY <1>5, <2>1
  <2> QED
    BY <1>5, <1>10, <2>2 DEF Injective
<1> HIDE DEF paths
<1>13. RouteOrder(app') = paths
  BY <1>6, <1>7, <1>11, <1>12, LatestOfDistinct DEF Becomes
<1>14. Consistent(app') /\ Arranged(app', MocksOf(app'))
  BY <1>2 DEF ArrangedInv, IInv
<1>15. /\ DOMAIN Exported(app') = 1..n
       /\ Exported(app') = [i \in DOMAIN app'.storage |-> ExportedAt(app', i)]
       /\ \A i \in 1..n : app'.storage[i].path \in StoredPaths(app')
  BY <1>8, <1>14, Exporting
<1>16. ASSUME NEW i \in 1..n PROVE ExportedAt(app', i) = document[i]
  <2> DEFINE p == document[i].path
  <2>1. app'.storage[i].path = p /\ app'.storage[i].mock = document[i].mock
    BY <1>8
  <2>2. p \in DOMAIN Held(app') /\ Held(app')[p].progress = Progress(app', p)
    <3>1. p \in StoredPaths(app')
      BY <1>15, <2>1
    <3> HIDE DEF p
    <3>2. Held(app')[p] = [mock |-> MocksOf(app')[p], progress |-> Progress(app', p)] /\ p \in DOMAIN Held(app')
      BY <3>1, HeldIs
    <3> QED
      BY <3>2
  <2>3. Places(document, n, p) = {i}
    BY <1>9, <1>10 DEF Places
  <2>4. Max({i}) = i
    <3> DEFINE T == {i}
    <3>1. T \in SUBSET (0..n) /\ i \in T /\ \A y \in T : y <= i
      BY <1>5
    <3> HIDE DEF T
    <3>2. Max(T) = i
      BY <1>5, <3>1, GreatestIs
    <3> QED
      BY <3>2 DEF T
  <2> HIDE DEF p
  <2>5. Held(app')[p].progress = document[i].recordings
    <3>1. Held(app') = Held(t)
      BY <1>7 DEF Becomes
    <3>2. Places(document, n, p) # {} /\ document[Max(Places(document, n, p))] = document[i]
      BY <2>3, <2>4
    <3>3. Held(t)[p] = LET item == document[Max(Places(document, n, p))]
                       IN  [mock |-> item.mock, progress |-> item.recordings]
      BY <1>7, <2>2, <3>1, <3>2 DEF Loaded
    <3> QED
      BY <3>1, <3>2, <3>3
  <2>6. document[i].recordings \in Nat /\ document[i].recordings <= IF document[i].mock.kind = "recording" THEN MaxProgress ELSE 0
    <3>1. document[i] \in Items
      BY <1>4, <1>5
    <3> QED
      BY <1>4, <1>5, <3>1 DEF Parses, Items
  <2>7. document[i].mock.kind # "recording" => document[i].recordings = 0
    BY <2>6
  <2>8. document[i] = [path |-> document[i].path, mock |-> document[i].mock, recordings |-> document[i].recordings]
    <3>1. document[i] \in Items
      BY <1>4, <1>5
    <3> QED
      BY <3>1 DEF Items
  <2> QED
    BY <2>1, <2>2, <2>5, <2>7, <2>8 DEF ExportedAt, p
<1>17. Exported(app') = document
  <2>1. DOMAIN app'.storage = 1..n
    BY <1>8
  <2>2. document = [i \in 1..n |-> document[i]]
    BY <1>4, <1>5
  <2> QED
    BY <1>15, <1>16, <2>1, <2>2
<1> QED
  BY <1>13, <1>17 DEF paths

\* import_snapshot with mode="replace" gives back, mocks, recordings and order, whatever
\* export_snapshot can have made.
THEOREM Restores == Spec => ImportRestores
<1> DEFINE Restored ==
        event'.what = "import" /\ event'.mode = "replace" =>
            LET document == event'.document
                normal == \A i \in DOMAIN document : Normalize(document[i].path) = document[i].path
            IN  normal => Exported(app') = document /\ RouteOrder(app') = [i \in DOMAIN document |-> document[i].path]
<1>1. ArrangedInv /\ [Next]_vars => [Restored]_vars
  <2> SUFFICES ASSUME ArrangedInv, Next, event'.what = "import", event'.mode = "replace",
                      \A i \in DOMAIN event'.document : Normalize(event'.document[i].path) = event'.document[i].path
               PROVE /\ Exported(app') = event'.document
                     /\ RouteOrder(app') = [i \in DOMAIN event'.document |-> event'.document[i].path]
    OBVIOUS
  <2>1. PICK document \in Documents, mode \in {"merge", "replace"} : ImportSnapshot(document, mode)
    BY OtherEvents
  <2>2. event'.mode = mode /\ event'.document = document
    <3>1. \/ event' = [what |-> "rejected import"]
          \/ \E what : event' = [what |-> what, mode |-> mode, document |-> document]
      BY <2>1 DEF ImportSnapshot, Tell
    <3>2. ASSUME event' = [what |-> "rejected import"] PROVE FALSE
      <4>1. event'.what = "rejected import"
        BY <3>2
      <4> QED
        BY <4>1
    <3>3. PICK what : event' = [what |-> what, mode |-> mode, document |-> document]
      BY <3>1, <3>2
    <3> QED
      BY <3>3
  <2> QED
    BY <2>1, <2>2, Restoring
<1> QED
  BY <1>1, ArrangedInductive, PTL DEF Spec, ImportRestores
=================================================================================
