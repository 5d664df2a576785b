------------------------- MODULE RecordingStoreProofs -------------------------
(* What the operators of a recording store preserve, for any entries. *)
EXTENDS RecordingStore, FiniteSetTheorems, SequenceTheorems, WellFoundedInduction, TLAPS

\* Entries with a size, and no key twice.
Sized(S) == \A e \in S : e.reply.size \in Nat
Distinct(s) == \A i, j \in DOMAIN s : s[i].id = s[j].id => i = j

Bytes(e) == {e.id} \X (1..e.reply.size)

LEMMA Interval ==
    ASSUME NEW n \in Nat
    PROVE IsFiniteSet(1..n) /\ Cardinality(1..n) = n
<1>1. IsFiniteSet(1..n) /\ Cardinality(1..n) = IF 1 > n THEN 0 ELSE n - 1 + 1
  BY FS_Interval, n \in Int, 1 \in Int, Zenon
<1> QED
  BY <1>1

LEMMA BytesOfEntry ==
    ASSUME NEW e, e.reply.size \in Nat
    PROVE IsFiniteSet(Bytes(e)) /\ Cardinality(Bytes(e)) = e.reply.size
<1>1. IsFiniteSet(1..e.reply.size) /\ Cardinality(1..e.reply.size) = e.reply.size
  BY Interval
<1>2. IsFiniteSet({e.id}) /\ Cardinality({e.id}) = 1
  BY FS_Singleton
<1> QED
  BY <1>1, <1>2, FS_Product DEF Bytes

LEMMA OctetsIn ==
    ASSUME NEW S, NEW s \in Seq(S)
    PROVE Octets(s) = UNION {Bytes(s[i]) : i \in 1..Len(s)}
  BY DEF Octets, Bytes, recording_size

LEMMA OctetsFinite ==
    ASSUME NEW S, Sized(S), NEW s \in Seq(S)
    PROVE IsFiniteSet(Octets(s)) /\ TotalSize(s) \in Nat
<1> DEFINE T == {Bytes(s[i]) : i \in 1..Len(s)}
<1>1. IsFiniteSet(T)
  <2>1. IsFiniteSet(1..Len(s))
    BY Interval
  <2> DEFINE f == [i \in 1..Len(s) |-> Bytes(s[i])]
  <2>2. f \in Surjection(1..Len(s), T)
    BY DEF Surjection
  <2> QED
    BY <2>1, <2>2, FS_Surjection
<1>2. \A b \in T : IsFiniteSet(b)
  BY BytesOfEntry DEF Sized
<1>3. IsFiniteSet(UNION T)
  BY <1>1, <1>2, FS_UNION
<1> QED
  BY <1>3, OctetsIn, FS_CardinalityType DEF TotalSize

LEMMA Concat ==
    ASSUME NEW S, NEW s \in Seq(S), NEW t \in Seq(S)
    PROVE /\ s \o t \in Seq(S)
          /\ Len(s \o t) = Len(s) + Len(t)
          /\ \A i \in 1..Len(s) : (s \o t)[i] = s[i]
          /\ \A i \in 1..Len(t) : (s \o t)[Len(s) + i] = t[i]
  OBVIOUS

LEMMA OctetsOfConcat ==
    ASSUME NEW S, NEW s \in Seq(S), NEW t \in Seq(S)
    PROVE Octets(s \o t) = Octets(s) \union Octets(t)
<1>1. /\ s \o t \in Seq(S)
      /\ Len(s \o t) = Len(s) + Len(t)
      /\ \A i \in 1..Len(s) : (s \o t)[i] = s[i]
      /\ \A i \in 1..Len(t) : (s \o t)[Len(s) + i] = t[i]
  BY Concat
<1>2. ASSUME NEW i \in 1..Len(s \o t)
      PROVE \/ i \in 1..Len(s) /\ (s \o t)[i] = s[i]
            \/ i - Len(s) \in 1..Len(t) /\ (s \o t)[i] = t[i - Len(s)]
  BY <1>1
<1>3. ASSUME NEW i \in 1..Len(t)
      PROVE Len(s) + i \in 1..Len(s \o t)
  BY <1>1
<1>4. \A i \in 1..Len(s) : i \in 1..Len(s \o t)
  BY <1>1
<1>5. Octets(s \o t) = UNION {Bytes((s \o t)[i]) : i \in 1..Len(s \o t)}
  BY <1>1, OctetsIn
<1>6. /\ Octets(s) = UNION {Bytes(s[i]) : i \in 1..Len(s)}
      /\ Octets(t) = UNION {Bytes(t[i]) : i \in 1..Len(t)}
  BY OctetsIn
<1>7. Octets(s \o t) \subseteq Octets(s) \union Octets(t)
  BY <1>2, <1>5, <1>6
<1>8. Octets(s) \subseteq Octets(s \o t)
  BY <1>1, <1>4, <1>5, <1>6
<1>9. Octets(t) \subseteq Octets(s \o t)
  BY <1>1, <1>3, <1>5, <1>6
<1> QED
  BY <1>7, <1>8, <1>9

LEMMA DistinctParts ==
    ASSUME NEW S, NEW s \in Seq(S), NEW t \in Seq(S)
    PROVE Distinct(s \o t) <=>
            /\ Distinct(s)
            /\ Distinct(t)
            /\ \A i \in 1..Len(s), j \in 1..Len(t) : s[i].id # t[j].id
<1>1. /\ s \o t \in Seq(S)
      /\ DOMAIN (s \o t) = 1..Len(s) + Len(t)
      /\ DOMAIN s = 1..Len(s) /\ DOMAIN t = 1..Len(t)
      /\ Len(s) \in Nat /\ Len(t) \in Nat
      /\ \A i \in 1..Len(s) : (s \o t)[i] = s[i]
      /\ \A i \in 1..Len(t) : (s \o t)[Len(s) + i] = t[i]
  OBVIOUS
<1>2. ASSUME Distinct(s \o t) PROVE Distinct(s)
  BY <1>1, <1>2 DEF Distinct
<1>3. ASSUME Distinct(s \o t) PROVE Distinct(t)
  <2> SUFFICES ASSUME NEW i \in 1..Len(t), NEW j \in 1..Len(t), t[i].id = t[j].id PROVE i = j
    BY <1>1 DEF Distinct
  <2>1. Len(s) + i \in DOMAIN (s \o t) /\ Len(s) + j \in DOMAIN (s \o t)
    BY <1>1
  <2>2. (s \o t)[Len(s) + i].id = (s \o t)[Len(s) + j].id
    BY <1>1
  <2>3. Len(s) + i = Len(s) + j
    BY <1>3, <2>1, <2>2 DEF Distinct
  <2> QED
    BY <1>1, <2>3
<1>4. ASSUME Distinct(s \o t), NEW i \in 1..Len(s), NEW j \in 1..Len(t) PROVE s[i].id # t[j].id
  <2>1. i \in DOMAIN (s \o t) /\ Len(s) + j \in DOMAIN (s \o t) /\ i # Len(s) + j
    BY <1>1
  <2>2. (s \o t)[i].id # (s \o t)[Len(s) + j].id
    BY <1>4, <2>1 DEF Distinct
  <2> QED
    BY <1>1, <2>2
<1>5. ASSUME Distinct(s), Distinct(t), \A i \in 1..Len(s), j \in 1..Len(t) : s[i].id # t[j].id
      PROVE Distinct(s \o t)
  <2> SUFFICES ASSUME NEW i \in 1..Len(s) + Len(t), NEW j \in 1..Len(s) + Len(t),
                      (s \o t)[i].id = (s \o t)[j].id
               PROVE i = j
    BY <1>1 DEF Distinct
  <2>1. \A k \in 1..Len(s) + Len(t) :
            \/ k \in 1..Len(s) /\ (s \o t)[k] = s[k]
            \/ k - Len(s) \in 1..Len(t) /\ (s \o t)[k] = t[k - Len(s)]
    BY <1>1
  <2>2. CASE i \in 1..Len(s) /\ j \in 1..Len(s)
    BY <1>1, <1>5, <2>2 DEF Distinct
  <2>3. CASE i \in 1..Len(s) /\ j \notin 1..Len(s)
    BY <1>1, <1>5, <2>1, <2>3
  <2>4. CASE i \notin 1..Len(s) /\ j \in 1..Len(s)
    BY <1>1, <1>5, <2>1, <2>4
  <2>5. CASE i \notin 1..Len(s) /\ j \notin 1..Len(s)
    <3>1. i - Len(s) = j - Len(s)
      BY <1>1, <1>5, <2>1, <2>5 DEF Distinct
    <3> QED
      BY <1>1, <3>1
  <2> QED
    BY <2>2, <2>3, <2>4, <2>5
<1> QED
  BY <1>2, <1>3, <1>4, <1>5

\* The size of a collection is the sum of the sizes of its parts.
LEMMA SizeOfConcat ==
    ASSUME NEW S, Sized(S), NEW s \in Seq(S), NEW t \in Seq(S), Distinct(s \o t)
    PROVE TotalSize(s \o t) = TotalSize(s) + TotalSize(t)
<1>1. Octets(s) \cap Octets(t) = {}
  <2> SUFFICES ASSUME NEW b \in Octets(s), b \in Octets(t) PROVE FALSE
    OBVIOUS
  <2>1. PICK i \in 1..Len(s) : b \in Bytes(s[i])
    BY OctetsIn
  <2>2. PICK j \in 1..Len(t) : b \in Bytes(t[j])
    BY OctetsIn
  <2>3. s[i].id = t[j].id
    BY <2>1, <2>2 DEF Bytes
  <2> QED
    BY <2>3, DistinctParts
<1>2. IsFiniteSet(Octets(s)) /\ IsFiniteSet(Octets(t))
  BY OctetsFinite
<1>3. Cardinality(Octets(s) \union Octets(t)) =
        Cardinality(Octets(s)) + Cardinality(Octets(t)) - Cardinality(Octets(s) \cap Octets(t))
  BY <1>2, FS_Union
<1>4. Cardinality({}) = 0
  BY FS_EmptySet
<1>5. Cardinality(Octets(s)) \in Nat /\ Cardinality(Octets(t)) \in Nat
  BY OctetsFinite DEF TotalSize
<1>6. Cardinality(Octets(s \o t)) = Cardinality(Octets(s)) + Cardinality(Octets(t)) - 0
  BY <1>1, <1>3, <1>4, OctetsOfConcat, Zenon
<1> QED
  BY <1>5, <1>6 DEF TotalSize

LEMMA SizeOfNone == TotalSize(<< >>) = 0
<1>1. Octets(<< >>) = {}
  BY DEF Octets
<1> QED
  BY <1>1, FS_EmptySet DEF TotalSize

LEMMA SizeOfOne ==
    ASSUME NEW S, Sized(S), NEW e \in S
    PROVE TotalSize(<<e>>) = e.reply.size
<1>1. Octets(<<e>>) = Bytes(e)
  BY DEF Octets, Bytes, recording_size
<1> QED
  BY <1>1, BytesOfEntry DEF TotalSize, Sized

Halves(s, a, b, k) ==
    /\ Len(a) = k - 1
    /\ \A i \in 1..k - 1 : a[i] = s[i]
    /\ Len(b) = Len(s) + 1 - k
    /\ \A i \in 1..Len(s) + 1 - k : b[i] = s[k - 1 + i]

LEMMA Glue ==
    ASSUME NEW S, NEW s \in Seq(S), NEW a \in Seq(S), NEW b \in Seq(S), NEW k \in 1..Len(s) + 1,
           Halves(s, a, b, k)
    PROVE s = a \o b
<1>1. /\ a \o b \in Seq(S)
      /\ Len(a \o b) = Len(a) + Len(b)
      /\ \A i \in 1..Len(a) : (a \o b)[i] = a[i]
      /\ \A i \in 1..Len(b) : (a \o b)[Len(a) + i] = b[i]
  BY Concat
<1>2. Len(a \o b) = Len(s)
  BY <1>1 DEF Halves
<1>3. ASSUME NEW i \in 1..Len(s) PROVE (a \o b)[i] = s[i]
  <2>1. CASE i \in 1..k - 1
    BY <1>1, <2>1 DEF Halves
  <2>2. CASE i \notin 1..k - 1
    <3>1. i - k + 1 \in 1..Len(b) /\ k - 1 + (i - k + 1) = i /\ Len(a) + (i - k + 1) = i
      BY <2>2 DEF Halves
    <3>2. (a \o b)[i] = b[i - k + 1]
      BY <1>1, <3>1
    <3> QED
      BY <3>1, <3>2 DEF Halves
  <2> QED
    BY <2>1, <2>2
<1> QED
  BY <1>1, <1>2, <1>3, SeqEqual

\* Popping from the old end splits a collection in two.
LEMMA Split ==
    ASSUME NEW S, NEW s \in Seq(S), NEW k \in 1..Len(s) + 1
    PROVE /\ Before(s, k) \in Seq(S) /\ From(s, k) \in Seq(S)
          /\ s = Before(s, k) \o From(s, k)
          /\ Len(From(s, k)) = Len(s) + 1 - k
          /\ \A i \in 1..Len(From(s, k)) : From(s, k)[i] = s[k - 1 + i]
<1>1. /\ From(s, k) \in Seq(S)
      /\ Len(From(s, k)) = Len(s) + 1 - k
      /\ \A i \in 1..Len(s) + 1 - k : From(s, k)[i] = s[k - 1 + i]
  BY SubSeqProperties DEF From
<1>2. /\ Before(s, k) \in Seq(S)
      /\ Len(Before(s, k)) = k - 1
      /\ \A i \in 1..k - 1 : Before(s, k)[i] = s[i]
  BY SubSeqProperties DEF Before
<1>3. s = Before(s, k) \o From(s, k)
  <2>1. Halves(s, Before(s, k), From(s, k), k)
    BY <1>1, <1>2 DEF Halves
  <2> QED
    BY <1>1, <1>2, <2>1, Glue
<1> QED
  BY <1>1, <1>2, <1>3

LEMMA SizeOfSplit ==
    ASSUME NEW S, Sized(S), NEW s \in Seq(S), NEW k \in 1..Len(s) + 1, Distinct(s)
    PROVE /\ TotalSize(s) = TotalSize(Before(s, k)) + TotalSize(From(s, k))
          /\ Distinct(From(s, k))
<1>1. /\ Before(s, k) \in Seq(S) /\ From(s, k) \in Seq(S)
      /\ s = Before(s, k) \o From(s, k)
  BY Split
<1> QED
  BY <1>1, SizeOfConcat, DistinctParts

-------------------------------------------------------------------------------
(* Looking up and popping a key *)

LEMMA EntryAt ==
    ASSUME NEW S, NEW s \in Seq(S), Distinct(s), NEW i \in 1..Len(s)
    PROVE EntryOf(s, s[i].id) = s[i]
<1>1. DOMAIN s = 1..Len(s)
  OBVIOUS
<1>2. s[i] \in ToSet(s)
  BY <1>1 DEF ToSet
<1>3. EntryOf(s, s[i].id) \in ToSet(s) /\ EntryOf(s, s[i].id).id = s[i].id
  BY <1>2 DEF EntryOf
<1>4. PICK j \in 1..Len(s) : EntryOf(s, s[i].id) = s[j]
  BY <1>1, <1>3 DEF ToSet
<1> QED
  BY <1>1, <1>3, <1>4 DEF Distinct

LEMMA HeadAndRest ==
    ASSUME NEW S, NEW e \in S, NEW b \in Seq(S)
    PROVE /\ <<e>> \in Seq(S) /\ Len(<<e>>) = 1 /\ <<e>>[1] = e
          /\ <<e>> \o b \in Seq(S)
          /\ Len(<<e>> \o b) = 1 + Len(b)
          /\ (<<e>> \o b)[1] = e
          /\ \A n \in 1..Len(b) : (<<e>> \o b)[1 + n] = b[n]
  OBVIOUS

\* Leaving out an entry leaves what is before and what is after it.
LEMMA LeaveOut ==
    ASSUME NEW S, Sized(S), NEW a \in Seq(S), NEW e \in S, NEW b \in Seq(S), Distinct(a \o (<<e>> \o b))
    PROVE /\ a \o b \in Seq(S)
          /\ Distinct(a \o b)
          /\ \A j \in 1..Len(a \o b) : (a \o b)[j].id # e.id
          /\ TotalSize(a \o b) = TotalSize(a \o (<<e>> \o b)) - e.reply.size
          /\ Len(a \o b) <= Len(a \o (<<e>> \o b))
<1> DEFINE c == <<e>>
           cb == c \o b
<1>1. /\ c \in Seq(S) /\ Len(c) = 1 /\ c[1] = e
      /\ cb \in Seq(S) /\ Len(cb) = 1 + Len(b) /\ cb[1] = e
      /\ \A n \in 1..Len(b) : cb[1 + n] = b[n]
  BY HeadAndRest
<1>2. Distinct(a \o cb)
  OBVIOUS
<1> HIDE DEF cb
<1>3. /\ Distinct(a) /\ Distinct(cb)
      /\ \A m \in 1..Len(a), n \in 1..Len(cb) : a[m].id # cb[n].id
  BY <1>1, <1>2, DistinctParts
<1>4. /\ Distinct(b)
      /\ \A m \in 1..Len(c), n \in 1..Len(b) : c[m].id # b[n].id
  <2>1. Distinct(c \o b)
    BY <1>3 DEF cb
  <2> HIDE DEF c
  <2> QED
    BY <1>1, <2>1, DistinctParts
<1> HIDE DEF c
<1>5. \A n \in 1..Len(b) : b[n].id # e.id
  BY <1>1, <1>4
<1>6. ASSUME NEW m \in 1..Len(a) PROVE a[m].id # e.id /\ \A n \in 1..Len(b) : a[m].id # b[n].id
  <2>1. a[m].id # e.id
    BY <1>1, <1>3
  <2>2. ASSUME NEW n \in 1..Len(b) PROVE a[m].id # b[n].id
    <3>1. 1 + n \in 1..Len(cb)
      BY <1>1
    <3> QED
      BY <1>1, <1>3, <3>1
  <2> QED
    BY <2>1, <2>2
<1>7. Distinct(a \o b)
  BY <1>3, <1>4, <1>6, DistinctParts
<1>8. a \o b \in Seq(S)
  OBVIOUS
<1>9. ASSUME NEW j \in 1..Len(a \o b) PROVE (a \o b)[j].id # e.id
  <2>1. \/ j \in 1..Len(a) /\ (a \o b)[j] = a[j]
        \/ j - Len(a) \in 1..Len(b) /\ (a \o b)[j] = b[j - Len(a)]
    OBVIOUS
  <2> QED
    BY <1>5, <1>6, <2>1
<1>10. TotalSize(a \o b) = TotalSize(a \o cb) - e.reply.size
  <2>1. TotalSize(a \o cb) = TotalSize(a) + TotalSize(cb)
    BY <1>1, <1>2, SizeOfConcat
  <2>2. TotalSize(cb) = TotalSize(c) + TotalSize(b)
    <3>1. Distinct(c \o b)
      BY <1>3 DEF cb
    <3> QED
      BY <1>1, <3>1, SizeOfConcat DEF cb
  <2>3. TotalSize(c) = e.reply.size
    BY SizeOfOne DEF c
  <2>4. TotalSize(a \o b) = TotalSize(a) + TotalSize(b)
    BY <1>7, SizeOfConcat
  <2>5. TotalSize(a) \in Nat /\ TotalSize(b) \in Nat /\ e.reply.size \in Nat
    BY OctetsFinite DEF Sized
  <2> QED
    BY <2>1, <2>2, <2>3, <2>4, <2>5
<1>11. Len(a \o b) <= Len(a \o cb)
  BY <1>1
<1> QED
  BY <1>7, <1>8, <1>9, <1>10, <1>11 DEF cb, c

LEMMA Around ==
    ASSUME NEW S, NEW s \in Seq(S), NEW i \in 1..Len(s)
    PROVE /\ Before(s, i) \in Seq(S) /\ From(s, i + 1) \in Seq(S) /\ s[i] \in S
          /\ s = Before(s, i) \o (<<s[i]>> \o From(s, i + 1))
          /\ From(s, i) = <<s[i]>> \o From(s, i + 1)
<1>1. i \in 1..Len(s) + 1 /\ i + 1 \in 1..Len(s) + 1 /\ s[i] \in S
  OBVIOUS
<1>2. /\ Before(s, i) \in Seq(S)
      /\ From(s, i) \in Seq(S) /\ Len(From(s, i)) = Len(s) + 1 - i
      /\ \A j \in 1..Len(From(s, i)) : From(s, i)[j] = s[i - 1 + j]
  BY <1>1, Split
<1>3. s = Before(s, i) \o From(s, i)
  BY <1>1, Split
<1>4. /\ From(s, i + 1) \in Seq(S)
      /\ Len(From(s, i + 1)) = Len(s) + 1 - (i + 1)
      /\ \A j \in 1..Len(From(s, i + 1)) : From(s, i + 1)[j] = s[i + 1 - 1 + j]
  <2> DEFINE k == i + 1
  <2>1. k \in 1..Len(s) + 1
    BY <1>1
  <2> HIDE DEF k
  <2>2. /\ From(s, k) \in Seq(S)
        /\ Len(From(s, k)) = Len(s) + 1 - k
        /\ \A j \in 1..Len(From(s, k)) : From(s, k)[j] = s[k - 1 + j]
    BY <2>1, Split
  <2> QED
    BY <2>2 DEF k
<1>5. Halves(From(s, i), <<s[i]>>, From(s, i + 1), 2)
  <2>1. Len(From(s, i + 1)) = Len(From(s, i)) + 1 - 2
    BY <1>2, <1>4
  <2>2. From(s, i)[1] = s[i]
    BY <1>2
  <2>3. ASSUME NEW j \in 1..Len(From(s, i)) + 1 - 2 PROVE From(s, i + 1)[j] = From(s, i)[2 - 1 + j]
    BY <1>2, <1>4
  <2> QED
    BY <2>1, <2>2, <2>3 DEF Halves
<1>6. From(s, i) = <<s[i]>> \o From(s, i + 1)
  <2> DEFINE t == From(s, i)
             c == <<s[i]>>
             b == From(s, i + 1)
  <2>1. t \in Seq(S) /\ c \in Seq(S) /\ b \in Seq(S) /\ 2 \in 1..Len(t) + 1 /\ Halves(t, c, b, 2)
    BY <1>1, <1>2, <1>4, <1>5
  <2> HIDE DEF t, c, b
  <2>2. t = c \o b
    BY <2>1, Glue
  <2> QED
    BY <2>2 DEF t, c, b
<1> QED
  BY <1>1, <1>2, <1>3, <1>4, <1>6

LEMMA Pop ==
    ASSUME NEW S, Sized(S), NEW s \in Seq(S), Distinct(s), NEW i \in 1..Len(s)
    PROVE /\ RemoveAt(s, i) \in Seq(S)
          /\ Distinct(RemoveAt(s, i))
          /\ \A j \in 1..Len(RemoveAt(s, i)) : RemoveAt(s, i)[j].id # s[i].id
          /\ TotalSize(RemoveAt(s, i)) = TotalSize(s) - s[i].reply.size
          /\ Len(RemoveAt(s, i)) <= Len(s)
<1> DEFINE a == Before(s, i)
           b == From(s, i + 1)
           e == s[i]
           t == a \o (<<e>> \o b)
<1>1. a \in Seq(S) /\ b \in Seq(S) /\ e \in S /\ s = t
  BY Around
<1>2. RemoveAt(s, i) = a \o b
  BY DEF RemoveAt, Before, From
<1>3. Distinct(a \o (<<e>> \o b))
  BY <1>1
<1>4. TotalSize(s) = TotalSize(a \o (<<e>> \o b)) /\ Len(s) = Len(a \o (<<e>> \o b))
  BY <1>1
<1> HIDE DEF a, b, e
<1>5. /\ a \o b \in Seq(S)
      /\ Distinct(a \o b)
      /\ \A j \in 1..Len(a \o b) : (a \o b)[j].id # e.id
      /\ TotalSize(a \o b) = TotalSize(a \o (<<e>> \o b)) - e.reply.size
      /\ Len(a \o b) <= Len(a \o (<<e>> \o b))
  <2>1. a \in Seq(S) /\ b \in Seq(S) /\ e \in S
    BY <1>1
  <2> QED
    BY <2>1, <1>3, LeaveOut
<1> QED
  BY <1>2, <1>4, <1>5 DEF e

\* OrderedDict.pop(key, None) drops exactly the entry of the key.
LEMMA WithoutKey ==
    ASSUME NEW S, Sized(S), NEW s \in Seq(S), Distinct(s), NEW key
    PROVE /\ Without(s, key) \in Seq(S)
          /\ Distinct(Without(s, key))
          /\ \A j \in 1..Len(Without(s, key)) : Without(s, key)[j].id # key
          /\ Holds(s, key) => /\ EntryOf(s, key) \in S
                              /\ TotalSize(Without(s, key)) = TotalSize(s) - EntryOf(s, key).reply.size
          /\ ~Holds(s, key) => Without(s, key) = s
          /\ Len(Without(s, key)) <= Len(s)
<1>0. DOMAIN s = 1..Len(s)
  OBVIOUS
<1>1. CASE Holds(s, key)
  <2> DEFINE i == CHOOSE j \in DOMAIN s : s[j].id = key
  <2>1. i \in 1..Len(s) /\ s[i].id = key
    BY <1>0, <1>1 DEF Holds
  <2>2. Without(s, key) = RemoveAt(s, i)
    BY <1>1 DEF Without
  <2>3. EntryOf(s, key) = s[i]
    BY <2>1, EntryAt
  <2> HIDE DEF i
  <2> QED
    BY <1>1, <2>1, <2>2, <2>3, Pop
<1>2. CASE ~Holds(s, key)
  BY <1>0, <1>2 DEF Without, Holds
<1> QED
  BY <1>1, <1>2

-------------------------------------------------------------------------------
(* Trimming and writing *)

StoreOf(C, S) == [config : C, entries : Seq(S), bytes : Nat, revision : Nat, active : BOOLEAN]

\* Recording configurations: both limits are positive.
Limited(C) == \A c \in C : c.max_items \in Nat \ {0} /\ c.max_bytes \in Nat \ {0}

\* The byte count is right; and the limits hold as well.
Accounted(store) == Distinct(store.entries) /\ store.bytes = TotalSize(store.entries)
Bounded(store) == Accounted(store) /\ Fits(store.config, store.entries, store.bytes)

LEMMA Least ==
    ASSUME NEW T \in SUBSET Nat, T # {}
    PROVE \E x \in T : \A y \in T : x <= y
<1>1. PICK x \in T : \A y \in T : <<y, x>> \notin OpToRel(<, Nat)
  BY NatLessThanWellFounded, WFMin
<1>2. \A y \in T : ~(y < x)
  BY <1>1 DEF OpToRel
<1> QED
  BY <1>2

\* Trimming a correctly counted store stops, within the limits, at the longest
\* newest part that fits.
LEMMA Trimming ==
    ASSUME NEW C, NEW S, Limited(C), Sized(S), NEW store \in StoreOf(C, S), Accounted(store)
    PROVE /\ FirstKept(store) \in 1..Len(store.entries) + 1
          /\ Trim(store) \in StoreOf(C, S)
          /\ Trim(store).entries = From(store.entries, FirstKept(store))
          /\ Trim(store).config = store.config
          /\ Trim(store).revision = store.revision
          /\ Trim(store).active = store.active
          /\ Bounded(Trim(store))
          /\ \A j \in 1..FirstKept(store) - 1 :
                ~Fits(store.config, From(store.entries, j), TotalSize(From(store.entries, j)))
<1> DEFINE s == store.entries
           n == Len(s)
           T == {k \in 1..n + 1 : FitsFrom(store, k)}
<1>1. s \in Seq(S) /\ n \in Nat /\ store.bytes = TotalSize(s) /\ Distinct(s)
  BY DEF StoreOf, Accounted
<1>2. \A k \in 1..n + 1 :
         /\ From(s, k) \in Seq(S)
         /\ Distinct(From(s, k))
         /\ store.bytes - TotalSize(Before(s, k)) = TotalSize(From(s, k))
         /\ TotalSize(From(s, k)) \in Nat
         /\ Len(From(s, k)) = n + 1 - k
  <2> SUFFICES ASSUME NEW k \in 1..n + 1
               PROVE /\ From(s, k) \in Seq(S)
                     /\ Distinct(From(s, k))
                     /\ store.bytes - TotalSize(Before(s, k)) = TotalSize(From(s, k))
                     /\ TotalSize(From(s, k)) \in Nat
                     /\ Len(From(s, k)) = n + 1 - k
    OBVIOUS
  <2> HIDE DEF s
  <2>1. /\ Before(s, k) \in Seq(S) /\ From(s, k) \in Seq(S)
        /\ Len(From(s, k)) = n + 1 - k
    BY <1>1, Split
  <2>2. /\ TotalSize(s) = TotalSize(Before(s, k)) + TotalSize(From(s, k))
        /\ Distinct(From(s, k))
    BY <1>1, SizeOfSplit
  <2>3. TotalSize(Before(s, k)) \in Nat /\ TotalSize(From(s, k)) \in Nat
    BY <2>1, OctetsFinite
  <2> QED
    BY <1>1, <2>1, <2>2, <2>3
<1>3. n + 1 \in T
  <2>1. n + 1 \in 1..n + 1
    BY <1>1
  <2>2. From(s, n + 1) = << >>
    BY <1>1, <1>2, <2>1
  <2>3. store.config.max_items \in Nat /\ store.config.max_bytes \in Nat
    BY DEF StoreOf, Limited
  <2> DEFINE z == n + 1
  <2>4. store.bytes - TotalSize(Before(s, z)) = 0
    BY <1>2, <2>1, <2>2, SizeOfNone
  <2>5. Len(From(s, z)) = 0
    BY <2>2
  <2> HIDE DEF z
  <2>6. FitsFrom(store, z)
    BY <2>3, <2>4, <2>5 DEF FitsFrom, Fits
  <2> QED
    BY <2>1, <2>6 DEF z
<1>4. PICK k \in T : \A j \in T : k <= j
  <2>1. T \in SUBSET Nat
    BY <1>1
  <2> QED
    BY <1>3, <2>1, Least
<1>5. k \in 1..n + 1 /\ FitsFrom(store, k) /\ \A j \in 1..k - 1 : ~FitsFrom(store, j)
  BY <1>1, <1>4
<1> HIDE DEF T
<1>6. /\ FirstKept(store) \in 1..n + 1 /\ FitsFrom(store, FirstKept(store))
      /\ \A j \in 1..FirstKept(store) - 1 : ~FitsFrom(store, j)
  BY <1>5 DEF FirstKept
<1> DEFINE m == FirstKept(store)
           t == Trim(store)
<1>7. /\ t.entries = From(s, m)
      /\ t.bytes = store.bytes - TotalSize(Before(s, m))
      /\ t.config = store.config /\ t.revision = store.revision /\ t.active = store.active
      /\ t = [config |-> store.config, entries |-> From(s, m),
              bytes |-> store.bytes - TotalSize(Before(s, m)),
              revision |-> store.revision, active |-> store.active]
  <2> DEFINE p == From(s, m)
             b == store.bytes - TotalSize(Before(s, m))
  <2>1. t = [store EXCEPT !.entries = p, !.bytes = b]
    BY DEF Trim
  <2> HIDE DEF p, b, t
  <2>2. /\ t = [config |-> store.config, entries |-> p, bytes |-> b,
                revision |-> store.revision, active |-> store.active]
    BY <2>1 DEF StoreOf
  <2> QED
    BY <2>2 DEF p, b
<1>8. t \in StoreOf(C, S)
  <2>1. store.config \in C /\ store.revision \in Nat /\ store.active \in BOOLEAN
    BY DEF StoreOf
  <2> HIDE DEF t, s, m
  <2>2. From(s, m) \in Seq(S) /\ store.bytes - TotalSize(Before(s, m)) \in Nat
    BY <1>2, <1>6 DEF m, s
  <2> QED
    BY <1>7, <2>1, <2>2 DEF StoreOf
<1>9. Bounded(t)
  <2> HIDE DEF t
  <2>1. Distinct(t.entries) /\ t.bytes = TotalSize(t.entries)
    BY <1>2, <1>6, <1>7
  <2>2. Fits(t.config, t.entries, t.bytes)
    BY <1>6, <1>7 DEF FitsFrom
  <2> QED
    BY <2>1, <2>2 DEF Bounded, Accounted
<1>10. ASSUME NEW j \in 1..m - 1 PROVE ~Fits(store.config, From(s, j), TotalSize(From(s, j)))
  <2>1. j \in 1..n + 1 /\ ~FitsFrom(store, j)
    BY <1>1, <1>6
  <2> HIDE DEF m, s
  <2>2. store.bytes - TotalSize(Before(s, j)) = TotalSize(From(s, j))
    BY <1>2, <2>1
  <2> QED
    BY <2>1, <2>2 DEF FitsFrom, s
<1> QED
  BY <1>6, <1>7, <1>8, <1>9, <1>10

Update(store, revision, s, bytes) == [store EXCEPT !.revision = revision, !.entries = s, !.bytes = bytes]

LEMMA Updated ==
    ASSUME NEW C, NEW S, NEW store \in StoreOf(C, S), NEW revision \in Nat, NEW s \in Seq(S), NEW bytes \in Nat
    PROVE /\ Update(store, revision, s, bytes) \in StoreOf(C, S)
          /\ Update(store, revision, s, bytes).entries = s
          /\ Update(store, revision, s, bytes).bytes = bytes
          /\ Update(store, revision, s, bytes).config = store.config
  BY DEF StoreOf, Update

\* A new generation counts and bounds whatever it is built from.
LEMMA NewStoreBounded ==
    ASSUME NEW C, NEW S, Limited(C), Sized(S), NEW config \in C, NEW s \in Seq(S), Distinct(s)
    PROVE /\ NewStore(config, s) \in StoreOf(C, S)
          /\ Bounded(NewStore(config, s))
          /\ NewStore(config, s).config = config
          /\ NewStore(config, s).active = TRUE
          /\ NewStore(config, s).revision = 0
          /\ \E k \in 1..Len(s) + 1 : NewStore(config, s).entries = From(s, k)
<1> DEFINE new == [config |-> config, entries |-> s, bytes |-> TotalSize(s), revision |-> 0, active |-> TRUE]
<1>1. TotalSize(s) \in Nat
  BY OctetsFinite
<1>2. new \in StoreOf(C, S)
  BY <1>1 DEF StoreOf
<1>3. Accounted(new)
  BY DEF Accounted
<1>4. /\ new.config = config /\ new.entries = s /\ new.revision = 0 /\ new.active = TRUE
      /\ NewStore(config, s) = Trim(new)
  BY DEF NewStore
<1> HIDE DEF new
<1> QED
  BY <1>2, <1>3, <1>4, Trimming

LEMMA ConfigOfNew == ASSUME NEW config, NEW s PROVE NewStore(config, s).config = config
<1> DEFINE new == [config |-> config, entries |-> s, bytes |-> TotalSize(s), revision |-> 0, active |-> TRUE]
           p == From(new.entries, FirstKept(new))
           b == new.bytes - TotalSize(Before(new.entries, FirstKept(new)))
<1>1. NewStore(config, s) = [new EXCEPT !.entries = p, !.bytes = b]
  BY DEF NewStore, Trim
<1> HIDE DEF p, b
<1> QED
  BY <1>1

\* Putting an entry at the new end, in place of the one with its key.
LEMMA Appended ==
    ASSUME NEW S, Sized(S), NEW s \in Seq(S), NEW e \in S, Distinct(s)
    PROVE /\ Append(Without(s, e.id), e) \in Seq(S)
          /\ Distinct(Append(Without(s, e.id), e))
          /\ TotalSize(Append(Without(s, e.id), e)) = TotalSize(Without(s, e.id)) + e.reply.size
<1> DEFINE t == Without(s, e.id)
           c == <<e>>
<1>1. /\ t \in Seq(S) /\ Distinct(t)
      /\ \A j \in 1..Len(t) : t[j].id # e.id
  BY WithoutKey
<1>2. c \in Seq(S) /\ Len(c) = 1 /\ c[1] = e
  OBVIOUS
<1>3. TotalSize(c) = e.reply.size
  BY SizeOfOne
<1> HIDE DEF t
<1>4. Append(t, e) = t \o c
  BY <1>1, AppendIsConcat
<1> HIDE DEF c
<1>5. Distinct(c)
  BY <1>2 DEF Distinct
<1>6. \A i \in 1..Len(t), j \in 1..Len(c) : t[i].id # c[j].id
  BY <1>1, <1>2
<1>7. Distinct(t \o c)
  BY <1>1, <1>2, <1>5, <1>6, DistinctParts
<1>8. TotalSize(t \o c) = TotalSize(t) + TotalSize(c)
  BY <1>1, <1>2, <1>7, SizeOfConcat
<1>9. Append(t, e) \in Seq(S)
  BY <1>1
<1> QED
  BY <1>3, <1>4, <1>7, <1>8, <1>9 DEF t

\* A write trims a collection that is counted right, whatever it replaces.
LEMMA WriteTrims ==
    ASSUME NEW C, NEW S, Sized(S), NEW store \in StoreOf(C, S), Accounted(store),
           NEW key, NEW reply, [id |-> key, reply |-> reply] \in S
    PROVE \E full \in StoreOf(C, S) :
              /\ Write(store, key, reply) = Trim(full)
              /\ Accounted(full)
              /\ full.entries = Append(Without(store.entries, key), [id |-> key, reply |-> reply])
              /\ full.config = store.config
              /\ full.revision = store.revision
              /\ full.active = store.active
<1> DEFINE e == [id |-> key, reply |-> reply]
           s == store.entries
           all == Append(Without(s, key), e)
           dropped == IF Holds(s, key) THEN recording_size(EntryOf(s, key)) ELSE 0
           full == [store EXCEPT !.entries = all, !.bytes = store.bytes - dropped + reply.size]
<1>1. s \in Seq(S) /\ Distinct(s) /\ store.bytes = TotalSize(s) /\ e \in S /\ e.id = key /\ e.reply = reply
  BY DEF StoreOf, Accounted
<1>2. Write(store, key, reply) = Trim(full)
  BY DEF Write
<1> HIDE DEF s
<1>3. /\ all \in Seq(S) /\ Distinct(all)
      /\ TotalSize(all) = TotalSize(Without(s, key)) + reply.size
  <2> HIDE DEF e
  <2>1. /\ Append(Without(s, e.id), e) \in Seq(S)
        /\ Distinct(Append(Without(s, e.id), e))
        /\ TotalSize(Append(Without(s, e.id), e)) = TotalSize(Without(s, e.id)) + e.reply.size
    BY <1>1, Appended
  <2> QED
    BY <1>1, <2>1
<1>4. store.bytes - dropped = TotalSize(Without(s, key))
  <2>1. TotalSize(s) \in Nat
    BY <1>1, OctetsFinite
  <2>2. CASE Holds(s, key)
    BY <1>1, <2>1, <2>2, WithoutKey DEF recording_size
  <2>3. CASE ~Holds(s, key)
    BY <1>1, <2>1, <2>3, WithoutKey
  <2> QED
    BY <2>2, <2>3
<1> HIDE DEF all, dropped
<1>5. /\ full.entries = all /\ full.bytes = TotalSize(all)
      /\ full.config = store.config /\ full.revision = store.revision /\ full.active = store.active
  BY <1>3, <1>4 DEF StoreOf
<1>6. full \in StoreOf(C, S)
  <2>1. TotalSize(all) \in Nat
    BY <1>3, OctetsFinite
  <2> QED
    BY <1>3, <1>4, <2>1 DEF StoreOf
<1>7. Accounted(full)
  BY <1>3, <1>5 DEF Accounted
<1> HIDE DEF full
<1> QED
  BY <1>2, <1>5, <1>6, <1>7 DEF all, s, e

\* A write keeps the count right and the limits.
LEMMA WriteBounded ==
    ASSUME NEW C, NEW S, Limited(C), Sized(S), NEW store \in StoreOf(C, S), Accounted(store),
           NEW key, NEW reply, [id |-> key, reply |-> reply] \in S
    PROVE /\ Write(store, key, reply) \in StoreOf(C, S)
          /\ Bounded(Write(store, key, reply))
          /\ Write(store, key, reply).config = store.config
          /\ Write(store, key, reply).revision = store.revision
          /\ Write(store, key, reply).active = store.active
          /\ \E k \in 1..Len(Append(Without(store.entries, key), [id |-> key, reply |-> reply])) + 1 :
                Write(store, key, reply).entries =
                    From(Append(Without(store.entries, key), [id |-> key, reply |-> reply]), k)
<1> DEFINE all == Append(Without(store.entries, key), [id |-> key, reply |-> reply])
<1>1. PICK full \in StoreOf(C, S) :
          /\ Write(store, key, reply) = Trim(full) /\ Accounted(full) /\ full.entries = all
          /\ full.config = store.config /\ full.revision = store.revision /\ full.active = store.active
  BY WriteTrims
<1> HIDE DEF all
<1>2. /\ Trim(full) \in StoreOf(C, S) /\ Bounded(Trim(full))
      /\ Trim(full).config = store.config /\ Trim(full).revision = store.revision /\ Trim(full).active = store.active
      /\ \E k \in 1..Len(all) + 1 : Trim(full).entries = From(all, k)
  BY <1>1, Trimming
<1> QED
  BY <1>1, <1>2 DEF all

\* Deleting one entry or all of them keeps the count right.
LEMMA DeleteBounded ==
    ASSUME NEW C, NEW S, Limited(C), Sized(S), NEW store \in StoreOf(C, S), Bounded(store)
    PROVE /\ DeleteAll(store) \in StoreOf(C, S) /\ Bounded(DeleteAll(store))
          /\ \A key : Holds(store.entries, key) =>
                 DeleteOne(store, key) \in StoreOf(C, S) /\ Bounded(DeleteOne(store, key))
<1>1. /\ store.entries \in Seq(S) /\ Distinct(store.entries) /\ store.bytes = TotalSize(store.entries)
      /\ store.bytes \in Nat /\ store.revision \in Nat /\ store.config \in C
      /\ Len(store.entries) <= store.config.max_items /\ store.bytes <= store.config.max_bytes
      /\ store.config.max_items \in Nat /\ store.config.max_bytes \in Nat
  BY DEF StoreOf, Bounded, Accounted, Fits, Limited
<1>2. DeleteAll(store) \in StoreOf(C, S) /\ Bounded(DeleteAll(store))
  <2> DEFINE d == DeleteAll(store)
  <2>0. << >> \in Seq(S)
    OBVIOUS
  <2>1. d \in StoreOf(C, S) /\ d.entries = << >> /\ d.bytes = 0 /\ d.config = store.config
    <3> DEFINE revision == store.revision + 1
               s == << >>
    <3>1. d = Update(store, revision, s, 0)
      BY DEF DeleteAll, Update
    <3>2. revision \in Nat /\ s \in Seq(S) /\ 0 \in Nat
      BY <1>1, <2>0
    <3> HIDE DEF d, revision, s
    <3>3. d \in StoreOf(C, S)
      BY <3>1, <3>2, Updated
    <3>4. d.entries = s
      BY <3>1, <3>2, Updated
    <3>5. d.bytes = 0
      BY <3>1, <3>2, Updated
    <3>6. d.config = store.config
      BY <3>1, <3>2, Updated
    <3> QED
      BY <3>3, <3>4, <3>5, <3>6 DEF s
  <2> HIDE DEF d
  <2>3. Distinct(d.entries) /\ Len(d.entries) = 0 /\ TotalSize(d.entries) = 0
    BY <2>1, SizeOfNone DEF Distinct
  <2>4. Accounted(d)
    BY <2>1, <2>3 DEF Accounted
  <2>5. Fits(d.config, d.entries, d.bytes)
    BY <1>1, <2>1, <2>3 DEF Fits
  <2> QED
    BY <2>1, <2>4, <2>5 DEF Bounded, d
<1>3. ASSUME NEW key, Holds(store.entries, key)
      PROVE DeleteOne(store, key) \in StoreOf(C, S) /\ Bounded(DeleteOne(store, key))
  <2> DEFINE s == store.entries
             t == Without(s, key)
             d == DeleteOne(store, key)
             n == EntryOf(s, key).reply.size
  <2>1. /\ t \in Seq(S) /\ Distinct(t) /\ EntryOf(s, key) \in S
        /\ TotalSize(t) = TotalSize(s) - n
    BY <1>1, <1>3, WithoutKey
  <2>2. TotalSize(t) \in Nat /\ TotalSize(s) \in Nat /\ n \in Nat
    BY <1>1, <2>1, OctetsFinite DEF Sized
  <2>3. Len(t) <= Len(s)
    BY <1>1, WithoutKey
  <2> HIDE DEF t, n
  <2>4. d = [store EXCEPT !.revision = store.revision + 1, !.entries = t, !.bytes = store.bytes - n]
    BY DEF DeleteOne, recording_size, t, n
  <2> HIDE DEF d
  <2>5. d.entries = t /\ d.bytes = TotalSize(t) /\ d.config = store.config /\ d \in StoreOf(C, S)
    <3> DEFINE revision == store.revision + 1
               bytes == store.bytes - n
    <3>1. bytes = TotalSize(t) /\ bytes \in Nat /\ revision \in Nat
      BY <1>1, <2>1, <2>2
    <3>2. d = Update(store, revision, t, bytes)
      BY <2>4 DEF Update
    <3> HIDE DEF revision, bytes
    <3>3. d \in StoreOf(C, S)
      BY <2>1, <3>1, <3>2, Updated
    <3>4. d.entries = t
      BY <3>2 DEF Update, StoreOf
    <3>5. d.bytes = bytes
      BY <3>2 DEF Update, StoreOf
    <3>6. d.config = store.config
      BY <3>2 DEF Update, StoreOf
    <3> QED
      BY <3>1, <3>3, <3>4, <3>5, <3>6
  <2>6. Accounted(d)
    BY <2>1, <2>5 DEF Accounted
  <2>7. Fits(d.config, d.entries, d.bytes)
    <3>1. Len(t) \in Nat /\ Len(s) \in Nat
      BY <1>1, <2>1
    <3> QED
      BY <1>1, <2>1, <2>2, <2>3, <2>5, <3>1 DEF Fits
  <2> QED
    BY <2>5, <2>6, <2>7 DEF Bounded, d
<1> QED
  BY <1>2, <1>3

-------------------------------------------------------------------------------
(* The newest part of a sequence: what is left when older entries are popped *)

\* A sequence is an older part and a newest part.
Joined(s, a, t) == s = a \o t

LEMMA NewestOfConcat ==
    ASSUME NEW S, NEW a \in Seq(S), NEW t \in Seq(S)
    PROVE /\ From(a \o t, Len(a) + 1) = t
          /\ Len(a) + 1 \in 1..Len(a \o t) + 1
<1> DEFINE s == a \o t
           k == Len(a) + 1
<1>1. /\ s \in Seq(S) /\ Len(s) = Len(a) + Len(t)
      /\ \A i \in 1..Len(t) : s[Len(a) + i] = t[i]
  BY Concat
<1>2. k \in 1..Len(s) + 1
  BY <1>1
<1> HIDE DEF s, k
<1>3. /\ From(s, k) \in Seq(S)
      /\ Len(From(s, k)) = Len(s) + 1 - k
      /\ \A i \in 1..Len(From(s, k)) : From(s, k)[i] = s[k - 1 + i]
  BY <1>1, <1>2, Split
<1>4. Len(From(s, k)) = Len(t)
  BY <1>1, <1>3 DEF k
<1>5. \A i \in 1..Len(t) : From(s, k)[i] = t[i]
  BY <1>1, <1>3, <1>4 DEF k
<1>6. From(s, k) = t
  BY <1>3, <1>4, <1>5, SeqEqual
<1> QED
  BY <1>2, <1>6 DEF s, k

\* What is newest in the newest part of a sequence is newest in the sequence.
LEMMA NewestOfNewest ==
    ASSUME NEW S, NEW s, NEW a \in Seq(S), NEW t \in Seq(S), Joined(s, a, t), NEW k \in 1..Len(t) + 1
    PROVE /\ From(t, k) \in Seq(S)
          /\ \E j \in 1..Len(s) + 1 : From(t, k) = From(s, j)
<1> DEFINE b == Before(t, k)
           u == From(t, k)
<1>1. b \in Seq(S) /\ u \in Seq(S) /\ t = b \o u
  BY Split
<1> HIDE DEF b, u
<1>2. a \o t = (a \o b) \o u /\ a \o b \in Seq(S)
  BY <1>1, ConcatAssociative
<1> DEFINE c == a \o b
<1>3. From(c \o u, Len(c) + 1) = u /\ Len(c) + 1 \in 1..Len(c \o u) + 1
  <2>1. c \in Seq(S)
    BY <1>2
  <2> HIDE DEF c
  <2> QED
    BY <1>1, <2>1, NewestOfConcat
<1> QED
  BY <1>1, <1>2, <1>3 DEF u, Joined

LEMMA AppendToNewest ==
    ASSUME NEW S, NEW s, NEW a \in Seq(S), NEW t \in Seq(S), Joined(s, a, t), NEW e \in S
    PROVE Joined(Append(s, e), a, Append(t, e)) /\ Append(t, e) \in Seq(S)
<1> DEFINE c == <<e>>
<1>1. c \in Seq(S)
  OBVIOUS
<1>2. Append(t, e) = t \o c /\ Append(s, e) = s \o c
  BY AppendIsConcat DEF Joined
<1> HIDE DEF c
<1>3. s \o c = a \o (t \o c)
  BY <1>1, ConcatAssociative DEF Joined
<1>4. Joined(s \o c, a, t \o c)
  BY <1>3 DEF Joined
<1>5. Append(t, e) \in Seq(S)
  OBVIOUS
<1> QED
  BY <1>2, <1>4, <1>5

LEMMA Removed ==
    ASSUME NEW S, NEW s \in Seq(S), NEW i \in 1..Len(s)
    PROVE /\ RemoveAt(s, i) \in Seq(S)
          /\ Len(RemoveAt(s, i)) = Len(s) - 1
          /\ \A j \in 1..Len(s) - 1 : RemoveAt(s, i)[j] = IF j < i THEN s[j] ELSE s[j + 1]
<1> DEFINE a == SubSeq(s, 1, i - 1)
           b == SubSeq(s, i + 1, Len(s))
<1>1. /\ a \in Seq(S) /\ Len(a) = i - 1
      /\ \A j \in 1..i - 1 : a[j] = s[j]
  BY SubSeqProperties
<1>2. /\ b \in Seq(S) /\ Len(b) = Len(s) - i
      /\ \A j \in 1..Len(s) - i : b[j] = s[i + j]
  BY SubSeqProperties
<1>3. RemoveAt(s, i) = a \o b
  BY DEF RemoveAt
<1> HIDE DEF a, b
<1>4. /\ a \o b \in Seq(S)
      /\ Len(a \o b) = Len(a) + Len(b)
      /\ \A j \in 1..Len(a) + Len(b) : (a \o b)[j] = IF j <= Len(a) THEN a[j] ELSE b[j - Len(a)]
  BY <1>1, <1>2, ConcatProperties
<1>5. ASSUME NEW j \in 1..Len(s) - 1 PROVE (a \o b)[j] = IF j < i THEN s[j] ELSE s[j + 1]
  <2>1. CASE j < i
    BY <1>1, <1>2, <1>4, <2>1
  <2>2. CASE ~(j < i)
    <3>1. j - Len(a) \in 1..Len(s) - i /\ i + (j - Len(a)) = j + 1 /\ ~(j <= Len(a)) /\ j \in 1..Len(a) + Len(b)
      BY <1>1, <1>2, <2>2
    <3> QED
      BY <1>2, <1>4, <2>2, <3>1
  <2> QED
    BY <2>1, <2>2
<1> QED
  BY <1>1, <1>2, <1>3, <1>4, <1>5

LEMMA RemovedFromConcat ==
    ASSUME NEW S, NEW a \in Seq(S), NEW t \in Seq(S)
    PROVE /\ \A i \in 1..Len(a) : RemoveAt(a \o t, i) = RemoveAt(a, i) \o t
          /\ \A i \in 1..Len(t) : RemoveAt(a \o t, Len(a) + i) = a \o RemoveAt(t, i)
<1> DEFINE s == a \o t
<1>1. /\ s \in Seq(S) /\ Len(s) = Len(a) + Len(t)
      /\ \A j \in 1..Len(a) + Len(t) : s[j] = IF j <= Len(a) THEN a[j] ELSE t[j - Len(a)]
  BY ConcatProperties
<1> HIDE DEF s
<1>2. ASSUME NEW i \in 1..Len(a) PROVE RemoveAt(s, i) = RemoveAt(a, i) \o t
  <2> DEFINE x == RemoveAt(s, i)
             y == RemoveAt(a, i)
  <2>1. i \in 1..Len(s)
    BY <1>1
  <2>2. /\ x \in Seq(S) /\ Len(x) = Len(s) - 1
        /\ \A j \in 1..Len(s) - 1 : x[j] = IF j < i THEN s[j] ELSE s[j + 1]
    BY <1>1, <2>1, Removed
  <2>3. /\ y \in Seq(S) /\ Len(y) = Len(a) - 1
        /\ \A j \in 1..Len(a) - 1 : y[j] = IF j < i THEN a[j] ELSE a[j + 1]
    BY Removed
  <2> HIDE DEF x, y
  <2>4. /\ y \o t \in Seq(S) /\ Len(y \o t) = Len(y) + Len(t)
        /\ \A j \in 1..Len(y) + Len(t) : (y \o t)[j] = IF j <= Len(y) THEN y[j] ELSE t[j - Len(y)]
    BY <2>3, ConcatProperties
  <2>5. Len(x) = Len(y \o t)
    BY <1>1, <2>2, <2>3, <2>4
  <2>6. ASSUME NEW j \in 1..Len(x) PROVE x[j] = (y \o t)[j]
    <3>1. j \in 1..Len(s) - 1 /\ j \in 1..Len(y) + Len(t) /\ j \in 1..Len(a) + Len(t) /\ j + 1 \in 1..Len(a) + Len(t)
      BY <1>1, <2>2, <2>3
    <3>2. CASE j <= Len(y)
      <4>1. (a \o t)[j] = a[j] /\ (a \o t)[j + 1] = a[j + 1] /\ j \in 1..Len(a) - 1
        BY <1>1, <2>3, <3>1, <3>2 DEF s
      <4>2. x[j] = IF j < i THEN a[j] ELSE a[j + 1]
        BY <2>2, <3>1, <4>1 DEF s
      <4>3. (y \o t)[j] = y[j]
        BY <2>4, <3>1, <3>2
      <4> QED
        BY <2>3, <4>1, <4>2, <4>3
    <3>3. CASE ~(j <= Len(y))
      <4>1. ~(j < i) /\ ~(j + 1 <= Len(a)) /\ j + 1 - Len(a) = j - Len(y)
        BY <2>3, <3>1, <3>3
      <4>2. x[j] = s[j + 1]
        BY <2>2, <3>1, <4>1
      <4>3. s[j + 1] = t[j + 1 - Len(a)]
        BY <1>1, <3>1, <4>1
      <4>4. (y \o t)[j] = t[j - Len(y)]
        BY <2>4, <3>1, <3>3
      <4> QED
        BY <4>1, <4>2, <4>3, <4>4
    <3> QED
      BY <3>2, <3>3
  <2> QED
    BY <2>2, <2>4, <2>5, <2>6, SeqEqual DEF x, y
<1>3. ASSUME NEW i \in 1..Len(t) PROVE RemoveAt(s, Len(a) + i) = a \o RemoveAt(t, i)
  <2> DEFINE k == Len(a) + i
             x == RemoveAt(s, k)
             y == RemoveAt(t, i)
  <2>1. k \in 1..Len(s)
    BY <1>1
  <2> HIDE DEF k
  <2>2. /\ x \in Seq(S) /\ Len(x) = Len(s) - 1
        /\ \A j \in 1..Len(s) - 1 : x[j] = IF j < k THEN s[j] ELSE s[j + 1]
    BY <1>1, <2>1, Removed
  <2>3. /\ y \in Seq(S) /\ Len(y) = Len(t) - 1
        /\ \A j \in 1..Len(t) - 1 : y[j] = IF j < i THEN t[j] ELSE t[j + 1]
    BY Removed
  <2> HIDE DEF x, y
  <2>4. /\ a \o y \in Seq(S) /\ Len(a \o y) = Len(a) + Len(y)
        /\ \A j \in 1..Len(a) + Len(y) : (a \o y)[j] = IF j <= Len(a) THEN a[j] ELSE y[j - Len(a)]
    BY <2>3, ConcatProperties
  <2>5. Len(x) = Len(a \o y)
    BY <1>1, <2>2, <2>3, <2>4
  <2>6. ASSUME NEW j \in 1..Len(x) PROVE x[j] = (a \o y)[j]
    <3>1. j \in 1..Len(s) - 1 /\ j \in 1..Len(a) + Len(y) /\ j \in 1..Len(a) + Len(t) /\ j + 1 \in 1..Len(a) + Len(t)
      BY <1>1, <2>2, <2>3
    <3>2. CASE j <= Len(a)
      BY <1>1, <2>2, <2>4, <3>1, <3>2 DEF k
    <3>3. CASE ~(j <= Len(a))
      <4>1. j - Len(a) \in 1..Len(t) - 1 /\ j + 1 - Len(a) = j - Len(a) + 1 /\ ~(j + 1 <= Len(a))
        BY <2>3, <3>1, <3>3
      <4>2. j < k <=> j - Len(a) < i
        BY <3>1 DEF k
      <4>3. x[j] = IF j < k THEN t[j - Len(a)] ELSE t[j + 1 - Len(a)]
        BY <1>1, <2>2, <3>1, <3>3, <4>1
      <4>4. (a \o y)[j] = y[j - Len(a)]
        BY <2>4, <3>1, <3>3
      <4> QED
        BY <2>3, <4>1, <4>2, <4>3, <4>4
    <3> QED
      BY <3>2, <3>3
  <2> QED
    BY <2>2, <2>4, <2>5, <2>6, SeqEqual DEF x, y, k
<1> QED
  BY <1>2, <1>3 DEF s

LEMMA WithoutAt ==
    ASSUME NEW S, NEW s \in Seq(S), Distinct(s), NEW i \in 1..Len(s)
    PROVE Without(s, s[i].id) = RemoveAt(s, i)
<1> DEFINE j == CHOOSE k \in DOMAIN s : s[k].id = s[i].id
<1>1. DOMAIN s = 1..Len(s)
  OBVIOUS
<1>2. Holds(s, s[i].id)
  BY <1>1 DEF Holds
<1>3. j \in DOMAIN s /\ s[j].id = s[i].id
  BY <1>1
<1>4. j = i
  BY <1>1, <1>3 DEF Distinct
<1> QED
  BY <1>2, <1>4 DEF Without

\* Popping a key from a sequence pops it from the newest part, or from what came before.
LEMMA WithoutOfConcat ==
    ASSUME NEW S, NEW s, NEW a \in Seq(S), NEW t \in Seq(S), Joined(s, a, t), Distinct(s), NEW key
    PROVE /\ Without(t, key) \in Seq(S)
          /\ \E b \in Seq(S) : /\ Joined(Without(s, key), b, Without(t, key))
                               /\ ToSet(b) \subseteq ToSet(a)
                               /\ Holds(t, key) => b = a
<1>1. /\ s \in Seq(S) /\ Len(s) = Len(a) + Len(t)
      /\ \A i \in 1..Len(a) : s[i] = a[i]
      /\ \A i \in 1..Len(t) : s[Len(a) + i] = t[i]
      /\ DOMAIN s = 1..Len(s) /\ DOMAIN a = 1..Len(a) /\ DOMAIN t = 1..Len(t)
  BY Concat DEF Joined
<1>2. Distinct(s) /\ Distinct(a) /\ Distinct(t) /\ \A i \in 1..Len(a), j \in 1..Len(t) : a[i].id # t[j].id
  BY DistinctParts DEF Joined
<1>3. /\ \A i \in 1..Len(a) : RemoveAt(s, i) = RemoveAt(a, i) \o t
      /\ \A i \in 1..Len(t) : RemoveAt(s, Len(a) + i) = a \o RemoveAt(t, i)
  <2>1. \A i \in 1..Len(a) : RemoveAt(a \o t, i) = RemoveAt(a, i) \o t
    BY RemovedFromConcat
  <2>2. \A i \in 1..Len(t) : RemoveAt(a \o t, Len(a) + i) = a \o RemoveAt(t, i)
    BY RemovedFromConcat
  <2> QED
    BY <2>1, <2>2 DEF Joined
<1>4. CASE Holds(t, key)
  <2>1. PICK i \in 1..Len(t) : t[i].id = key
    BY <1>1, <1>4 DEF Holds
  <2>2. Without(t, key) = RemoveAt(t, i) /\ RemoveAt(t, i) \in Seq(S)
    BY <1>2, <2>1, WithoutAt, Removed
  <2> DEFINE k == Len(a) + i
  <2>3. k \in 1..Len(s) /\ s[k].id = key
    BY <1>1, <2>1
  <2>4. RemoveAt(s, k) = a \o RemoveAt(t, i)
    BY <1>3
  <2> HIDE DEF k
  <2>5. Without(s, key) = RemoveAt(s, k)
    BY <1>1, <1>2, <2>3, WithoutAt
  <2> QED
    BY <2>2, <2>4, <2>5 DEF Joined
<1>5. CASE ~Holds(t, key) /\ Holds(a, key)
  <2>1. PICK i \in 1..Len(a) : a[i].id = key
    BY <1>1, <1>5 DEF Holds
  <2>2. Without(t, key) = t
    BY <1>5 DEF Without
  <2>3. i \in 1..Len(s) /\ s[i].id = key
    BY <1>1, <2>1
  <2>4. Without(s, key) = RemoveAt(s, i)
    BY <1>1, <1>2, <2>3, WithoutAt
  <2> DEFINE b == RemoveAt(a, i)
  <2>5. Without(s, key) = b \o Without(t, key)
    BY <1>3, <2>2, <2>4
  <2>6. /\ b \in Seq(S) /\ Len(b) = Len(a) - 1
        /\ \A j \in 1..Len(a) - 1 : b[j] = IF j < i THEN a[j] ELSE a[j + 1]
    BY Removed
  <2> HIDE DEF b
  <2>7. ToSet(b) \subseteq ToSet(a)
    <3>1. DOMAIN b = 1..Len(a) - 1 /\ Len(a) \in Nat
      BY <2>6
    <3>2. \A j \in 1..Len(a) - 1 : j \in 1..Len(a) /\ j + 1 \in 1..Len(a)
      BY <3>1
    <3>3. \A j \in 1..Len(a) - 1 : b[j] \in {a[k] : k \in 1..Len(a)}
      BY <2>6, <3>2
    <3> QED
      BY <1>1, <3>1, <3>3 DEF ToSet
  <2> QED
    BY <1>5, <2>2, <2>5, <2>6, <2>7 DEF Joined
<1>6. CASE ~Holds(t, key) /\ ~Holds(a, key)
  <2>1. ~Holds(s, key)
    <3>1. ASSUME NEW k \in 1..Len(s) PROVE s[k].id # key
      <4>1. k \in 1..Len(a) \/ k - Len(a) \in 1..Len(t)
        BY <1>1
      <4>2. CASE k \in 1..Len(a)
        BY <1>1, <1>6, <4>2 DEF Holds
      <4>3. CASE k - Len(a) \in 1..Len(t)
        <5>1. s[k] = t[k - Len(a)]
          <6>1. Len(a) + (k - Len(a)) = k
            BY <1>1
          <6> QED
            BY <1>1, <4>3, <6>1
        <5> QED
          BY <1>1, <1>6, <4>3, <5>1 DEF Holds
      <4> QED
        BY <4>1, <4>2, <4>3
    <3> QED
      BY <1>1, <3>1 DEF Holds
  <2> QED
    BY <1>6, <2>1 DEF Without
<1> QED
  BY <1>4, <1>5, <1>6

\* What came before the newest part is not in it.
LEMMA NotInNewest ==
    ASSUME NEW S, NEW s, NEW a \in Seq(S), NEW t \in Seq(S), Joined(s, a, t), Distinct(s), NEW x \in ToSet(t)
    PROVE x \notin ToSet(a)
<1>1. \A i \in 1..Len(a), j \in 1..Len(t) : a[i].id # t[j].id
  BY DistinctParts DEF Joined
<1>2. DOMAIN a = 1..Len(a) /\ DOMAIN t = 1..Len(t)
  OBVIOUS
<1> QED
  BY <1>1, <1>2 DEF ToSet

-------------------------------------------------------------------------------
(* What trimming keeps *)

Untrimmed(config, s) == [config |-> config, entries |-> s, bytes |-> TotalSize(s), revision |-> 0, active |-> TRUE]

LEMMA UntrimmedAccounted ==
    ASSUME NEW C, NEW S, Limited(C), Sized(S), NEW config \in C, NEW s \in Seq(S), Distinct(s)
    PROVE /\ Untrimmed(config, s) \in StoreOf(C, S)
          /\ Accounted(Untrimmed(config, s))
          /\ Untrimmed(config, s).entries = s
          /\ Untrimmed(config, s).config = config
          /\ NewStore(config, s) = Trim(Untrimmed(config, s))
<1>1. TotalSize(s) \in Nat
  BY OctetsFinite
<1> QED
  BY <1>1 DEF Untrimmed, StoreOf, Accounted, NewStore

\* What fits as a whole is taken over as a whole.
LEMMA NewStoreOfFitting ==
    ASSUME NEW C, NEW S, Limited(C), Sized(S), NEW config \in C, NEW s \in Seq(S), Distinct(s),
           Fits(config, s, TotalSize(s))
    PROVE NewStore(config, s).entries = s
<1> DEFINE full == Untrimmed(config, s)
           k == FirstKept(full)
<1>1. /\ full \in StoreOf(C, S) /\ Accounted(full)
      /\ full.entries = s /\ full.config = config /\ NewStore(config, s) = Trim(full)
  BY UntrimmedAccounted
<1> HIDE DEF full
<1>2. /\ k \in 1..Len(s) + 1
      /\ Trim(full).entries = From(s, k)
      /\ \A j \in 1..k - 1 : ~Fits(config, From(s, j), TotalSize(From(s, j)))
  BY <1>1, Trimming
<1> HIDE DEF k
<1>3. From(s, 1) = s
  BY SubSeqFull DEF From
<1>4. 1 \notin 1..k - 1
  BY <1>2, <1>3
<1>5. k = 1
  BY <1>2, <1>4
<1> QED
  BY <1>1, <1>2, <1>3, <1>5

\* An entry that trimming pops does not fit beside what is kept.
LEMMA PoppedToFit ==
    ASSUME NEW C, NEW S, Limited(C), Sized(S), NEW full \in StoreOf(C, S), Accounted(full), NEW a \in Seq(S),
           NEW s, Joined(s, a, full.entries),
           LET kept == Trim(full).entries
           IN  /\ Len(s) - Len(kept) > 0
               /\ s[Len(s) - Len(kept)] \notin ToSet(a)
    PROVE LET kept == Trim(full).entries
              more == <<s[Len(s) - Len(kept)]>> \o kept
          IN  ~Fits(full.config, more, TotalSize(more))
<1> DEFINE t == full.entries
           k == FirstKept(full)
           kept == Trim(full).entries
           last == Len(s) - Len(kept)
<1>1. last > 0 /\ s[last] \notin ToSet(a)
  OBVIOUS
<1>2. /\ t \in Seq(S) /\ k \in 1..Len(t) + 1 /\ kept = From(t, k)
      /\ \A j \in 1..k - 1 : ~Fits(full.config, From(t, j), TotalSize(From(t, j)))
  BY Trimming DEF StoreOf
<1> SUFFICES ~Fits(full.config, <<s[last]>> \o kept, TotalSize(<<s[last]>> \o kept))
  OBVIOUS
<1> HIDE DEF t, k, kept
<1>3. Len(kept) = Len(t) + 1 - k
  BY <1>2, Split
<1>4. /\ s \in Seq(S) /\ Len(s) = Len(a) + Len(t)
      /\ \A i \in 1..Len(a) : s[i] = a[i]
      /\ \A i \in 1..Len(t) : s[Len(a) + i] = t[i]
      /\ DOMAIN a = 1..Len(a)
  <2>1. s = a \o t
    BY DEF t, Joined
  <2> QED
    BY <1>2, <2>1, Concat
<1>5. last = Len(a) + (k - 1)
  BY <1>2, <1>3, <1>4
<1>6. k # 1
  <2> SUFFICES ASSUME k = 1 PROVE FALSE
    OBVIOUS
  <2>1. last \in 1..Len(a)
    BY <1>1, <1>4, <1>5
  <2>2. s[last] \in ToSet(a)
    BY <1>4, <2>1 DEF ToSet
  <2> QED
    BY <1>1, <2>2
<1> DEFINE j == k - 1
<1>7. j \in 1..Len(t) /\ j \in 1..k - 1 /\ s[last] = t[j] /\ j + 1 = k
  <2>1. j \in 1..Len(t) /\ j \in 1..k - 1 /\ j + 1 = k
    BY <1>2, <1>6
  <2>2. last = Len(a) + j
    BY <1>5
  <2> HIDE DEF j, last
  <2> QED
    BY <1>4, <2>1, <2>2
<1> HIDE DEF j, last
<1>8. From(t, j) = <<t[j]>> \o From(t, j + 1)
  BY <1>2, <1>7, Around
<1> QED
  BY <1>2, <1>7, <1>8

\* A reply that fits alone survives its own write.
LEMMA NewestSurvives ==
    ASSUME NEW C, NEW S, Limited(C), Sized(S), NEW full \in StoreOf(C, S), Accounted(full),
           Len(full.entries) > 0, full.entries[Len(full.entries)].reply.size <= full.config.max_bytes
    PROVE FirstKept(full) \in 1..Len(full.entries)
<1> DEFINE t == full.entries
           k == FirstKept(full)
           n == Len(t)
           e == t[n]
           c == <<e>>
<1>1. /\ t \in Seq(S) /\ k \in 1..n + 1
      /\ \A j \in 1..k - 1 : ~Fits(full.config, From(t, j), TotalSize(From(t, j)))
  BY Trimming DEF StoreOf
<1>2. full.config \in C /\ full.config.max_items \in Nat \ {0} /\ full.config.max_bytes \in Nat
  BY DEF StoreOf, Limited
<1>3. n \in 1..n /\ n \in Nat /\ e \in S
  BY <1>1
<1>4. From(t, n) = c \o From(t, n + 1)
  <2> HIDE DEF t
  <2> QED
    BY <1>1, <1>3, Around
<1>5. From(t, n + 1) = << >>
  <2>1. n + 1 \in Int /\ n \in Int /\ n < n + 1
    BY <1>3
  <2> HIDE DEF n
  <2> QED
    BY <2>1, SubSeqEmpty DEF From, n
<1>6. c \in Seq(S) /\ Len(c) = 1 /\ TotalSize(c) = e.reply.size /\ c \o << >> = c
  <2>1. TotalSize(c) = e.reply.size
    BY <1>3, SizeOfOne
  <2> QED
    BY <1>3, <2>1
<1>7. From(t, n) = c
  BY <1>4, <1>5, <1>6
<1>8. Fits(full.config, c, TotalSize(c))
  <2>1. e.reply.size \in Nat
    BY <1>3 DEF Sized
  <2> HIDE DEF c
  <2> QED
    BY <1>2, <1>6, <2>1 DEF Fits
<1> HIDE DEF k, t, n
<1>9. n \notin 1..k - 1
  BY <1>1, <1>7, <1>8
<1> QED
  BY <1>1, <1>3, <1>9 DEF k, t, n
===============================================================================
