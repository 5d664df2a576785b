-------------------------- MODULE TrafficCaptureProofs --------------------------
(***************************************************************************)
(* The traffic store keeps the newest records, for any requests, rules and *)
(* limits.  TypeOK and NewestKept are inductive together: a limit bounds   *)
(* what is kept, and at least one record always fits, so that the record   *)
(* that is marked with a rule is the one just added.                       *)
(***************************************************************************)
EXTENDS TrafficCapture, SequenceTheorems, TLAPS

\* The sequence s is the end of the sequence t.
IsTail(s, t) == Len(s) <= Len(t) /\ \A i \in 1..Len(s) : s[i] = t[Len(t) - Len(s) + i]

IInv == TypeOK /\ NewestKept

-------------------------------------------------------------------------------
(* Sequences that only lose their oldest elements *)

\* Newest keeps at most n elements, the last ones.
LEMMA NewestElements ==
    ASSUME NEW S, NEW s \in Seq(S), NEW n \in Nat
    PROVE  /\ Newest(s, n) \in Seq(S)
           /\ Len(Newest(s, n)) = IF Len(s) <= n THEN Len(s) ELSE n
           /\ IsTail(Newest(s, n), s)
<1>1. CASE Len(s) <= n
  BY <1>1 DEF Newest, IsTail
<1>2. CASE Len(s) > n
  <2>1. Newest(s, n) = SubSeq(s, Len(s) - n + 1, Len(s))
    BY <1>2 DEF Newest
  <2>2. /\ SubSeq(s, Len(s) - n + 1, Len(s)) \in Seq(S)
        /\ Len(SubSeq(s, Len(s) - n + 1, Len(s))) = n
        /\ \A i \in 1..n : SubSeq(s, Len(s) - n + 1, Len(s))[i] = s[Len(s) - n + i]
    BY <1>2
  <2> QED
    BY <1>2, <2>1, <2>2 DEF IsTail
<1> QED
  BY <1>1, <1>2

\* A tail is what Newest keeps of the whole.
LEMMA TailIsNewest ==
    ASSUME NEW S, NEW s \in Seq(S), NEW t \in Seq(S)
    PROVE  IsTail(s, t) <=> Len(s) <= Len(t) /\ s = Newest(t, Len(s))
<1> DEFINE kept == Newest(t, Len(s))
<1>1. kept \in Seq(S) /\ IsTail(kept, t) /\ Len(kept) = IF Len(t) <= Len(s) THEN Len(t) ELSE Len(s)
  BY NewestElements
<1> HIDE DEF kept
<1>2. ASSUME IsTail(s, t) PROVE s = kept
  <2>1. Len(s) = Len(kept)
    BY <1>1, <1>2 DEF IsTail
  <2>2. \A i \in 1..Len(s) : s[i] = kept[i]
    BY <1>1, <1>2, <2>1 DEF IsTail
  <2> QED
    BY <1>1, <2>1, <2>2, SeqEqual
<1>3. ASSUME Len(s) <= Len(t), s = kept PROVE IsTail(s, t)
  BY <1>1, <1>3
<1> QED
  BY <1>2, <1>3 DEF kept, IsTail

\* Dropping old elements of a tail leaves a tail.
LEMMA TailOfTail ==
    ASSUME NEW S, NEW s \in Seq(S), NEW t \in Seq(S), NEW u \in Seq(S), IsTail(s, t), IsTail(t, u)
    PROVE  IsTail(s, u)
<1>1. ASSUME NEW i \in 1..Len(s) PROVE s[i] = u[Len(u) - Len(s) + i]
  <2>1. s[i] = t[Len(t) - Len(s) + i] /\ Len(t) - Len(s) + i \in 1..Len(t)
    BY DEF IsTail
  <2> QED
    BY <2>1 DEF IsTail
<1> QED
  BY <1>1 DEF IsTail

\* Both grow by one element.
LEMMA TailGrows ==
    ASSUME NEW S, NEW s \in Seq(S), NEW t \in Seq(S), NEW e \in S, IsTail(s, t)
    PROVE  IsTail(Append(s, e), Append(t, e))
  BY DEF IsTail

\* Only the last element changes, in both.
LEMMA TailMarked ==
    ASSUME NEW S, NEW s \in Seq(S), NEW t \in Seq(S), NEW e \in S, NEW f \in S,
           s # << >>, IsTail(s, Append(t, e))
    PROVE  [s EXCEPT ![Len(s)] = f] \in Seq(S) /\ IsTail([s EXCEPT ![Len(s)] = f], Append(t, f))
<1> DEFINE marked == [s EXCEPT ![Len(s)] = f]
<1>1. marked \in Seq(S) /\ Len(marked) = Len(s) /\ Len(s) >= 1
  BY EmptySeq
<1>2. \A i \in 1..Len(s) : marked[i] = IF i = Len(s) THEN f ELSE s[i]
  OBVIOUS
<1>3. Len(Append(t, e)) = Len(t) + 1 /\ Len(Append(t, f)) = Len(t) + 1
  OBVIOUS
<1>4. /\ \A k \in 1..Len(t) : Append(t, e)[k] = t[k] /\ Append(t, f)[k] = t[k]
      /\ Append(t, f)[Len(t) + 1] = f
  OBVIOUS
<1>5. /\ Len(s) <= Len(t) + 1
      /\ \A i \in 1..Len(s) : s[i] = Append(t, e)[Len(t) + 1 - Len(s) + i]
  BY <1>3 DEF IsTail
<1> HIDE DEF marked
<1>6. ASSUME NEW i \in 1..Len(s) PROVE marked[i] = Append(t, f)[Len(t) + 1 - Len(s) + i]
  <2>1. CASE i = Len(s)
    <3>1. Len(t) + 1 - Len(s) + i = Len(t) + 1
      BY <2>1
    <3> QED
      BY <1>2, <1>4, <2>1, <3>1
  <2>2. CASE i # Len(s)
    <3>1. Len(t) + 1 - Len(s) + i \in 1..Len(t)
      BY <1>5, <2>2
    <3> QED
      BY <1>2, <1>4, <1>5, <2>2, <3>1
  <2> QED
    BY <2>1, <2>2
<1>7. IsTail(marked, Append(t, f))
  <2> DEFINE longer == Append(t, f)
  <2>1. Len(longer) = Len(t) + 1 /\ Len(marked) = Len(s) /\ Len(s) <= Len(longer)
    BY <1>1, <1>3, <1>5
  <2>2. \A i \in 1..Len(s) : marked[i] = longer[Len(t) + 1 - Len(s) + i]
    BY <1>6
  <2> HIDE DEF longer
  <2>3. IsTail(marked, longer)
    BY <2>1, <2>2 DEF IsTail
  <2> QED
    BY <2>3 DEF longer
<1> QED
  BY <1>1, <1>7 DEF marked

-------------------------------------------------------------------------------
(* The steps *)

\* What a step has to establish of the records.
RecordsOK(s, t, n) == s \in Seq(RecordSet) /\ t \in Seq(RecordSet) /\ Len(s) <= n /\ IsTail(s, t)

LEMMA Records == ASSUME IInv PROVE RecordsOK(data, captured, max_items) /\ max_items \in Nat \ {0}
  BY TailIsNewest, LimitsAssumption DEF IInv, TypeOK, NewestKept, RecordsOK

LEMMA Kept == ASSUME RecordsOK(data, captured, max_items) PROVE NewestKept
  BY TailIsNewest DEF RecordsOK, NewestKept

\* A record is added, and old ones go.
LEMMA AddStep ==
    ASSUME IInv, NEW item \in RecordSet
    PROVE  RecordsOK(Add(data, item), Append(captured, item), max_items) /\ Add(data, item) # << >>
<1> DEFINE grown == Append(data, item)
<1>1. RecordsOK(data, captured, max_items) /\ max_items \in Nat \ {0}
  BY Records
<1>2. grown \in Seq(RecordSet) /\ Len(grown) >= 1 /\ Append(captured, item) \in Seq(RecordSet)
  BY <1>1 DEF RecordsOK
<1>3. IsTail(grown, Append(captured, item))
  BY <1>1, TailGrows DEF RecordsOK
<1> HIDE DEF grown
<1>4. /\ Newest(grown, max_items) \in Seq(RecordSet)
      /\ Len(Newest(grown, max_items)) = IF Len(grown) <= max_items THEN Len(grown) ELSE max_items
      /\ IsTail(Newest(grown, max_items), grown)
  BY <1>1, <1>2, NewestElements
<1>5. IsTail(Newest(grown, max_items), Append(captured, item))
  BY <1>2, <1>3, <1>4, TailOfTail
<1>6. Len(Newest(grown, max_items)) >= 1 /\ Len(Newest(grown, max_items)) <= max_items
  BY <1>1, <1>2, <1>4
<1>7. RecordsOK(Newest(grown, max_items), Append(captured, item), max_items)
  BY <1>2, <1>4, <1>5, <1>6 DEF RecordsOK
<1> QED
  BY <1>6, <1>7 DEF Add, grown

\* The step of a request leaves the settings; its records have to be right.
LEMMA ProgressTyped ==
    ASSUME IInv, NEW r \in Requests,
           NEW where \in {"routed", "unknown", "served", "not_found", "method_not_allowed", "loop_detected", "gone"},
           Goes(r, where), RecordsOK(data', captured', max_items),
           UNCHANGED <<max_items, record_unknown_traffic, configured>>
    PROVE  IInv'
<1>1. TypeOK'
  BY DEF IInv, TypeOK, Goes, RecordsOK
<1>2. NewestKept'
  BY TailIsNewest DEF RecordsOK, NewestKept
<1> QED
  BY <1>1, <1>2 DEF IInv

LEMMA RouteStep ==
    ASSUME IInv, NEW r \in Requests, NEW method \in BOOLEAN, NEW looped \in BOOLEAN, Route(r, method, looped)
    PROVE  IInv'
<1>1. RecordsOK(data', captured', max_items)
  BY Records DEF Route
<1> QED
  BY <1>1, ProgressTyped DEF Route

LEMMA DisconnectStep == ASSUME IInv, NEW r \in Requests, Disconnect(r) PROVE IInv'
<1>1. RecordsOK(data', captured', max_items)
  BY Records DEF Disconnect
<1> QED
  BY <1>1, ProgressTyped DEF Disconnect

LEMMA CaptureUnknownStep == ASSUME IInv, NEW r \in Requests, CaptureUnknown(r) PROVE IInv'
<1>1. [request |-> r, rule |-> NoRule] \in RecordSet
  BY DEF RecordSet
<1>2. RecordsOK(data', captured', max_items)
  BY <1>1, AddStep DEF CaptureUnknown
<1> QED
  BY <1>2, ProgressTyped DEF CaptureUnknown

LEMMA CaptureStep ==
    ASSUME IInv, NEW r \in Requests, NEW rule \in Rules \union {NoRule}, Capture(r, rule)
    PROVE  IInv'
<1> DEFINE plain == [request |-> r, rule |-> NoRule]
           marked == [request |-> r, rule |-> rule]
           added == Add(data, plain)
<1>1. plain \in RecordSet /\ marked \in RecordSet
  BY DEF RecordSet
<1>2. RecordsOK(added, Append(captured, plain), max_items) /\ added # << >>
  BY <1>1, AddStep
<1>3. captured \in Seq(RecordSet)
  BY DEF IInv, TypeOK
<1>4. captured' = Append(captured, marked)
  BY DEF Capture
<1>5. CASE rule = NoRule
  <2>1. data' = added /\ marked = plain
    BY <1>5 DEF Capture
  <2>2. RecordsOK(data', captured', max_items)
    BY <1>2, <1>4, <2>1
  <2> QED
    BY <2>2, ProgressTyped DEF Capture
<1>6. CASE rule # NoRule
  <2> HIDE DEF added
  <2>1. added \in Seq(RecordSet) /\ Len(added) <= max_items /\ IsTail(added, Append(captured, plain))
    BY <1>2 DEF RecordsOK
  <2>2. Len(added) >= 1
    BY <1>2, <2>1, EmptySeq
  <2>3. added[Len(added)] = plain
    <3>1. added[Len(added)] = Append(captured, plain)[Len(Append(captured, plain)) - Len(added) + Len(added)]
      BY <2>1, <2>2 DEF IsTail
    <3> QED
      BY <1>1, <1>3, <2>1, <3>1
  <2>4. data' = [added EXCEPT ![Len(added)] = marked]
    <3>1. data' = [added EXCEPT ![Len(added)].rule = rule]
      BY <1>2, <1>6 DEF Capture, PatchLast, added
    <3>2. [added[Len(added)] EXCEPT !.rule = rule] = marked
      BY <2>3
    <3> QED
      BY <3>1, <3>2
  <2>5. data' \in Seq(RecordSet) /\ IsTail(data', captured')
    BY <1>1, <1>2, <1>3, <1>4, <2>1, <2>4, TailMarked
  <2>6. Len(data') = Len(added)
    BY <2>1, <2>4
  <2>7. RecordsOK(data', captured', max_items)
    BY <1>1, <1>3, <1>4, <2>1, <2>5, <2>6 DEF RecordsOK
  <2> QED
    BY <2>7, ProgressTyped DEF Capture
<1> QED
  BY <1>5, <1>6

LEMMA PatchSettingsStep ==
    ASSUME IInv, NEW limit \in Limits, NEW unknown \in BOOLEAN, PatchSettings(limit, unknown)
    PROVE  IInv'
<1>1. RecordsOK(data, captured, max_items) /\ limit \in Nat
  BY Records, LimitsAssumption
<1>2. /\ data' \in Seq(RecordSet) /\ IsTail(data', data)
      /\ Len(data') = IF Len(data) <= limit THEN Len(data) ELSE limit
  BY <1>1, NewestElements DEF PatchSettings, RecordsOK
<1>3. IsTail(data', captured)
  BY <1>1, <1>2, TailOfTail DEF RecordsOK
<1>4. Len(data') <= limit
  BY <1>1, <1>2 DEF RecordsOK
<1>5. NewestKept'
  BY <1>1, <1>2, <1>3, TailIsNewest DEF NewestKept, RecordsOK, PatchSettings
<1> QED
  BY <1>2, <1>4, <1>5 DEF IInv, TypeOK, PatchSettings

LEMMA ClearTrafficStep == ASSUME IInv, ClearTraffic PROVE IInv'
<1>1. data' = << >> /\ captured' = << >> /\ << >> \in Seq(RecordSet) /\ Len(<< >>) = 0
  BY DEF ClearTraffic
<1>2. NewestKept'
  BY <1>1 DEF NewestKept, Newest
<1>3. Len(data') <= max_items
  BY <1>1, Records
<1> QED
  BY <1>1, <1>2, <1>3 DEF IInv, TypeOK, ClearTraffic

-------------------------------------------------------------------------------

LEMMA InitEstablishes == ASSUME Init PROVE IInv
<1>1. << >> \in Seq(RecordSet) /\ Len(<< >>) = 0 /\ max_items \in Nat
  BY LimitsAssumption DEF Init
<1>2. data = << >> /\ captured = << >> /\ Len(data) = 0 /\ Len(captured) = 0
  BY <1>1 DEF Init
<1>3. NewestKept
  BY <1>2 DEF NewestKept, Newest
<1>4. TypeOK
  <2>1. data \in Seq(RecordSet) /\ captured \in Seq(RecordSet) /\ Len(data) <= max_items
    BY <1>1, <1>2
  <2> QED
    BY <2>1 DEF Init, TypeOK
<1> QED
  BY <1>3, <1>4 DEF IInv

LEMMA NextPreserves == ASSUME IInv, [Next]_vars PROVE IInv'
<1>1. ASSUME NEW r \in Requests, NEW method \in BOOLEAN, NEW looped \in BOOLEAN, Route(r, method, looped)
      PROVE  IInv'
  BY <1>1, RouteStep
<1>2. ASSUME NEW r \in Requests, NEW rule \in Rules \union {NoRule}, Capture(r, rule) PROVE IInv'
  BY <1>2, CaptureStep
<1>3. ASSUME NEW r \in Requests, CaptureUnknown(r) PROVE IInv'
  BY <1>3, CaptureUnknownStep
<1>4. ASSUME NEW r \in Requests, Disconnect(r) PROVE IInv'
  BY <1>4, DisconnectStep
<1>5. ASSUME NEW limit \in Limits, NEW unknown \in BOOLEAN, PatchSettings(limit, unknown) PROVE IInv'
  BY <1>5, PatchSettingsStep
<1>6. ASSUME ClearTraffic PROVE IInv'
  BY <1>6, ClearTrafficStep
<1>7. ASSUME Configure PROVE IInv'
  BY <1>7 DEF Configure, IInv, TypeOK, NewestKept
<1>8. ASSUME UNCHANGED vars PROVE IInv'
  BY <1>8 DEF vars, IInv, TypeOK, NewestKept
<1> QED
  BY <1>1, <1>2, <1>3, <1>4, <1>5, <1>6, <1>7, <1>8 DEF Next

\* The two invariants hold together in every reachable state.
THEOREM Inductive == Spec => []IInv
<1>1. Init => IInv
  BY InitEstablishes
<1>2. IInv /\ [Next]_vars => IInv'
  BY NextPreserves
<1> QED
  BY <1>1, <1>2, PTL DEF Spec

\* Type correctness, and the limit, for any requests, rules and limits.
THEOREM TypeCorrect == Spec => []TypeOK
<1>1. IInv => TypeOK
  BY DEF IInv
<1> QED
  BY <1>1, Inductive, PTL

\* traffic_store.py: the store holds the newest records, each with its own rule.
THEOREM NewestRecords == Spec => []NewestKept
<1>1. IInv => NewestKept
  BY DEF IInv
<1> QED
  BY <1>1, Inductive, PTL

-------------------------------------------------------------------------------
(* What a step drops *)

\* Every record of s is still in t, unless t is full.
KeptOrFull(s, t, n) == (\A i \in DOMAIN s : s[i] \in ToSet(t)) \/ Len(t) = n

LEMMA ElementsInSet == ASSUME NEW S, NEW s \in Seq(S), NEW i \in 1..Len(s) PROVE s[i] \in ToSet(s)
  BY DEF ToSet

\* Newest drops elements only where it leaves as many as it may.
LEMMA NewestDrops ==
    ASSUME NEW S, NEW s \in Seq(S), NEW n \in Nat
    PROVE  Newest(s, n) = s \/ Len(Newest(s, n)) = n
  BY NewestElements DEF Newest

\* Adding a record to a store that is not full leaves the others where they are.
LEMMA AddKeeps ==
    ASSUME NEW S, NEW s \in Seq(S), NEW item \in S, NEW n \in Nat
    PROVE  \/ /\ Newest(Append(s, item), n) \in Seq(S)
              /\ Len(Newest(Append(s, item), n)) = Len(s) + 1
              /\ \A i \in 1..Len(s) : Newest(Append(s, item), n)[i] = s[i]
           \/ Len(Newest(Append(s, item), n)) = n
<1> DEFINE grown == Append(s, item)
<1>1. grown \in Seq(S) /\ Len(grown) = Len(s) + 1 /\ \A i \in 1..Len(s) : grown[i] = s[i]
  OBVIOUS
<1> HIDE DEF grown
<1>2. Newest(grown, n) = grown \/ Len(Newest(grown, n)) = n
  BY <1>1, NewestDrops
<1> QED
  BY <1>1, <1>2 DEF grown

LEMMA CaptureUnknownDrops ==
    ASSUME IInv, NEW r \in Requests, CaptureUnknown(r)
    PROVE  KeptOrFull(data, data', max_items')
<1> DEFINE item == [request |-> r, rule |-> NoRule]
<1>1. item \in RecordSet /\ data \in Seq(RecordSet) /\ max_items \in Nat
  BY Records DEF RecordSet, RecordsOK
<1>2. data' = Newest(Append(data, item), max_items) /\ max_items' = max_items
  BY DEF CaptureUnknown, Add
<1> HIDE DEF item
<1>3. CASE Len(data') = max_items'
  BY <1>3 DEF KeptOrFull
<1>4. CASE Len(data') # max_items'
  <2>1. data' \in Seq(RecordSet) /\ Len(data') = Len(data) + 1 /\ \A i \in 1..Len(data) : data'[i] = data[i]
    BY <1>1, <1>2, <1>4, AddKeeps
  <2>2. \A i \in 1..Len(data) : data'[i] \in ToSet(data')
    BY <1>1, <2>1, ElementsInSet
  <2> QED
    BY <1>1, <2>1, <2>2 DEF KeptOrFull
<1> QED
  BY <1>3, <1>4

LEMMA CaptureDrops ==
    ASSUME IInv, NEW r \in Requests, NEW rule \in Rules \union {NoRule}, Capture(r, rule)
    PROVE  KeptOrFull(data, data', max_items')
<1> DEFINE item == [request |-> r, rule |-> NoRule]
           marked == [request |-> r, rule |-> rule]
           added == Newest(Append(data, item), max_items)
<1>1. item \in RecordSet /\ marked \in RecordSet /\ data \in Seq(RecordSet) /\ max_items \in Nat
  BY Records DEF RecordSet, RecordsOK
<1>2. added \in Seq(RecordSet) /\ added # << >>
  BY <1>1, AddStep DEF Add, RecordsOK
<1>3. /\ data' = IF rule = NoRule THEN added ELSE [added EXCEPT ![Len(added)].rule = rule]
      /\ max_items' = max_items
  BY <1>2 DEF Capture, Add, PatchLast
<1>4. /\ Len(added) = max_items
      \/ /\ Len(added) = Len(data) + 1
         /\ \A i \in 1..Len(data) : added[i] = data[i]
  BY <1>1, AddKeeps
<1> HIDE DEF item, marked, added
<1>5. /\ data' \in Seq(RecordSet) /\ Len(data') = Len(added)
      /\ \A i \in 1..Len(added) : i # Len(added) => data'[i] = added[i]
  <2>1. ASSUME NEW i \in 1..Len(added) PROVE [added[i] EXCEPT !.rule = rule] \in RecordSet
    <3>1. added[i] \in RecordSet
      BY <1>2
    <3> QED
      BY <3>1 DEF RecordSet
  <2>2. CASE rule = NoRule
    BY <1>2, <1>3, <2>2
  <2>3. CASE rule # NoRule
    <3>1. data' = [added EXCEPT ![Len(added)] = [added[Len(added)] EXCEPT !.rule = rule]]
      BY <1>3, <2>3
    <3> QED
      BY <1>2, <2>1, <3>1
  <2> QED
    BY <2>2, <2>3
<1>6. CASE Len(added) = max_items
  BY <1>3, <1>5, <1>6 DEF KeptOrFull
<1>7. CASE Len(added) = Len(data) + 1 /\ \A i \in 1..Len(data) : added[i] = data[i]
  <2>1. \A i \in 1..Len(data) : data'[i] = data[i] /\ data'[i] \in ToSet(data')
    BY <1>1, <1>2, <1>5, <1>7, ElementsInSet
  <2> QED
    BY <1>1, <2>1 DEF KeptOrFull
<1> QED
  BY <1>4, <1>6, <1>7

LEMMA PatchSettingsDrops ==
    ASSUME IInv, NEW limit \in Limits, NEW unknown \in BOOLEAN, PatchSettings(limit, unknown)
    PROVE  KeptOrFull(data, data', max_items')
<1>1. data \in Seq(RecordSet) /\ limit \in Nat
  BY Records, LimitsAssumption DEF RecordsOK
<1>2. data' = data \/ Len(data') = max_items'
  BY <1>1, NewestDrops DEF PatchSettings
<1> QED
  BY <1>1, <1>2, ElementsInSet DEF KeptOrFull

\* The other steps leave the records.
LEMMA SameRecordsDrop == ASSUME IInv, UNCHANGED data PROVE KeptOrFull(data, data', max_items')
<1>1. data \in Seq(RecordSet)
  BY Records DEF RecordsOK
<1> QED
  BY <1>1, ElementsInSet DEF KeptOrFull

\* deque(maxlen) and the new deque of patch_settings: a record goes only when the store is
\* full with newer ones, or cleared.
THEOREM FullStoresDrop == Spec => DroppedOnlyWhenFull
<1> DEFINE Dropped == \A i \in DOMAIN data :
                          data[i] \in ToSet(data') \/ Len(data') = max_items' \/ captured' = << >>
<1>1. IInv /\ [Next]_vars => [Dropped]_vars
  <2> SUFFICES ASSUME IInv, Next PROVE Dropped
    OBVIOUS
  <2>1. ASSUME NEW r \in Requests, NEW method \in BOOLEAN, NEW looped \in BOOLEAN, Route(r, method, looped)
        PROVE  KeptOrFull(data, data', max_items')
    BY <2>1, SameRecordsDrop DEF Route
  <2>2. ASSUME NEW r \in Requests, Disconnect(r) PROVE KeptOrFull(data, data', max_items')
    BY <2>2, SameRecordsDrop DEF Disconnect
  <2>3. ASSUME Configure PROVE KeptOrFull(data, data', max_items')
    BY <2>3, SameRecordsDrop DEF Configure
  <2>4. KeptOrFull(data, data', max_items') \/ captured' = << >>
    BY <2>1, <2>2, <2>3, CaptureDrops, CaptureUnknownDrops, PatchSettingsDrops DEF Next, ClearTraffic
  <2> QED
    BY <2>4 DEF KeptOrFull
<1> QED
  BY <1>1, Inductive, PTL DEF Spec, DroppedOnlyWhenFull
===============================================================================
