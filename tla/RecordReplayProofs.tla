-------------------------- MODULE RecordReplayProofs --------------------------
(***************************************************************************)
(* Invariants of RecordReplay, for any requests, configurations and sizes, *)
(* and its refinement of RecordingContract.                                *)
(*                                                                         *)
(* The invariants are not inductive alone.  The type of a key needs the    *)
(* request to hold a configuration the path really had; that trimming ends *)
(* within the limits needs the byte count to be right; the count stays     *)
(* right on a replacement only while no key is there twice.  IInv adds     *)
(* those facts.  What the entries are (Content) needs, on top, that the    *)
(* requests of the live generation hold the stored mock and that no        *)
(* request is ahead of the revision of its store.                          *)
(***************************************************************************)
EXTENDS RecordReplay, RecordingStoreProofs

\* What a request in flight has captured is a configuration of the path and a
\* generation that was made.
InFlight ==
    \A r \in Requests : requests[r].pc # "idle" =>
        /\ requests[r].mock \in Mocks
        /\ requests[r].http \in HttpRequests
        /\ requests[r].store \in 0..Len(stores)

Kept == (\A g \in DOMAIN stores : Bounded(stores[g])) /\ Distinct(log)

IInv == TypeOK /\ OneLiveGeneration /\ InFlight /\ Kept

LEMMA Constants ==
    /\ Sized(EntrySet)
    /\ Limited(Configs)
    /\ StoreSet = StoreOf(Configs, EntrySet)
<1>1. Sized(EntrySet)
  BY RepliesAssumption DEF Sized, EntrySet, Sizes
<1>2. Limited(Configs)
  BY MocksAssumption DEF Limited, Configs, RecordingConfig
<1> QED
  BY <1>1, <1>2 DEF StoreSet, StoreOf

\* What an upstream sends, as part of the type of an entry.
LEMMA SentTyped == ASSUME NEW sent \in Replies PROVE sent.size \in Sizes /\ sent.valid \in BOOLEAN
<1>1. sent \in [size : Nat \ {0}, valid : BOOLEAN]
  BY RepliesAssumption
<1> QED
  BY <1>1 DEF Sizes

LEMMA InitEstablishes == ASSUME Init PROVE IInv
<1>1. TypeOK
  <2>1. Idle \in RequestSet
    BY DEF Idle, RequestSet, NoStore
  <2>2. stores \in Seq(StoreSet) /\ log \in Seq(EntrySet) /\ registered \in 0..Len(stores)
    BY DEF Init, NoStore
  <2> QED
    BY <2>1, <2>2 DEF Init, TypeOK
<1>2. OneLiveGeneration
  BY DEF Init, OneLiveGeneration, NoStore
<1>3. InFlight
  BY DEF Init, InFlight, Idle
<1>4. Kept
  BY DEF Init, Kept, Distinct
<1> QED
  BY <1>1, <1>2, <1>3, <1>4 DEF IInv

-------------------------------------------------------------------------------
(* The steps of a mock request *)

LEMMA IdleTyped == Idle \in RequestSet /\ Idle.pc = "idle"
  BY DEF Idle, RequestSet, NoStore

\* An answer changes nothing but the request.
LEMMA AnswerStep ==
    ASSUME IInv, NEW r \in Requests, NEW kind \in Answers, Answer(r, kind),
           UNCHANGED <<saved, stores, registered, snapshot, log>>
    PROVE IInv'
<1>1. /\ requests \in [Requests -> RequestSet]
      /\ requests' = [requests EXCEPT ![r] = Idle]
      /\ answer' = <<r, kind>>
  BY DEF IInv, TypeOK, Answer
<1>2. TypeOK'
  BY <1>1, IdleTyped DEF IInv, TypeOK
<1>3. OneLiveGeneration'
  BY DEF IInv, OneLiveGeneration
<1>4. InFlight'
  BY <1>1, IdleTyped DEF IInv, InFlight
<1>5. Kept'
  BY DEF IInv, Kept
<1> QED
  BY <1>2, <1>3, <1>4, <1>5 DEF IInv

LEMMA DispatchStep ==
    ASSUME IInv, NEW r \in Requests, NEW http \in HttpRequests, Dispatch(r, http)
    PROVE IInv'
<1> DEFINE q == [pc |-> "dispatched", mock |-> saved, store |-> registered, http |-> http, revision |-> 0]
<1>1. /\ requests \in [Requests -> RequestSet]
      /\ requests' = [requests EXCEPT ![r] = q]
      /\ answer' = NoAnswer
      /\ UNCHANGED <<saved, stores, registered, snapshot, log>>
  BY DEF IInv, TypeOK, Dispatch
<1>2. saved \in Mocks /\ registered \in 0..Len(stores) /\ stores \in Seq(StoreSet)
  BY DEF IInv, TypeOK, Dispatch
<1>3. q \in RequestSet
  BY <1>2 DEF RequestSet
<1>4. TypeOK'
  BY <1>1, <1>3 DEF IInv, TypeOK
<1>5. OneLiveGeneration'
  BY <1>1 DEF IInv, OneLiveGeneration
<1>6. InFlight'
  BY <1>1, <1>2 DEF IInv, InFlight
<1>7. Kept'
  BY <1>1 DEF IInv, Kept
<1> QED
  BY <1>4, <1>5, <1>6, <1>7 DEF IInv

LEMMA IdentifyStep ==
    ASSUME IInv, NEW r \in Requests, Identify(r)
    PROVE IInv'
<1>1. UNCHANGED <<saved, stores, registered, snapshot, log>> /\ requests[r].pc = "dispatched"
  BY DEF Identify
<1>2. CASE Replay(r)
  <2>1. PICK kind \in {"replayed", "recording_not_found"} : Answer(r, kind)
    BY <1>2 DEF Replay
  <2> QED
    BY <1>1, <2>1, AnswerStep DEF Answers
<1>3. CASE Static(r)
  BY <1>1, <1>3, AnswerStep DEF Static, Answers
<1>4. CASE Forward(r)
  <2>1. CASE Answer(r, "forbidden")
    BY <1>1, <2>1, AnswerStep DEF Answers
  <2>2. CASE ~Answer(r, "forbidden")
    <3> DEFINE revision == IF requests[r].store = NoStore THEN 0 ELSE stores[requests[r].store].revision
    <3>1. /\ requests' = [requests EXCEPT ![r].pc = "upstream", ![r].revision = revision]
          /\ answer' = NoAnswer
      BY <1>4, <2>2 DEF Forward
    <3>2. revision \in Nat
      <4>1. requests[r].store \in 0..Len(stores) /\ stores \in Seq(StoreSet)
        BY <1>1 DEF IInv, TypeOK, InFlight
      <4>2. CASE requests[r].store = NoStore
        BY <4>2
      <4>3. CASE requests[r].store # NoStore
        <5>1. stores[requests[r].store] \in StoreSet
          BY <4>1, <4>3 DEF NoStore
        <5> QED
          BY <4>3, <5>1 DEF StoreSet
      <4> QED
        BY <4>2, <4>3
    <3> HIDE DEF revision
    <3>3. requests \in [Requests -> RequestSet]
      BY DEF IInv, TypeOK
    <3>4. /\ requests' \in [Requests -> RequestSet]
          /\ \A t \in Requests : /\ requests'[t].mock = requests[t].mock
                                 /\ requests'[t].http = requests[t].http
                                 /\ requests'[t].store = requests[t].store
                                 /\ t # r => requests'[t].pc = requests[t].pc
      BY <3>1, <3>2, <3>3 DEF RequestSet
    <3>5. TypeOK'
      BY <1>1, <3>1, <3>4 DEF IInv, TypeOK
    <3>6. OneLiveGeneration'
      BY <1>1 DEF IInv, OneLiveGeneration
    <3>7. InFlight'
      <4>1. ASSUME NEW t \in Requests, requests'[t].pc # "idle" PROVE requests[t].pc # "idle"
        BY <1>1, <3>4, <4>1
      <4> QED
        BY <1>1, <3>4, <4>1 DEF IInv, InFlight
    <3>8. Kept'
      BY <1>1 DEF IInv, Kept
    <3> QED
      BY <3>5, <3>6, <3>7, <3>8 DEF IInv
  <2> QED
    BY <2>1, <2>2
<1> QED
  BY <1>2, <1>3, <1>4 DEF Identify

LEMMA FailureStep ==
    ASSUME IInv, NEW r \in Requests, UpstreamFailure(r)
    PROVE IInv'
  BY AnswerStep DEF UpstreamFailure, Answers

LEMMA CancelStep ==
    ASSUME IInv, NEW r \in Requests, Cancel(r)
    PROVE IInv'
  BY AnswerStep DEF Cancel, Answers

LEMMA SaveBounded ==
    ASSUME NEW store \in StoreSet, Bounded(store), NEW key, NEW reply, NEW revision,
           [id |-> key, reply |-> reply] \in EntrySet
    PROVE /\ Save(store, key, reply, revision) \in StoreSet
          /\ Bounded(Save(store, key, reply, revision))
          /\ Save(store, key, reply, revision).config = store.config
          /\ Save(store, key, reply, revision).active = store.active
<1>1. store \in StoreOf(Configs, EntrySet) /\ Accounted(store)
  BY Constants DEF Bounded
<1> DEFINE written == Write(store, key, reply)
<1>2. written \in StoreSet
  BY <1>1, Constants, WriteBounded
<1>3. Bounded(written)
  BY <1>1, Constants, WriteBounded
<1>4. written.config = store.config
  BY <1>1, Constants, WriteBounded
<1>5. written.active = store.active
  BY <1>1, Constants, WriteBounded
<1> HIDE DEF written
<1>6. Save(store, key, reply, revision) \in {written, store}
  BY DEF Save, written
<1> QED
  BY <1>2, <1>3, <1>4, <1>5, <1>6

LEMMA ReplyStep ==
    ASSUME IInv, NEW r \in Requests, NEW sent \in Replies, UpstreamReply(r, sent)
    PROVE IInv'
<1> DEFINE q == requests[r]
           reply == [upstream |-> q.mock.proxy_host, size |-> sent.size, valid |-> sent.valid]
           outcome == SaveOutcome(stores[q.store], reply, q.revision)
           entry == [id |-> KeyOf(r), reply |-> reply]
<1>1. /\ q.pc = "upstream" /\ q.mock \in Mocks /\ q.http \in HttpRequests /\ q.store \in 0..Len(stores)
      /\ stores \in Seq(StoreSet) /\ requests \in [Requests -> RequestSet]
  BY DEF IInv, TypeOK, InFlight, UpstreamReply
<1>2. UNCHANGED <<saved, registered, snapshot>>
  BY DEF UpstreamReply
<1>3. CASE q.store = NoStore
  BY <1>2, <1>3, AnswerStep DEF UpstreamReply, Answers
<1>4. CASE q.store # NoStore
  <2> DEFINE g == q.store
  <2>1. g \in 1..Len(stores) /\ stores[g] \in StoreSet /\ Bounded(stores[g])
    BY <1>1, <1>4 DEF NoStore, IInv, Kept
  <2>2. entry \in EntrySet
    <3>1. stores[g].config \in Configs
      BY <2>1 DEF StoreSet
    <3>2. KeyOf(r) \in Keys
      BY <1>1, <3>1 DEF KeyOf, Keys
    <3> HIDE DEF q
    <3>3. reply \in [upstream : {m.proxy_host : m \in Mocks}, size : Sizes, valid : BOOLEAN]
      BY <1>1, SentTyped
    <3> QED
      BY <3>2, <3>3 DEF EntrySet
  <2>3. /\ stores' = [stores EXCEPT ![g] = Save(stores[g], KeyOf(r), reply, q.revision)]
        /\ Answer(r, outcome)
        /\ log' = IF outcome = "stored" THEN Append(Without(log, KeyOf(r)), entry) ELSE log
    BY <1>4 DEF UpstreamReply
  <2> DEFINE new == Save(stores[g], KeyOf(r), reply, q.revision)
  <2>4. new \in StoreSet
    BY <2>1, <2>2, SaveBounded
  <2>5. Bounded(new)
    BY <2>1, <2>2, SaveBounded
  <2>6. new.config = stores[g].config
    BY <2>1, <2>2, SaveBounded
  <2>7. new.active = stores[g].active
    BY <2>1, <2>2, SaveBounded
  <2>8. outcome \in Answers
    BY DEF SaveOutcome, Answers
  <2>9. log' \in Seq(EntrySet) /\ Distinct(log')
    <3>1. log \in Seq(EntrySet) /\ Distinct(log)
      BY DEF IInv, TypeOK, Kept
    <3> HIDE DEF entry
    <3>2. entry.id = KeyOf(r)
      BY DEF entry
    <3>3. Append(Without(log, entry.id), entry) \in Seq(EntrySet)
      BY <2>2, <3>1, Constants, Appended
    <3>4. Distinct(Append(Without(log, entry.id), entry))
      BY <2>2, <3>1, Constants, Appended
    <3> QED
      BY <2>3, <3>1, <3>2, <3>3, <3>4
  <2> HIDE DEF new, q, outcome, entry
  <2>10. requests' = [requests EXCEPT ![r] = Idle] /\ answer' = <<r, outcome>>
    BY <2>3 DEF Answer
  <2>11. /\ stores' = [stores EXCEPT ![g] = new]
         /\ stores' \in Seq(StoreSet) /\ Len(stores') = Len(stores) /\ DOMAIN stores' = DOMAIN stores
    BY <1>1, <2>1, <2>3, <2>4 DEF new
  <2>12. TypeOK'
    BY <1>2, <2>8, <2>9, <2>10, <2>11, IdleTyped DEF IInv, TypeOK
  <2>13. OneLiveGeneration'
    <3>1. \A k \in DOMAIN stores : stores'[k].active = stores[k].active /\ stores'[k].config = stores[k].config
      BY <2>1, <2>6, <2>7, <2>11
    <3>2. registered \in DOMAIN stores \/ registered = NoStore
      BY <1>1 DEF IInv, TypeOK, NoStore
    <3> QED
      BY <1>2, <2>11, <3>1, <3>2 DEF IInv, OneLiveGeneration
  <2>14. InFlight'
    BY <1>1, <2>10, <2>11, IdleTyped DEF IInv, InFlight
  <2>15. Kept'
    BY <2>5, <2>9, <2>11 DEF IInv, Kept
  <2> QED
    BY <2>12, <2>13, <2>14, <2>15 DEF IInv
<1> QED
  BY <1>3, <1>4

-------------------------------------------------------------------------------
(* The administrative steps *)

LEMMA RetiredStores ==
    ASSUME IInv
    PROVE /\ Retired \in Seq(StoreSet) /\ Len(Retired) = Len(stores)
          /\ \A g \in DOMAIN stores : ~Retired[g].active /\ Bounded(Retired[g])
<1>1. stores \in Seq(StoreSet) /\ DOMAIN stores = 1..Len(stores)
  BY DEF IInv, TypeOK
<1>2. ASSUME NEW g \in DOMAIN stores PROVE Retired[g] \in StoreSet /\ ~Retired[g].active /\ Bounded(Retired[g])
  <2>1. stores[g] \in StoreSet /\ Bounded(stores[g])
    BY <1>1 DEF IInv, Kept
  <2>2. CASE g = registered
    <3> DEFINE old == Retire(stores[g])
    <3>1. /\ old \in StoreSet /\ old.active = FALSE /\ old.entries = stores[g].entries
          /\ old.bytes = stores[g].bytes /\ old.config = stores[g].config
      BY <2>1 DEF Retire, StoreSet
    <3> HIDE DEF old
    <3>2. Bounded(old)
      BY <2>1, <3>1 DEF Bounded, Accounted
    <3>3. Retired[g] = old
      BY <2>2 DEF Retired, old
    <3> QED
      BY <3>1, <3>2, <3>3
  <2>3. CASE g # registered
    <3>1. Retired[g] = stores[g]
      BY <2>3 DEF Retired
    <3> QED
      BY <2>1, <2>3, <3>1 DEF IInv, OneLiveGeneration
  <2> QED
    BY <2>2, <2>3
<1>3. Retired \in Seq(StoreSet) /\ Len(Retired) = Len(stores)
  <2>1. Retired = [g \in 1..Len(stores) |-> Retired[g]]
    BY <1>1 DEF Retired
  <2>2. Len(stores) \in Nat
    BY <1>1
  <2> QED
    BY <1>1, <1>2, <2>1, <2>2
<1> QED
  BY <1>2, <1>3

\* Whatever the new generation is built from, it is the one live store.
LEMMA InitializeStep ==
    ASSUME IInv, NEW mock \in Mocks, NEW entries \in Seq(EntrySet), Distinct(entries),
           Initialize(mock, entries), log' \in Seq(EntrySet), Distinct(log')
    PROVE IInv'
<1>1. /\ Retired \in Seq(StoreSet) /\ Len(Retired) = Len(stores) /\ Len(stores) \in Nat
      /\ \A g \in 1..Len(stores) : ~Retired[g].active /\ Bounded(Retired[g])
      /\ requests \in [Requests -> RequestSet]
  BY RetiredStores DEF IInv, TypeOK
<1>2. saved' = mock /\ answer' = NoAnswer /\ UNCHANGED <<requests, snapshot>>
  BY DEF Initialize
<1>3. \A r \in Requests : requests[r].pc # "idle" =>
         requests[r].mock \in Mocks /\ requests[r].http \in HttpRequests /\ requests[r].store \in 0..Len(stores)
  BY DEF IInv, InFlight
<1>4. mock # NoMock
  BY NoMockAssumption
<1>5. CASE mock.recording = NoRecording
  <2>1. stores' = Retired /\ registered' = 0
    BY <1>5 DEF Initialize, NoStore
  <2>2. TypeOK'
    BY <1>1, <1>2, <2>1 DEF IInv, TypeOK
  <2>3. OneLiveGeneration'
    BY <1>1, <1>2, <1>5, <2>1 DEF OneLiveGeneration, NoStore
  <2>4. InFlight'
    BY <1>1, <1>2, <1>3, <2>1 DEF InFlight
  <2>5. Kept'
    BY <1>1, <2>1 DEF Kept
  <2> QED
    BY <2>2, <2>3, <2>4, <2>5 DEF IInv
<1>6. CASE mock.recording # NoRecording
  <2> DEFINE new == NewStore(mock.recording, entries)
  <2>1. mock.recording \in Configs
    BY <1>6 DEF Configs
  <2>2. new \in StoreSet
    BY <2>1, Constants, NewStoreBounded
  <2>3. Bounded(new)
    BY <2>1, Constants, NewStoreBounded
  <2>4. new.config = mock.recording
    BY ConfigOfNew
  <2>5. new.active = TRUE
    BY <2>1, Constants, NewStoreBounded
  <2>6. stores' = Append(Retired, new) /\ registered' = Len(stores) + 1
    BY <1>6 DEF Initialize
  <2> HIDE DEF new
  <2>7. /\ stores' \in Seq(StoreSet) /\ Len(stores') = Len(stores) + 1
        /\ \A g \in 1..Len(stores) : stores'[g] = Retired[g]
        /\ stores'[Len(stores) + 1] = new
        /\ DOMAIN stores' = 1..Len(stores) + 1
    BY <1>1, <2>2, <2>6
  <2>8. TypeOK'
    BY <1>1, <1>2, <2>6, <2>7 DEF IInv, TypeOK
  <2>9. ASSUME NEW g \in 1..Len(stores) + 1
        PROVE (stores'[g].active <=> g = Len(stores) + 1) /\ Bounded(stores'[g])
    <3>1. CASE g = Len(stores) + 1
      <4>1. stores'[g] = new
        BY <2>7, <3>1
      <4> QED
        BY <2>3, <2>5, <3>1, <4>1
    <3>2. CASE g # Len(stores) + 1
      <4>1. g \in 1..Len(stores)
        BY <1>1, <3>2
      <4>2. stores'[g] = Retired[g]
        BY <2>7, <4>1
      <4> QED
        BY <1>1, <3>2, <4>1, <4>2
    <3> QED
      BY <3>1, <3>2
  <2>10. OneLiveGeneration'
    BY <1>1, <1>2, <1>4, <1>6, <2>4, <2>6, <2>7, <2>9 DEF OneLiveGeneration, NoStore
  <2>11. InFlight'
    BY <1>1, <1>2, <1>3, <2>7 DEF InFlight
  <2>12. Kept'
    BY <2>7, <2>9 DEF Kept
  <2> QED
    BY <2>8, <2>10, <2>11, <2>12 DEF IInv
<1> QED
  BY <1>5, <1>6

LEMMA NoEntries == << >> \in Seq(EntrySet) /\ Distinct(<< >>)
  BY DEF Distinct

LEMMA RegisteredEntries ==
    ASSUME IInv
    PROVE Entries(registered) \in Seq(EntrySet) /\ Distinct(Entries(registered))
<1>1. registered \in 0..Len(stores) /\ stores \in Seq(StoreSet)
  BY DEF IInv, TypeOK
<1>2. CASE registered = NoStore
  BY <1>2, NoEntries DEF Entries
<1>3. CASE registered # NoStore
  <2>1. stores[registered] \in StoreSet /\ Bounded(stores[registered])
    BY <1>1, <1>3 DEF NoStore, IInv, Kept
  <2> QED
    BY <1>3, <2>1 DEF Entries, StoreSet, Bounded, Accounted
<1> QED
  BY <1>2, <1>3

LEMMA PutStep == ASSUME IInv, NEW mock \in Mocks, PutMock(mock) PROVE IInv'
  BY InitializeStep, NoEntries DEF PutMock

LEMMA PatchStep == ASSUME IInv, NEW mock \in Mocks, PatchMock(mock) PROVE IInv'
<1>1. log \in Seq(EntrySet) /\ Distinct(log)
  BY DEF IInv, TypeOK, Kept
<1>2. CASE PreserveRecordings(saved, mock)
  BY <1>1, <1>2, InitializeStep, RegisteredEntries DEF PatchMock
<1>3. CASE ~PreserveRecordings(saved, mock)
  BY <1>3, InitializeStep, NoEntries DEF PatchMock
<1> QED
  BY <1>2, <1>3

LEMMA ImportStep == ASSUME IInv, ImportSnapshot PROVE IInv'
<1>1. snapshot.mock \in Mocks /\ snapshot.recordings \in Seq(EntrySet)
  BY DEF IInv, TypeOK, ImportSnapshot
<1>2. Distinct(snapshot.recordings)
  BY DEF ImportSnapshot, ValidRecordings, Distinct
<1> QED
  BY <1>1, <1>2, InitializeStep DEF ImportSnapshot

LEMMA DeleteMocksStep == ASSUME IInv, DeleteMocks PROVE IInv'
<1>1. /\ Retired \in Seq(StoreSet) /\ Len(Retired) = Len(stores) /\ Len(stores) \in Nat
      /\ \A g \in 1..Len(stores) : ~Retired[g].active /\ Bounded(Retired[g])
  BY RetiredStores DEF IInv, TypeOK
<1>2. /\ saved' = NoMock /\ stores' = Retired /\ registered' = 0 /\ log' = << >> /\ answer' = NoAnswer
      /\ UNCHANGED <<requests, snapshot>>
  BY DEF DeleteMocks, NoStore
<1>3. TypeOK'
  BY <1>1, <1>2, NoEntries DEF IInv, TypeOK
<1>4. OneLiveGeneration'
  BY <1>1, <1>2 DEF OneLiveGeneration, NoStore
<1>5. InFlight'
  BY <1>1, <1>2 DEF IInv, InFlight
<1>6. Kept'
  BY <1>1, <1>2, NoEntries DEF Kept
<1> QED
  BY <1>3, <1>4, <1>5, <1>6 DEF IInv

\* A deletion of recordings replaces the registered store by one that differs in
\* its entries, bytes and revision only.
LEMMA DeletionStep ==
    ASSUME IInv, registered # NoStore,
           NEW new \in StoreSet, Bounded(new),
           new.config = stores[registered].config, new.active = stores[registered].active,
           stores' = [stores EXCEPT ![registered] = new],
           log' \in Seq(EntrySet), Distinct(log'), answer' = NoAnswer,
           UNCHANGED <<saved, registered, requests, snapshot>>
    PROVE IInv'
<1>1. registered \in 1..Len(stores) /\ stores \in Seq(StoreSet)
  BY DEF IInv, TypeOK, NoStore
<1>2. /\ stores' \in Seq(StoreSet) /\ Len(stores') = Len(stores) /\ DOMAIN stores' = DOMAIN stores
      /\ \A g \in DOMAIN stores : stores'[g] = IF g = registered THEN new ELSE stores[g]
  BY <1>1
<1>3. TypeOK'
  BY <1>1, <1>2 DEF IInv, TypeOK
<1>4. OneLiveGeneration'
  BY <1>1, <1>2 DEF IInv, OneLiveGeneration
<1>5. InFlight'
  BY <1>2 DEF IInv, InFlight
<1>6. Kept'
  BY <1>2 DEF IInv, Kept
<1> QED
  BY <1>3, <1>4, <1>5, <1>6 DEF IInv

LEMMA DeleteRecordingsStep == ASSUME IInv, DeleteRecordings PROVE IInv'
<1> DEFINE old == stores[registered]
           new == DeleteAll(old)
<1>1. registered # NoStore /\ old \in StoreSet /\ Bounded(old)
  BY DEF DeleteRecordings, IInv, TypeOK, Kept, NoStore
<1>2. new \in StoreSet /\ Bounded(new)
  BY <1>1, Constants, DeleteBounded
<1>3. new.config = old.config /\ new.active = old.active
  BY <1>1 DEF DeleteAll, StoreSet
<1>4. /\ stores' = [stores EXCEPT ![registered] = new] /\ log' = << >> /\ answer' = NoAnswer
      /\ UNCHANGED <<saved, registered, requests, snapshot>>
  BY DEF DeleteRecordings
<1> HIDE DEF new
<1> QED
  BY <1>1, <1>2, <1>3, <1>4, NoEntries, DeletionStep

LEMMA DeleteRecordingStep == ASSUME IInv, NEW key, DeleteRecording(key) PROVE IInv'
<1> DEFINE old == stores[registered]
           new == DeleteOne(old, key)
<1>1. registered # NoStore /\ old \in StoreSet /\ Bounded(old) /\ Holds(old.entries, key)
  BY DEF DeleteRecording, IInv, TypeOK, Kept, NoStore
<1>2. new \in StoreSet /\ Bounded(new)
  BY <1>1, Constants, DeleteBounded
<1>3. new.config = old.config /\ new.active = old.active
  BY <1>1 DEF DeleteOne, StoreSet
<1>4. /\ stores' = [stores EXCEPT ![registered] = new] /\ log' = Without(log, key) /\ answer' = NoAnswer
      /\ UNCHANGED <<saved, registered, requests, snapshot>>
  BY DEF DeleteRecording
<1>5. Without(log, key) \in Seq(EntrySet) /\ Distinct(Without(log, key))
  <2>1. log \in Seq(EntrySet) /\ Distinct(log)
    BY DEF IInv, TypeOK, Kept
  <2> QED
    BY <2>1, Constants, WithoutKey
<1> HIDE DEF new
<1> QED
  BY <1>1, <1>2, <1>3, <1>4, <1>5, DeletionStep

LEMMA ExportStep == ASSUME IInv, ExportSnapshot PROVE IInv'
<1>1. /\ saved \in Mocks \union {NoMock} /\ saved # NoMock /\ saved.recording # NoRecording
      /\ snapshot' = [mock |-> saved, recordings |-> stores[registered].entries]
      /\ answer' = NoAnswer
      /\ UNCHANGED <<saved, stores, registered, requests, log>>
  BY DEF ExportSnapshot, IInv, TypeOK
<1>2. registered # NoStore
  BY <1>1 DEF IInv, OneLiveGeneration
<1>3. stores[registered].entries \in Seq(EntrySet)
  BY <1>2, RegisteredEntries DEF Entries
<1>4. snapshot' \in [mock : Mocks, recordings : Seq(EntrySet)]
  BY <1>1, <1>3
<1>5. TypeOK'
  BY <1>1, <1>4 DEF IInv, TypeOK
<1>6. OneLiveGeneration' /\ InFlight' /\ Kept'
  BY <1>1 DEF IInv, OneLiveGeneration, InFlight, Kept
<1> QED
  BY <1>5, <1>6 DEF IInv

-------------------------------------------------------------------------------
(* The invariants *)

LEMMA NextPreserves == ASSUME IInv, [Next]_vars PROVE IInv'
<1>1. CASE UNCHANGED vars
  BY <1>1 DEF vars, IInv, TypeOK, OneLiveGeneration, InFlight, Kept
<1>2. ASSUME NEW r \in Requests, NEW http \in HttpRequests, Dispatch(r, http) PROVE IInv'
  BY <1>2, DispatchStep
<1>3. ASSUME NEW r \in Requests, Serve(r) PROVE IInv'
  BY <1>3, IdentifyStep, ReplyStep, FailureStep DEF Serve
<1>4. ASSUME NEW r \in Requests, Cancel(r) PROVE IInv'
  BY <1>4, CancelStep
<1>5. CASE Administer
  BY <1>5, PutStep, PatchStep, DeleteMocksStep, DeleteRecordingsStep, DeleteRecordingStep, ExportStep, ImportStep
     DEF Administer
<1> QED
  BY <1>1, <1>2, <1>3, <1>4, <1>5 DEF Next

\* The inductive invariant: every step of a request and of an administrator keeps it.
THEOREM Inductive == Spec => []IInv
<1>1. Init => IInv
  BY InitEstablishes
<1>2. IInv /\ [Next]_vars => IInv'
  BY NextPreserves
<1> QED
  BY <1>1, <1>2, PTL DEF Spec

\* Type correctness of the record/replay state, stores of retired generations included.
THEOREM TypeCorrect == Spec => []TypeOK
<1>1. IInv => TypeOK
  BY DEF IInv
<1> QED
  BY <1>1, Inductive, PTL

\* mock_initialization and remove_runtime_routes leave exactly one store that takes
\* writes, the registered one, however updates and imports follow each other.
THEOREM OneGeneration == Spec => []OneLiveGeneration
<1>1. IInv => OneLiveGeneration
  BY DEF IInv
<1> QED
  BY <1>1, Inductive, PTL

\* The byte count of a RecordingStore is exact and both limits hold, for any limits,
\* any sizes and any number of requests, updates and deletions.
THEOREM LimitsHold == Spec => []WithinLimits
<1>1. IInv => WithinLimits
  BY DEF IInv, Kept, Bounded, Accounted, WithinLimits
<1> QED
  BY <1>1, Inductive, PTL

LEMMA FrozenStep ==
    ASSUME IInv, [Next]_vars, NEW g \in DOMAIN stores, ~stores[g].active
    PROVE stores'[g] = stores[g]
<1>1. stores \in Seq(StoreSet) /\ DOMAIN stores = 1..Len(stores) /\ registered \in 0..Len(stores)
  BY DEF IInv, TypeOK
<1>2. g # registered /\ Retired[g] = stores[g]
  BY DEF IInv, OneLiveGeneration, Retired
<1>3. ASSUME NEW mock, NEW entries, Initialize(mock, entries) PROVE stores'[g] = stores[g]
  <2>1. Retired \in Seq(StoreSet) /\ Len(Retired) = Len(stores)
    BY RetiredStores
  <2>2. CASE mock.recording = NoRecording
    BY <1>2, <1>3, <2>2 DEF Initialize
  <2>3. CASE mock.recording # NoRecording
    <3> DEFINE new == NewStore(mock.recording, entries)
    <3>1. stores' = Append(Retired, new)
      BY <1>3, <2>3 DEF Initialize
    <3> HIDE DEF new
    <3> QED
      BY <1>1, <1>2, <2>1, <3>1
  <2> QED
    BY <2>2, <2>3
<1>4. ASSUME NEW r \in Requests, NEW sent \in Replies, UpstreamReply(r, sent) PROVE stores'[g] = stores[g]
  <2> DEFINE q == requests[r]
             reply == [upstream |-> q.mock.proxy_host, size |-> sent.size, valid |-> sent.valid]
             new == Save(stores[q.store], KeyOf(r), reply, q.revision)
  <2>1. \/ UNCHANGED stores
        \/ stores' = [stores EXCEPT ![q.store] = new]
    BY <1>4 DEF UpstreamReply
  <2>2. ~stores[q.store].active => new = stores[q.store]
    BY DEF Save, SaveOutcome
  <2> HIDE DEF new, q
  <2> QED
    BY <2>1, <2>2
<1>5. CASE stores' = Retired
  BY <1>2, <1>5
<1>6. ASSUME NEW new, stores' = [stores EXCEPT ![registered] = new] PROVE stores'[g] = stores[g]
  BY <1>2, <1>6
<1>7. CASE UNCHANGED stores
  BY <1>7
<1>8. CASE UNCHANGED vars
  BY <1>7, <1>8 DEF vars
<1>9. ASSUME NEW r \in Requests, NEW http, Dispatch(r, http) PROVE stores'[g] = stores[g]
  BY <1>7, <1>9 DEF Dispatch
<1>10. ASSUME NEW r \in Requests, Serve(r) PROVE stores'[g] = stores[g]
  BY <1>4, <1>7, <1>10 DEF Serve, Identify, UpstreamFailure
<1>11. ASSUME NEW r \in Requests, Cancel(r) PROVE stores'[g] = stores[g]
  BY <1>7, <1>11 DEF Cancel
<1>12. CASE Administer
  BY <1>3, <1>5, <1>6, <1>7, <1>12
     DEF Administer, PutMock, PatchMock, DeleteMocks, DeleteRecordings, DeleteRecording, ExportSnapshot, ImportSnapshot
<1> QED
  BY <1>8, <1>9, <1>10, <1>11, <1>12 DEF Next

\* A store that RecordingStore.retire was called on never changes again, although
\* the requests dispatched before still hold it and save into it.
THEOREM RetiredFrozen == Spec => RetiredStoresFrozen
<1>1. IInv /\ [Next]_vars => [\A g \in DOMAIN stores : ~stores[g].active => stores'[g] = stores[g]]_vars
  BY FrozenStep
<1> QED
  BY <1>1, Inductive, PTL DEF Spec, RetiredStoresFrozen

-------------------------------------------------------------------------------
(* What the entries are: a second invariant, on top of the first           *)

\* The revision a request read lies in the past of its store, and the requests of
\* the live generation hold the stored mock.
Captured ==
    \A r \in Requests : requests[r].pc # "idle" /\ requests[r].store # NoStore =>
        /\ requests[r].revision <= stores[requests[r].store].revision
        /\ requests[r].store = registered => requests[r].mock = saved

\* The entries that a mock may hold: keyed by the headers it matches on, from its upstream.
Filed(mock) ==
    {e \in EntrySet :
        /\ DOMAIN e.id.headers = mock.recording.match_headers
        /\ e.reply.upstream = mock.proxy_host}

\* What an import asks of a collection as a whole, of its entries only their headers.
Restorable(mock, entries) ==
    /\ Fits(mock.recording, entries, TotalSize(entries))
    /\ \A i \in DOMAIN entries : DOMAIN entries[i].id.headers = mock.recording.match_headers
    /\ Distinct(entries)

FiledEntries ==
    /\ registered # NoStore => Entries(registered) \in Seq(Filed(saved))
    /\ snapshot # NoSnapshot =>
        /\ snapshot.mock.recording # NoRecording
        /\ Restorable(snapshot.mock, snapshot.recordings)
        /\ snapshot.recordings \in Seq(Filed(snapshot.mock))

Content == Captured /\ NewestKept /\ FiledEntries

LEMMA StoreTyped ==
    ASSUME IInv, NEW g \in 1..Len(stores)
    PROVE stores[g] \in StoreSet /\ stores[g].revision \in Nat /\ stores[g].config \in Configs /\ Bounded(stores[g])
<1>1. stores[g] \in StoreSet
  BY DEF IInv, TypeOK
<1>2. Bounded(stores[g])
  BY DEF IInv, TypeOK, Kept
<1> QED
  BY <1>1, <1>2 DEF StoreSet

LEMMA ContentInit == ASSUME Init PROVE Content
<1>1. Captured
  BY DEF Init, Captured, Idle
<1>2. NewestKept
  <2>1. From(<< >>, 1) = << >>
    BY DEF From
  <2> QED
    BY <2>1 DEF Init, NewestKept, Entries
<1>3. FiledEntries
  BY DEF Init, FiledEntries
<1> QED
  BY <1>1, <1>2, <1>3 DEF Content

\* The history is the collection and, before it, what made room.
LEMMA Older ==
    ASSUME IInv, NewestKept
    PROVE \E a \in Seq(EntrySet) : Joined(log, a, Entries(registered))
<1>1. log \in Seq(EntrySet)
  BY DEF IInv, TypeOK
<1>2. PICK k \in 1..Len(log) + 1 : Entries(registered) = From(log, k)
  BY DEF NewestKept
<1>3. Before(log, k) \in Seq(EntrySet) /\ log = Before(log, k) \o From(log, k)
  BY <1>1, Split
<1> QED
  BY <1>2, <1>3 DEF Joined

\* The revision is only read from the store, or reset.
LEMMA CapturedKept ==
    ASSUME IInv, Captured, UNCHANGED <<saved, registered>>,
           NEW r \in Requests, NEW q \in RequestSet, requests' = [requests EXCEPT ![r] = q],
           q.pc # "idle" => /\ q.store \in 0..Len(stores)
                            /\ q.store # NoStore => /\ q.revision <= stores[q.store].revision
                                                    /\ q.store = registered => q.mock = saved,
           DOMAIN stores' = DOMAIN stores,
           \A g \in DOMAIN stores : stores'[g].revision = stores[g].revision
    PROVE Captured'
<1>1. requests \in [Requests -> RequestSet] /\ stores \in Seq(StoreSet) /\ DOMAIN stores = 1..Len(stores)
  BY DEF IInv, TypeOK
<1> SUFFICES ASSUME NEW t \in Requests, requests'[t].pc # "idle", requests'[t].store # NoStore
             PROVE /\ requests'[t].revision <= stores'[requests'[t].store].revision
                   /\ requests'[t].store = registered => requests'[t].mock = saved
  BY DEF Captured
<1>2. CASE t = r
  <2>1. requests'[t] = q
    BY <1>1, <1>2
  <2>2. q.store \in DOMAIN stores
    BY <1>1, <2>1 DEF NoStore
  <2> QED
    BY <2>1, <2>2
<1>3. CASE t # r
  <2>1. requests'[t] = requests[t]
    BY <1>1, <1>3
  <2>2. requests[t].store \in DOMAIN stores
    BY <1>1, <2>1 DEF NoStore, IInv, InFlight
  <2> QED
    BY <2>1, <2>2 DEF Captured
<1> QED
  BY <1>2, <1>3

LEMMA SameCollection ==
    ASSUME NewestKept, FiledEntries, UNCHANGED <<saved, registered, snapshot, log>>, Entries(registered)' = Entries(registered)
    PROVE NewestKept' /\ FiledEntries'
  BY DEF NewestKept, FiledEntries

LEMMA IdleCaptured ==
    ASSUME IInv, Captured, NEW r \in Requests, requests' = [requests EXCEPT ![r] = Idle],
           UNCHANGED <<saved, registered>>,
           DOMAIN stores' = DOMAIN stores,
           \A g \in DOMAIN stores : stores'[g].revision = stores[g].revision
    PROVE Captured'
<1> DEFINE q == Idle
<1>1. q \in RequestSet /\ q.pc = "idle"
  BY IdleTyped
<1> HIDE DEF q
<1> QED
  BY <1>1, CapturedKept DEF q

LEMMA AnswerContent ==
    ASSUME IInv, Content, NEW r \in Requests, NEW kind, Answer(r, kind),
           UNCHANGED <<saved, stores, registered, snapshot, log>>
    PROVE Content'
<1>1. requests' = [requests EXCEPT ![r] = Idle]
  BY DEF Answer
<1>2. Captured'
  BY <1>1, IdleCaptured DEF Content
<1>3. Entries(registered)' = Entries(registered)
  BY DEF Entries
<1> QED
  BY <1>2, <1>3, SameCollection DEF Content

LEMMA DispatchContent ==
    ASSUME IInv, Content, NEW r \in Requests, NEW http \in HttpRequests, Dispatch(r, http)
    PROVE Content'
<1> DEFINE q == [pc |-> "dispatched", mock |-> saved, store |-> registered, http |-> http, revision |-> 0]
<1>1. /\ requests' = [requests EXCEPT ![r] = q]
      /\ UNCHANGED <<saved, stores, registered, snapshot, log>>
  BY DEF Dispatch
<1>2. /\ saved \in Mocks /\ registered \in 0..Len(stores) /\ stores \in Seq(StoreSet)
      /\ \A g \in 1..Len(stores) : stores[g].revision \in Nat
  BY StoreTyped DEF IInv, TypeOK, Dispatch
<1>3. /\ q \in RequestSet /\ q.store = registered /\ q.mock = saved /\ q.revision = 0
  BY <1>2 DEF RequestSet
<1> HIDE DEF q
<1>4. Captured'
  <2>1. q.store # NoStore => q.revision <= stores[q.store].revision
    BY <1>2, <1>3 DEF NoStore
  <2> QED
    BY <1>1, <1>2, <1>3, <2>1, CapturedKept DEF Content
<1>5. Entries(registered)' = Entries(registered)
  BY <1>1 DEF Entries
<1> QED
  BY <1>1, <1>4, <1>5, SameCollection DEF Content

\* What Forward leaves of a request it sends on.
LEMMA ForwardEffect ==
    ASSUME IInv, NEW r \in Requests, requests[r].pc = "dispatched", Forward(r), ~Answer(r, "forbidden")
    PROVE /\ answer' = NoAnswer
          /\ \E q \in RequestSet :
                /\ requests' = [requests EXCEPT ![r] = q]
                /\ q.pc = "upstream" /\ q.mock = requests[r].mock /\ q.http = requests[r].http
                /\ q.store = requests[r].store
                /\ q.store # NoStore => q.revision = stores[q.store].revision
<1> DEFINE revision == IF requests[r].store = NoStore THEN 0 ELSE stores[requests[r].store].revision
           old == requests[r]
           q == [old EXCEPT !.pc = "upstream", !.revision = revision]
<1>1. /\ requests' = [requests EXCEPT ![r].pc = "upstream", ![r].revision = revision]
      /\ answer' = NoAnswer
  BY DEF Forward
<1>2. old \in RequestSet /\ requests \in [Requests -> RequestSet]
      /\ old.store \in 0..Len(stores) /\ stores \in Seq(StoreSet)
  BY DEF IInv, TypeOK, InFlight
<1>3. revision \in Nat
  <2>1. CASE old.store # NoStore
    <3>1. stores[old.store] \in StoreSet
      BY <1>2, <2>1 DEF NoStore
    <3> QED
      BY <2>1, <3>1 DEF StoreSet
  <2> QED
    BY <2>1
<1>4. old.store # NoStore => revision = stores[old.store].revision
  OBVIOUS
<1> HIDE DEF revision, old
<1>5. /\ q \in RequestSet
      /\ q.pc = "upstream" /\ q.mock = old.mock /\ q.http = old.http /\ q.store = old.store
      /\ q.revision = revision
  BY <1>2, <1>3 DEF RequestSet
<1>6. requests' = [requests EXCEPT ![r] = q]
  BY <1>1, <1>2 DEF old
<1> HIDE DEF q
<1> QED
  BY <1>1, <1>4, <1>5, <1>6 DEF old

LEMMA IdentifyContent ==
    ASSUME IInv, Content, NEW r \in Requests, Identify(r)
    PROVE Content'
<1>1. UNCHANGED <<saved, stores, registered, snapshot, log>> /\ requests[r].pc = "dispatched"
  BY DEF Identify
<1>2. CASE \E kind : Answer(r, kind)
  BY <1>1, <1>2, AnswerContent
<1>3. CASE Forward(r) /\ ~Answer(r, "forbidden")
  <2>1. PICK q \in RequestSet :
            /\ requests' = [requests EXCEPT ![r] = q]
            /\ q.pc = "upstream" /\ q.mock = requests[r].mock /\ q.store = requests[r].store
            /\ q.store # NoStore => q.revision = stores[q.store].revision
    BY <1>1, <1>3, ForwardEffect
  <2>2. stores \in Seq(StoreSet) /\ q.store \in 0..Len(stores)
    BY <1>1, <2>1 DEF IInv, TypeOK, InFlight
  <2>3. q.store # NoStore => q.revision <= stores[q.store].revision
    <3> SUFFICES ASSUME q.store # NoStore PROVE q.revision <= stores[q.store].revision
      OBVIOUS
    <3>1. stores[q.store].revision \in Nat
      BY <2>2, StoreTyped DEF NoStore
    <3> QED
      BY <2>1, <3>1
  <2>4. q.store # NoStore /\ q.store = registered => q.mock = saved
    BY <1>1, <2>1 DEF Content, Captured
  <2>5. Captured'
    BY <1>1, <2>1, <2>2, <2>3, <2>4, CapturedKept DEF Content
  <2>6. Entries(registered)' = Entries(registered)
    BY <1>1 DEF Entries
  <2> QED
    BY <1>1, <2>5, <2>6, SameCollection DEF Content
<1> QED
  BY <1>2, <1>3 DEF Identify, Replay, Static

Reply(r, sent) == [upstream |-> requests[r].mock.proxy_host, size |-> sent.size, valid |-> sent.valid]
Outcome(r, sent) == SaveOutcome(stores[requests[r].store], Reply(r, sent), requests[r].revision)

\* A reply that is not stored changes nothing but its request.
LEMMA UnstoredEffect ==
    ASSUME IInv, NEW r \in Requests, NEW sent \in Replies, UpstreamReply(r, sent),
           requests[r].store # NoStore, Outcome(r, sent) # "stored"
    PROVE Answer(r, Outcome(r, sent)) /\ UNCHANGED <<saved, stores, registered, snapshot, log>>
<1> DEFINE g == requests[r].store
           reply == Reply(r, sent)
           new == Save(stores[g], KeyOf(r), reply, requests[r].revision)
<1>1. /\ stores' = [stores EXCEPT ![g] = new]
      /\ Answer(r, Outcome(r, sent))
      /\ UNCHANGED <<saved, registered, snapshot, log>>
  BY DEF UpstreamReply, Outcome, Reply
<1>2. new = stores[g]
  BY DEF Save, Outcome
<1>3. stores \in Seq(StoreSet)
  BY DEF IInv, TypeOK
<1>4. stores' = stores
  BY <1>1, <1>2, <1>3
<1> QED
  BY <1>1, <1>4

\* A stored reply went to the registered store, and became its newest entry.
LEMMA StoredEffect ==
    ASSUME IInv, NEW r \in Requests, NEW sent \in Replies, UpstreamReply(r, sent),
           requests[r].store # NoStore, Outcome(r, sent) = "stored",
           NEW e, e = [id |-> KeyOf(r), reply |-> Reply(r, sent)]
    PROVE /\ Answer(r, "stored") /\ UNCHANGED <<saved, registered, snapshot>>
          /\ requests[r].store = registered
          /\ registered \in 1..Len(stores)
          /\ DOMAIN stores' = DOMAIN stores
          /\ \A g \in DOMAIN stores : stores'[g].revision = stores[g].revision
          /\ stores'[registered].config = stores[registered].config
          /\ log' = Append(Without(log, e.id), e)
          /\ e \in EntrySet
          /\ e.reply.size <= stores[registered].config.max_bytes
          /\ \E full \in StoreSet :
                /\ Accounted(full)
                /\ full.entries = Append(Without(Entries(registered), e.id), e)
                /\ full.config = stores[registered].config
                /\ Entries(registered)' = Trim(full).entries
<1> DEFINE g == requests[r].store
           reply == Reply(r, sent)
           new == Write(stores[g], KeyOf(r), reply)
<1>1. /\ stores' = [stores EXCEPT ![g] = new]
      /\ Answer(r, "stored")
      /\ UNCHANGED <<saved, registered, snapshot>>
      /\ log' = Append(Without(log, KeyOf(r)), [id |-> KeyOf(r), reply |-> reply])
  BY DEF UpstreamReply, Outcome, Reply, Save
<1>2. stores[g].active /\ ~(reply.size > stores[g].config.max_bytes)
  BY DEF Outcome, SaveOutcome
<1>3. /\ g \in 1..Len(stores) /\ stores \in Seq(StoreSet) /\ DOMAIN stores = 1..Len(stores)
      /\ requests[r].mock \in Mocks /\ requests[r].http \in HttpRequests
  BY DEF IInv, TypeOK, InFlight, UpstreamReply, NoStore
<1>4. g = registered
  BY <1>2, <1>3 DEF IInv, OneLiveGeneration
<1>5. stores[g] \in StoreSet /\ stores[g].config \in Configs /\ Bounded(stores[g])
  BY <1>3, StoreTyped
<1>6. e \in EntrySet /\ e.id = KeyOf(r) /\ e.reply = reply /\ reply.size = sent.size
  <2>1. KeyOf(r) \in Keys
    BY <1>3, <1>5 DEF KeyOf, Keys
  <2>2. reply \in [upstream : {m.proxy_host : m \in Mocks}, size : Sizes, valid : BOOLEAN] /\ reply.size = sent.size
    BY <1>3, SentTyped DEF Reply
  <2> QED
    BY <2>1, <2>2 DEF EntrySet
<1> HIDE DEF reply, g
<1>7. PICK full \in StoreOf(Configs, EntrySet) :
          /\ new = Trim(full) /\ Accounted(full)
          /\ full.entries = Append(Without(stores[g].entries, KeyOf(r)), [id |-> KeyOf(r), reply |-> reply])
          /\ full.config = stores[g].config /\ full.revision = stores[g].revision
  <2>1. /\ stores[g] \in StoreOf(Configs, EntrySet) /\ Accounted(stores[g])
        /\ [id |-> KeyOf(r), reply |-> reply] \in EntrySet
    BY <1>5, <1>6, Constants DEF Bounded, reply
  <2> DEFINE store == stores[g]
             key == KeyOf(r)
  <2> HIDE DEF store, key, new
  <2>2. \E full \in StoreOf(Configs, EntrySet) :
            /\ Write(store, key, reply) = Trim(full) /\ Accounted(full)
            /\ full.entries = Append(Without(store.entries, key), [id |-> key, reply |-> reply])
            /\ full.config = store.config /\ full.revision = store.revision /\ full.active = store.active
    BY <2>1, WriteTrims, Constants DEF store, key
  <2> QED
    BY <2>2 DEF store, key, new
<1>8. new.config = stores[g].config /\ new.revision = stores[g].revision
  <2>1. Trim(full).config = full.config /\ Trim(full).revision = full.revision
    BY <1>7, Trimming, Constants
  <2> QED
    BY <1>7, <2>1
<1> HIDE DEF new
<1>9. /\ DOMAIN stores' = DOMAIN stores
      /\ stores'[g] = new
      /\ \A k \in DOMAIN stores : k # g => stores'[k] = stores[k]
  BY <1>1, <1>3
<1>10. e = [id |-> KeyOf(r), reply |-> reply]
  BY DEF reply
<1>11. Entries(registered) = stores[g].entries /\ Entries(registered)' = stores'[g].entries
  BY <1>1, <1>3, <1>4 DEF Entries, NoStore
<1>12. registered \in 1..Len(stores) /\ g = requests[r].store
  BY <1>3, <1>4 DEF g
<1>13. sent.size <= stores[g].config.max_bytes
  <2>1. sent.size \in Nat /\ stores[g].config.max_bytes \in Nat
    BY <1>5, Constants, RepliesAssumption DEF Limited
  <2> QED
    BY <1>2, <1>6, <2>1
<1>14. /\ full \in StoreSet /\ Accounted(full)
       /\ full.entries = Append(Without(Entries(registered), e.id), e)
       /\ full.config = stores[registered].config
       /\ Entries(registered)' = Trim(full).entries
  BY <1>4, <1>6, <1>7, <1>9, <1>10, <1>11, Constants
<1>15. \A k \in DOMAIN stores : stores'[k].revision = stores[k].revision
  BY <1>8, <1>9
<1>16. stores'[registered].config = stores[registered].config
  BY <1>4, <1>8, <1>9
<1> QED
  BY <1>1, <1>4, <1>6, <1>9, <1>10, <1>12, <1>13, <1>14, <1>15, <1>16

LEMMA StoredContent ==
    ASSUME IInv, Content, NEW r \in Requests, NEW sent \in Replies, UpstreamReply(r, sent),
           requests[r].store # NoStore, Outcome(r, sent) = "stored"
    PROVE Content'
<1> DEFINE e == [id |-> KeyOf(r), reply |-> Reply(r, sent)]
<1>1. /\ Answer(r, "stored") /\ UNCHANGED <<saved, registered, snapshot>>
      /\ requests[r].store = registered
      /\ registered \in 1..Len(stores)
      /\ DOMAIN stores' = DOMAIN stores
      /\ \A g \in DOMAIN stores : stores'[g].revision = stores[g].revision
      /\ log' = Append(Without(log, e.id), e)
      /\ e \in EntrySet
  BY StoredEffect
<1>2. PICK full \in StoreSet :
          /\ Accounted(full)
          /\ full.entries = Append(Without(Entries(registered), e.id), e)
          /\ Entries(registered)' = Trim(full).entries
  BY StoredEffect
<1>3. e.id = KeyOf(r) /\ e.reply = Reply(r, sent)
  OBVIOUS
<1> HIDE DEF e
<1> DEFINE c == Entries(registered)
           w == Without(c, e.id)
           all == Append(w, e)
           k == FirstKept(full)
<1>4. Captured'
  <2>1. requests' = [requests EXCEPT ![r] = Idle]
    BY <1>1 DEF Answer
  <2> QED
    BY <1>1, <2>1, IdleCaptured DEF Content
<1>5. k \in 1..Len(all) + 1 /\ Entries(registered)' = From(all, k)
  <2>1. /\ FirstKept(full) \in 1..Len(full.entries) + 1
        /\ Trim(full).entries = From(full.entries, FirstKept(full))
    BY <1>2, Constants, Trimming
  <2> QED
    BY <1>2, <2>1
<1> HIDE DEF k
<1>6. c \in Seq(EntrySet) /\ Distinct(c) /\ Distinct(log)
  BY RegisteredEntries DEF IInv, Kept
<1>7. w \in Seq(EntrySet) /\ all \in Seq(EntrySet)
  BY <1>1, <1>6, WithoutKey, Constants
<1>8. NewestKept'
  <2>1. PICK a \in Seq(EntrySet) : Joined(log, a, c)
    BY Older DEF Content
  <2> HIDE DEF c
  <2>2. PICK b \in Seq(EntrySet) : Joined(Without(log, e.id), b, Without(c, e.id))
    BY <1>6, <2>1, WithoutOfConcat
  <2>3. Joined(Append(Without(log, e.id), e), b, Append(w, e))
    BY <1>1, <1>7, <2>2, AppendToNewest
  <2>4. Joined(log', b, all)
    BY <1>1, <2>3
  <2> HIDE DEF all, w
  <2>5. \E j \in 1..Len(log') + 1 : From(all, k) = From(log', j)
    BY <1>5, <1>7, <2>2, <2>4, NewestOfNewest
  <2> QED
    BY <1>5, <2>5 DEF NewestKept
<1>9. FiledEntries'
  <2>1. c \in Seq(Filed(saved))
    BY <1>1 DEF Content, FiledEntries, NoStore
  <2>2. e \in Filed(saved)
    <3>1. requests[r].mock = saved
      BY <1>1 DEF Content, Captured, UpstreamReply
    <3>2. stores[registered].config = saved.recording
      BY <1>1 DEF IInv, OneLiveGeneration, NoStore
    <3>3. DOMAIN e.id.headers = saved.recording.match_headers
      BY <1>1, <1>3, <3>2 DEF KeyOf, recording_id
    <3>4. e.reply.upstream = saved.proxy_host
      BY <1>3, <3>1 DEF Reply
    <3> QED
      BY <1>1, <3>3, <3>4 DEF Filed
  <2>3. Sized(Filed(saved))
    BY Constants DEF Sized, Filed
  <2> HIDE DEF c
  <2>4. all \in Seq(Filed(saved))
    <3>1. w \in Seq(Filed(saved))
      BY <1>6, <2>1, <2>3, WithoutKey
    <3> HIDE DEF w
    <3> QED
      BY <2>2, <3>1
  <2> HIDE DEF all
  <2>5. From(all, k) \in Seq(Filed(saved))
    BY <1>5, <2>4, Split
  <2> QED
    BY <1>1, <1>5, <2>5 DEF FiledEntries, Content
<1> QED
  BY <1>4, <1>8, <1>9 DEF Content

LEMMA ReplyContent ==
    ASSUME IInv, Content, NEW r \in Requests, NEW sent \in Replies, UpstreamReply(r, sent)
    PROVE Content'
<1>1. CASE requests[r].store = NoStore
  <2>1. Answer(r, "proxied") /\ UNCHANGED <<saved, stores, registered, snapshot, log>>
    BY <1>1 DEF UpstreamReply
  <2> QED
    BY <2>1, AnswerContent
<1>2. CASE requests[r].store # NoStore /\ Outcome(r, sent) # "stored"
  BY <1>2, UnstoredEffect, AnswerContent
<1>3. CASE requests[r].store # NoStore /\ Outcome(r, sent) = "stored"
  BY <1>3, StoredContent
<1> QED
  BY <1>1, <1>2, <1>3

\* What every update of the mock does to the collection and to what requests captured.
LEMMA InitializeEffect ==
    ASSUME IInv, NEW mock \in Mocks, NEW entries \in Seq(EntrySet), Distinct(entries), Initialize(mock, entries)
    PROVE /\ saved' = mock /\ UNCHANGED <<requests, snapshot>>
          /\ \A g \in 1..Len(stores) : g \in DOMAIN stores' /\ stores'[g].revision = stores[g].revision
          /\ registered' \notin 1..Len(stores)
          /\ registered' = NoStore => Entries(registered)' = << >>
          /\ registered' # NoStore =>
                /\ mock.recording \in Configs
                /\ stores'[registered'].config = mock.recording
                /\ Entries(registered)' = NewStore(mock.recording, entries).entries
          /\ mock.recording # NoRecording => registered' # NoStore
<1>1. /\ Retired \in Seq(StoreSet) /\ Len(Retired) = Len(stores) /\ Len(stores) \in Nat
      /\ stores \in Seq(StoreSet) /\ DOMAIN stores = 1..Len(stores)
  BY RetiredStores DEF IInv, TypeOK
<1>2. ASSUME NEW g \in 1..Len(stores) PROVE Retired[g].revision = stores[g].revision
  BY <1>1, <1>2, StoreTyped DEF Retired, Retire, StoreSet
<1>3. saved' = mock /\ UNCHANGED <<requests, snapshot>>
  BY DEF Initialize
<1>4. CASE mock.recording = NoRecording
  <2>1. stores' = Retired /\ registered' = NoStore
    BY <1>4 DEF Initialize
  <2> QED
    BY <1>1, <1>2, <1>3, <1>4, <2>1 DEF Entries, NoStore
<1>5. CASE mock.recording # NoRecording
  <2> DEFINE new == NewStore(mock.recording, entries)
  <2>1. stores' = Append(Retired, new) /\ registered' = Len(stores) + 1
    BY <1>5 DEF Initialize
  <2>2. mock.recording \in Configs
    BY <1>5 DEF Configs
  <2>3. new.config = mock.recording
    BY ConfigOfNew
  <2> HIDE DEF new
  <2>4. /\ \A g \in 1..Len(stores) : g \in DOMAIN stores' /\ stores'[g] = Retired[g]
        /\ stores'[Len(stores) + 1] = new
    BY <1>1, <2>1
  <2>5. registered' # NoStore /\ registered' \notin 1..Len(stores) /\ stores'[registered'] = new
    BY <1>1, <2>1, <2>4 DEF NoStore
  <2>6. Entries(registered)' = new.entries
    BY <2>5 DEF Entries
  <2>7. \A g \in 1..Len(stores) : g \in DOMAIN stores' /\ stores'[g].revision = stores[g].revision
    BY <1>2, <2>4
  <2> QED
    BY <1>3, <2>2, <2>3, <2>5, <2>6, <2>7 DEF new
<1> QED
  BY <1>4, <1>5

\* The new collection is the newest part of what it was built from.
LEMMA InitializeNewest ==
    ASSUME IInv, NEW mock \in Mocks, NEW entries \in Seq(EntrySet), Distinct(entries), Initialize(mock, entries),
           mock.recording # NoRecording
    PROVE /\ \E k \in 1..Len(entries) + 1 : Entries(registered)' = From(entries, k)
          /\ Fits(mock.recording, entries, TotalSize(entries)) => Entries(registered)' = entries
<1>1. /\ mock.recording \in Configs
      /\ Entries(registered)' = NewStore(mock.recording, entries).entries
  BY InitializeEffect
<1> DEFINE config == mock.recording
           s == NewStore(config, entries).entries
<1>2. \E k \in 1..Len(entries) + 1 : s = From(entries, k)
  <2>1. config \in Configs
    BY <1>1
  <2> HIDE DEF config
  <2>2. \E k \in 1..Len(entries) + 1 : NewStore(config, entries).entries = From(entries, k)
    <3> DEFINE full == Untrimmed(config, entries)
    <3>1. /\ full \in StoreOf(Configs, EntrySet) /\ Accounted(full)
          /\ full.entries = entries /\ NewStore(config, entries) = Trim(full)
      BY <2>1, Constants, UntrimmedAccounted
    <3> HIDE DEF full
    <3>2. /\ FirstKept(full) \in 1..Len(full.entries) + 1
          /\ Trim(full).entries = From(full.entries, FirstKept(full))
      BY <3>1, Constants, Trimming
    <3> QED
      BY <3>1, <3>2
  <2> QED
    BY <2>2
<1>3. Fits(mock.recording, entries, TotalSize(entries)) => s = entries
  BY <1>1, Constants, NewStoreOfFitting
<1> QED
  BY <1>1, <1>2, <1>3

LEMMA CapturedAcrossUpdate ==
    ASSUME IInv, Captured, UNCHANGED requests,
           \A g \in 1..Len(stores) : stores'[g].revision = stores[g].revision,
           registered' \notin 1..Len(stores)
    PROVE Captured'
<1> SUFFICES ASSUME NEW r \in Requests, requests[r].pc # "idle", requests[r].store # NoStore
             PROVE /\ requests[r].revision <= stores'[requests[r].store].revision
                   /\ requests[r].store # registered'
  BY DEF Captured
<1>1. requests[r].store \in 1..Len(stores)
  BY DEF IInv, TypeOK, InFlight, NoStore
<1> QED
  BY <1>1 DEF Captured

LEMMA NoneNewest ==
    ASSUME NEW S, NEW s \in Seq(S)
    PROVE \E k \in 1..Len(s) + 1 : << >> = From(s, k)
<1> DEFINE n == Len(s)
           k == n + 1
<1>1. n \in Nat /\ k \in 1..n + 1 /\ k \in Int /\ n \in Int /\ n < k
  OBVIOUS
<1> HIDE DEF n, k
<1>2. SubSeq(s, k, n) = << >>
  BY <1>1, SubSeqEmpty
<1> QED
  BY <1>1, <1>2 DEF From, n

LEMMA NothingNewest == \E k \in 1..Len(<< >>) + 1 : << >> = From(<< >>, k)
<1>1. 1 \in 1..Len(<< >>) + 1 /\ From(<< >>, 1) = << >>
  BY DEF From
<1> QED
  BY <1>1

LEMMA InitializeContent ==
    ASSUME IInv, Content, NEW mock \in Mocks, NEW entries \in Seq(EntrySet), Distinct(entries),
           Initialize(mock, entries),
           log' \in Seq(EntrySet),
           mock.recording # NoRecording =>
               /\ entries \in Seq(Filed(mock))
               /\ \E a \in Seq(EntrySet) : Joined(log', a, entries)
    PROVE Content'
<1>1. /\ saved' = mock /\ UNCHANGED <<requests, snapshot>>
      /\ \A g \in 1..Len(stores) : g \in DOMAIN stores' /\ stores'[g].revision = stores[g].revision
      /\ registered' \notin 1..Len(stores)
      /\ registered' = NoStore => Entries(registered)' = << >>
      /\ mock.recording # NoRecording <=> registered' # NoStore
  <2>1. registered' # NoStore => mock.recording # NoRecording
    BY DEF Initialize
  <2> QED
    BY <2>1, InitializeEffect
<1>2. Captured'
  BY <1>1, CapturedAcrossUpdate DEF Content
<1>3. CASE registered' = NoStore
  <2>1. Entries(registered)' = << >>
    BY <1>1, <1>3
  <2>2. NewestKept'
    <3>1. \E k \in 1..Len(log') + 1 : << >> = From(log', k)
      BY NoneNewest
    <3> QED
      BY <2>1, <3>1 DEF NewestKept
  <2>3. FiledEntries'
    BY <1>1, <1>3 DEF Content, FiledEntries
  <2> QED
    BY <1>2, <2>2, <2>3 DEF Content
<1>4. CASE registered' # NoStore
  <2>1. PICK k \in 1..Len(entries) + 1 : Entries(registered)' = From(entries, k)
    BY <1>1, <1>4, InitializeNewest
  <2>2. PICK a \in Seq(EntrySet) : Joined(log', a, entries)
    BY <1>1, <1>4
  <2>3. \E j \in 1..Len(log') + 1 : From(entries, k) = From(log', j)
    BY <2>1, <2>2, NewestOfNewest
  <2>4. NewestKept'
    BY <2>1, <2>3 DEF NewestKept
  <2>5. From(entries, k) \in Seq(Filed(mock))
    BY <1>1, <1>4, <2>1, Split
  <2>6. FiledEntries'
    BY <1>1, <2>1, <2>5 DEF Content, FiledEntries
  <2> QED
    BY <1>2, <2>4, <2>6 DEF Content
<1> QED
  BY <1>3, <1>4

LEMMA JoinedToNone ==
    ASSUME NEW S, NEW s \in Seq(S)
    PROVE << >> \in Seq(S) /\ Joined(s, << >>, s)
<1>1. << >> \o s = s
  BY ConcatEmptySeq
<1> QED
  BY <1>1 DEF Joined

LEMMA PutContent == ASSUME IInv, Content, NEW mock \in Mocks, PutMock(mock) PROVE Content'
<1> DEFINE none == << >>
<1>1. none \in Seq(EntrySet) /\ Distinct(none) /\ none \in Seq(Filed(mock))
  BY NoEntries
<1>2. Initialize(mock, none) /\ log' = none
  BY DEF PutMock
<1> HIDE DEF none
<1>3. \E a \in Seq(EntrySet) : Joined(none, a, none)
  BY <1>1, JoinedToNone
<1> QED
  BY <1>1, <1>2, <1>3, InitializeContent

LEMMA PatchContent == ASSUME IInv, Content, NEW mock \in Mocks, PatchMock(mock) PROVE Content'
<1>1. CASE PreserveRecordings(saved, mock)
  <2> DEFINE c == Entries(registered)
  <2>1. c \in Seq(EntrySet) /\ Distinct(c) /\ Initialize(mock, c) /\ log' = log /\ log \in Seq(EntrySet)
    BY <1>1, RegisteredEntries DEF PatchMock, IInv, TypeOK
  <2>2. c \in Seq(Filed(mock))
    <3>1. registered # NoStore
      BY <1>1 DEF PatchMock, PreserveRecordings, IInv, OneLiveGeneration
    <3>2. Filed(mock) = Filed(saved)
      BY <1>1 DEF Filed, PreserveRecordings
    <3> QED
      BY <3>1, <3>2 DEF Content, FiledEntries
  <2>3. \E a \in Seq(EntrySet) : Joined(log, a, c)
    BY Older DEF Content
  <2> HIDE DEF c
  <2> QED
    BY <2>1, <2>2, <2>3, InitializeContent
<1>2. CASE ~PreserveRecordings(saved, mock)
  <2>1. PutMock(mock)
    BY <1>2 DEF PatchMock, PutMock
  <2> QED
    BY <2>1, PutContent
<1> QED
  BY <1>1, <1>2

LEMMA ImportContent == ASSUME IInv, Content, ImportSnapshot PROVE Content'
<1> DEFINE s == snapshot.recordings
           mock == snapshot.mock
<1>1. mock \in Mocks /\ s \in Seq(EntrySet) /\ Distinct(s) /\ s \in Seq(Filed(mock))
  BY DEF IInv, TypeOK, ImportSnapshot, ValidRecordings, Distinct, Content, FiledEntries
<1>2. Initialize(mock, s) /\ log' = s
  BY DEF ImportSnapshot
<1> HIDE DEF s, mock
<1>3. \E a \in Seq(EntrySet) : Joined(s, a, s)
  BY <1>1, JoinedToNone
<1> QED
  BY <1>1, <1>2, <1>3, InitializeContent

LEMMA DeleteMocksContent == ASSUME IInv, Content, DeleteMocks PROVE Content'
<1>1. /\ stores' = Retired /\ registered' = NoStore /\ log' = << >> /\ UNCHANGED <<requests, snapshot>>
  BY DEF DeleteMocks
<1>2. \A g \in 1..Len(stores) : stores'[g].revision = stores[g].revision
  <2>1. DOMAIN stores = 1..Len(stores)
    BY DEF IInv, TypeOK
  <2> QED
    BY <1>1, <2>1, StoreTyped DEF Retired, Retire, StoreSet
<1>3. Captured'
  BY <1>1, <1>2, CapturedAcrossUpdate DEF Content, NoStore
<1>4. NewestKept'
  BY <1>1, NothingNewest DEF NewestKept, Entries
<1>5. FiledEntries'
  BY <1>1 DEF Content, FiledEntries
<1> QED
  BY <1>3, <1>4, <1>5 DEF Content

\* Both deletions move the revision of the registered store on.
LEMMA DeletionContent ==
    ASSUME IInv, Content, registered # NoStore, UNCHANGED <<saved, registered, requests, snapshot>>,
           NEW new \in StoreSet, stores' = [stores EXCEPT ![registered] = new],
           new.revision = stores[registered].revision + 1,
           new.entries \in Seq(Filed(saved)),
           \E k \in 1..Len(log') + 1 : new.entries = From(log', k)
    PROVE Content'
<1>1. registered \in 1..Len(stores) /\ stores \in Seq(StoreSet) /\ DOMAIN stores = 1..Len(stores)
  BY DEF IInv, TypeOK, NoStore
<1>2. /\ stores'[registered] = new
      /\ \A g \in 1..Len(stores) : g # registered => stores'[g] = stores[g]
      /\ Entries(registered)' = new.entries
  BY <1>1 DEF Entries
<1>3. Captured'
  <2> SUFFICES ASSUME NEW r \in Requests, requests[r].pc # "idle", requests[r].store # NoStore
               PROVE /\ requests[r].revision <= stores'[requests[r].store].revision
                     /\ requests[r].store = registered => requests[r].mock = saved
    BY DEF Captured
  <2>1. requests[r].store \in 1..Len(stores) /\ requests[r].revision \in Nat
    BY DEF IInv, TypeOK, InFlight, NoStore, RequestSet
  <2>2. stores[requests[r].store].revision \in Nat
    BY <2>1, StoreTyped
  <2>3. stores[requests[r].store].revision <= stores'[requests[r].store].revision
    BY <1>2, <2>1, <2>2
  <2>4. stores'[requests[r].store].revision \in Nat
    BY <1>2, <2>1, <2>2
  <2> QED
    BY <2>1, <2>2, <2>3, <2>4 DEF Content, Captured
<1>4. NewestKept'
  BY <1>2 DEF NewestKept
<1>5. FiledEntries'
  BY <1>2 DEF Content, FiledEntries
<1> QED
  BY <1>3, <1>4, <1>5 DEF Content

LEMMA DeleteRecordingsContent == ASSUME IInv, Content, DeleteRecordings PROVE Content'
<1> DEFINE old == stores[registered]
           new == DeleteAll(old)
<1>1. registered # NoStore /\ old \in StoreSet /\ Bounded(old)
  BY DEF DeleteRecordings, IInv, TypeOK, Kept, NoStore
<1>2. new \in StoreSet
  BY <1>1, Constants, DeleteBounded
<1>3. new.revision = old.revision + 1 /\ new.entries = << >>
  BY <1>1 DEF DeleteAll, StoreSet
<1>4. /\ stores' = [stores EXCEPT ![registered] = new] /\ log' = << >>
      /\ UNCHANGED <<saved, registered, requests, snapshot>>
  BY DEF DeleteRecordings
<1>5. \E k \in 1..Len(log') + 1 : new.entries = From(log', k)
  BY <1>3, <1>4, NothingNewest
<1>6. new.entries \in Seq(Filed(saved))
  BY <1>3
<1> HIDE DEF new
<1> QED
  BY <1>1, <1>2, <1>3, <1>4, <1>5, <1>6, DeletionContent

LEMMA DeleteRecordingContent == ASSUME IInv, Content, NEW key, DeleteRecording(key) PROVE Content'
<1> DEFINE old == stores[registered]
           new == DeleteOne(old, key)
           c == Entries(registered)
<1>1. registered # NoStore /\ old \in StoreSet /\ Bounded(old) /\ Holds(old.entries, key) /\ c = old.entries
  BY DEF DeleteRecording, IInv, TypeOK, Kept, NoStore, Entries
<1>2. new \in StoreSet
  BY <1>1, Constants, DeleteBounded
<1>3. new.revision = old.revision + 1 /\ new.entries = Without(c, key)
  BY <1>1 DEF DeleteOne, StoreSet
<1>4. /\ stores' = [stores EXCEPT ![registered] = new] /\ log' = Without(log, key)
      /\ UNCHANGED <<saved, registered, requests, snapshot>>
  BY DEF DeleteRecording
<1>5. c \in Seq(EntrySet) /\ Distinct(c) /\ Distinct(log) /\ c \in Seq(Filed(saved))
  BY <1>1, RegisteredEntries DEF IInv, Kept, Content, FiledEntries
<1>6. Sized(Filed(saved))
  BY Constants DEF Sized, Filed
<1> HIDE DEF new, c
<1>7. \E k \in 1..Len(log') + 1 : new.entries = From(log', k)
  <2>1. PICK a \in Seq(EntrySet) : Joined(log, a, c)
    BY Older DEF Content, c
  <2>2. PICK b \in Seq(EntrySet) : Joined(Without(log, key), b, Without(c, key))
    BY <1>5, <2>1, WithoutOfConcat
  <2> DEFINE w == Without(c, key)
  <2>3. w \in Seq(EntrySet)
    BY <1>5, Constants, WithoutKey
  <2>4. Joined(log', b, w)
    BY <1>4, <2>2
  <2> HIDE DEF w
  <2>5. 1 \in 1..Len(w) + 1 /\ From(w, 1) = w
    BY <2>3, SubSeqFull DEF From
  <2>6. \E k \in 1..Len(log') + 1 : From(w, 1) = From(log', k)
    BY <2>2, <2>3, <2>4, <2>5, NewestOfNewest
  <2> QED
    BY <1>3, <2>5, <2>6 DEF w
<1>8. new.entries \in Seq(Filed(saved))
  BY <1>3, <1>5, <1>6, WithoutKey
<1> QED
  BY <1>1, <1>2, <1>3, <1>4, <1>7, <1>8, DeletionContent

LEMMA ExportContent == ASSUME IInv, Content, ExportSnapshot PROVE Content'
<1> DEFINE c == stores[registered].entries
           config == saved.recording
<1>1. /\ config # NoRecording
      /\ snapshot' = [mock |-> saved, recordings |-> c]
      /\ UNCHANGED <<saved, stores, registered, requests, log>>
  BY DEF ExportSnapshot
<1>2. registered # NoStore
  BY DEF ExportSnapshot, IInv, OneLiveGeneration
<1>3. Entries(registered) = c /\ c \in Seq(Filed(saved)) /\ c \in Seq(EntrySet)
  BY <1>2, RegisteredEntries DEF Entries, Content, FiledEntries
<1>4. Bounded(stores[registered]) /\ stores[registered].config = config
  BY <1>2 DEF IInv, TypeOK, Kept, OneLiveGeneration, NoStore
<1>5. Restorable(saved, c)
  <2>1. Fits(config, c, TotalSize(c)) /\ Distinct(c)
    BY <1>4 DEF Bounded, Accounted
  <2>2. \A i \in DOMAIN c : DOMAIN c[i].id.headers = config.match_headers
    BY <1>3 DEF Filed
  <2> QED
    BY <2>1, <2>2 DEF Restorable
<1> HIDE DEF c
<1>6. Captured' /\ NewestKept'
  BY <1>1 DEF Content, Captured, NewestKept, Entries
<1>7. FiledEntries'
  BY <1>1, <1>3, <1>5 DEF Content, FiledEntries, Entries
<1> QED
  BY <1>6, <1>7 DEF Content

LEMMA ContentPreserved == ASSUME IInv, Content, [Next]_vars PROVE Content'
<1>1. CASE UNCHANGED vars
  <2>1. Entries(registered)' = Entries(registered)
    BY <1>1 DEF vars, Entries
  <2> QED
    BY <1>1, <2>1 DEF vars, Content, Captured, NewestKept, FiledEntries
<1>2. ASSUME NEW r \in Requests, NEW http \in HttpRequests, Dispatch(r, http) PROVE Content'
  BY <1>2, DispatchContent
<1>3. ASSUME NEW r \in Requests, Serve(r) PROVE Content'
  BY <1>3, IdentifyContent, ReplyContent, AnswerContent DEF Serve, UpstreamFailure
<1>4. ASSUME NEW r \in Requests, Cancel(r) PROVE Content'
  BY <1>4, AnswerContent DEF Cancel
<1>5. CASE Administer
  BY <1>5, PutContent, PatchContent, DeleteMocksContent, DeleteRecordingsContent, DeleteRecordingContent,
     ExportContent, ImportContent DEF Administer
<1> QED
  BY <1>1, <1>2, <1>3, <1>4, <1>5 DEF Next

\* The second inductive invariant.
THEOREM ContentInductive == Spec => [](IInv /\ Content)
<1>1. Init => IInv /\ Content
  BY InitEstablishes, ContentInit
<1>2. (IInv /\ Content) /\ [Next]_vars => (IInv /\ Content)'
  BY NextPreserves, ContentPreserved
<1> QED
  BY <1>1, <1>2, PTL DEF Spec

\* The collection is what an unlimited one would hold, less its oldest writes: of a save
\* into the OrderedDict, a deletion and an update, none reorders, drops or revives more.
THEOREM NewestAreKept == Spec => []NewestKept
<1>1. IInv /\ Content => NewestKept
  BY DEF Content
<1> QED
  BY <1>1, ContentInductive, PTL

\* PATCH never carries replies of another upstream into the collection, nor does a
\* request that was dispatched before it.
THEOREM FromConfiguredUpstream == Spec => []RecordedFromUpstream
<1>1. IInv /\ Content => RecordedFromUpstream
  <2> SUFFICES ASSUME IInv, Content, NEW i \in DOMAIN Entries(registered)
               PROVE Entries(registered)[i].reply.upstream = saved.proxy_host
    BY DEF RecordedFromUpstream
  <2>1. registered # NoStore
    BY DEF Entries
  <2>2. Entries(registered) \in Seq(Filed(saved))
    BY <2>1 DEF Content, FiledEntries
  <2>3. Entries(registered)[i] \in Filed(saved)
    BY <2>2
  <2> QED
    BY <2>3 DEF Filed
<1> QED
  BY <1>1, ContentInductive, PTL

\* PUT /snapshot refuses what GET /snapshot wrote only for an entry that breaks the schema:
\* the limits, the unique keys and the matched headers that the import validates hold of
\* every collection ever exported, whatever was patched, evicted or imported before.
THEOREM ExportsRefusedOnlyForEntry == Spec => []ExportRefusedOnlyForEntry
<1>1. IInv /\ Content => ExportRefusedOnlyForEntry
  BY DEF Content, FiledEntries, ExportRefusedOnlyForEntry, Restorable, ValidRecordings, Fits, Distinct
<1> QED
  BY <1>1, ContentInductive, PTL

LEMMA ImportRestoresStep ==
    ASSUME IInv, Content, ImportSnapshot
    PROVE Entries(registered)' = snapshot.recordings /\ saved' = snapshot.mock
<1> DEFINE s == snapshot.recordings
           mock == snapshot.mock
<1>1. mock \in Mocks /\ s \in Seq(EntrySet) /\ Distinct(s) /\ mock.recording # NoRecording
  BY DEF IInv, TypeOK, ImportSnapshot, ValidRecordings, Distinct, Content, FiledEntries
<1>2. Initialize(mock, s) /\ Fits(mock.recording, s, TotalSize(s))
  BY DEF ImportSnapshot, ValidRecordings, Fits
<1>3. saved' = mock
  BY <1>2 DEF Initialize
<1> HIDE DEF s, mock
<1>4. Entries(registered)' = s
  BY <1>1, <1>2, InitializeNewest
<1> QED
  BY <1>3, <1>4 DEF s, mock

\* An import leaves exactly the exported configuration and entries, whatever it replaces.
THEOREM ImportsRestore == Spec => ImportRestores
<1>1. IInv /\ Content /\ [Next]_vars =>
        [ImportSnapshot => Entries(registered)' = snapshot.recordings /\ saved' = snapshot.mock]_vars
  BY ImportRestoresStep
<1> QED
  BY <1>1, ContentInductive, PTL DEF Spec, ImportRestores

-------------------------------------------------------------------------------
(* Evictions *)

\* The newest of the entries that a step popped, if it was there before, does not fit
\* beside those that the step kept.
RoomMade(before, after, kept, config) ==
    LET last == Len(after) - Len(kept)
        more == <<after[last]>> \o kept
    IN  last > 0 /\ after[last] \in ToSet(before) => ~Fits(config, more, TotalSize(more))

LEMMA NothingPopped ==
    ASSUME NEW S, NEW before, NEW after, NEW a \in Seq(S), NEW kept \in Seq(S), NEW config,
           Joined(after, a, kept), ToSet(a) \cap ToSet(before) = {}
    PROVE RoomMade(before, after, kept, config)
<1> DEFINE last == Len(after) - Len(kept)
<1>1. /\ Len(after) = Len(a) + Len(kept) /\ Len(a) \in Nat /\ Len(kept) \in Nat
      /\ \A i \in 1..Len(a) : after[i] = a[i]
      /\ DOMAIN a = 1..Len(a)
  BY Concat DEF Joined
<1>2. last = Len(a)
  BY <1>1
<1>3. last > 0 => after[last] \in ToSet(a)
  <2> HIDE DEF last
  <2> QED
    BY <1>1, <1>2 DEF ToSet
<1> HIDE DEF last
<1>4. ~(last > 0 /\ after[last] \in ToSet(before))
  BY <1>3
<1> QED
  BY <1>4 DEF RoomMade, last

LEMMA TrimmedToFit ==
    ASSUME NEW before, NEW after, NEW a \in Seq(EntrySet), NEW full \in StoreSet, Accounted(full),
           Joined(after, a, full.entries), ToSet(a) \cap ToSet(before) = {}
    PROVE RoomMade(before, after, Trim(full).entries, full.config)
<1> DEFINE kept == Trim(full).entries
           last == Len(after) - Len(kept)
           more == <<after[last]>> \o kept
<1> SUFFICES ASSUME last > 0, after[last] \in ToSet(before)
             PROVE ~Fits(full.config, more, TotalSize(more))
  BY DEF RoomMade
<1>1. after[last] \notin ToSet(a)
  OBVIOUS
<1> QED
  BY <1>1, Constants, PoppedToFit

\* What came before the collection is not in it.
LEMMA OlderApart ==
    ASSUME IInv, NewestKept
    PROVE \E a \in Seq(EntrySet) : Joined(log, a, Entries(registered)) /\ ToSet(a) \cap ToSet(Entries(registered)) = {}
<1> DEFINE c == Entries(registered)
<1>1. c \in Seq(EntrySet) /\ Distinct(log)
  BY RegisteredEntries DEF IInv, Kept
<1>2. PICK a \in Seq(EntrySet) : Joined(log, a, c)
  BY Older
<1> HIDE DEF c
<1>3. ASSUME NEW x \in ToSet(c) PROVE x \notin ToSet(a)
  BY <1>1, <1>2, NotInNewest
<1>4. ToSet(a) \cap ToSet(c) = {}
  BY <1>3
<1> QED
  BY <1>2, <1>4 DEF c

LEMMA UnchangedRoom ==
    ASSUME IInv, Content, UNCHANGED <<stores, registered, log>>, NEW config
    PROVE RoomMade(Entries(registered), log', Entries(registered)', config)
<1> DEFINE c == Entries(registered)
<1>1. PICK a \in Seq(EntrySet) : Joined(log, a, c) /\ ToSet(a) \cap ToSet(c) = {}
  BY OlderApart DEF Content
<1>2. c \in Seq(EntrySet) /\ Entries(registered)' = c /\ log' = log
  BY RegisteredEntries DEF Entries
<1> HIDE DEF c
<1>3. RoomMade(c, log, c, config)
  BY <1>1, <1>2, NothingPopped
<1> QED
  BY <1>2, <1>3 DEF c

LEMMA StoredRoom ==
    ASSUME IInv, Content, NEW r \in Requests, NEW sent \in Replies, UpstreamReply(r, sent),
           requests[r].store # NoStore, Outcome(r, sent) = "stored"
    PROVE RoomMade(Entries(registered), log', Entries(registered)', stores'[registered'].config)
<1> DEFINE e == [id |-> KeyOf(r), reply |-> Reply(r, sent)]
           c == Entries(registered)
           w == Without(c, e.id)
           all == Append(w, e)
<1>1. /\ registered' = registered
      /\ log' = Append(Without(log, e.id), e)
      /\ e \in EntrySet
      /\ stores'[registered].config = stores[registered].config
  BY StoredEffect
<1>2. PICK full \in StoreSet :
          /\ Accounted(full)
          /\ full.entries = Append(Without(Entries(registered), e.id), e)
          /\ full.config = stores[registered].config
          /\ Entries(registered)' = Trim(full).entries
  BY StoredEffect
<1> HIDE DEF e
<1>3. c \in Seq(EntrySet) /\ Distinct(c) /\ Distinct(log)
  BY RegisteredEntries DEF IInv, Kept
<1>4. w \in Seq(EntrySet)
  BY <1>3, WithoutKey, Constants
<1>5. PICK a \in Seq(EntrySet) : Joined(log, a, c) /\ ToSet(a) \cap ToSet(c) = {}
  BY OlderApart DEF Content
<1>6. full.entries = all
  BY <1>2
<1> HIDE DEF c
<1>7. PICK b \in Seq(EntrySet) : Joined(Without(log, e.id), b, w) /\ ToSet(b) \subseteq ToSet(a)
  <2> DEFINE key == e.id
  <2> HIDE DEF key
  <2>1. \E b \in Seq(EntrySet) : /\ Joined(Without(log, key), b, Without(c, key))
                                 /\ ToSet(b) \subseteq ToSet(a)
                                 /\ Holds(c, key) => b = a
    BY <1>3, <1>5, WithoutOfConcat
  <2> QED
    BY <2>1 DEF key
<1> HIDE DEF w
<1>8. Joined(Append(Without(log, e.id), e), b, Append(w, e))
  BY <1>1, <1>4, <1>7, AppendToNewest
<1>9. Joined(log', b, full.entries)
  BY <1>1, <1>6, <1>8
<1>10. ToSet(b) \cap ToSet(c) = {}
  BY <1>5, <1>7
<1>11. RoomMade(c, log', Trim(full).entries, full.config)
  BY <1>2, <1>7, <1>9, <1>10, TrimmedToFit
<1> QED
  BY <1>1, <1>2, <1>11 DEF c

LEMMA InitializeRoom ==
    ASSUME IInv, NEW mock \in Mocks, NEW entries \in Seq(EntrySet), Distinct(entries), Initialize(mock, entries),
           registered' # NoStore, NEW a \in Seq(EntrySet), Joined(log', a, entries),
           ToSet(a) \cap ToSet(Entries(registered)) = {}
    PROVE RoomMade(Entries(registered), log', Entries(registered)', stores'[registered'].config)
<1> DEFINE config == mock.recording
           c == Entries(registered)
           full == Untrimmed(config, entries)
<1>1. /\ config \in Configs
      /\ stores'[registered'].config = config
      /\ Entries(registered)' = NewStore(config, entries).entries
  BY InitializeEffect
<1> HIDE DEF config, c
<1>2. /\ full \in StoreSet /\ Accounted(full) /\ full.entries = entries /\ full.config = config
      /\ NewStore(config, entries) = Trim(full)
  BY <1>1, Constants, UntrimmedAccounted
<1> HIDE DEF full
<1>3. RoomMade(c, log', Trim(full).entries, full.config)
  BY <1>2, TrimmedToFit DEF c
<1> QED
  BY <1>1, <1>2, <1>3 DEF c

LEMMA ResetRoom ==
    ASSUME IInv, NEW mock \in Mocks, NEW entries \in Seq(EntrySet), Distinct(entries), Initialize(mock, entries),
           registered' # NoStore, log' = entries
    PROVE RoomMade(Entries(registered), log', Entries(registered)', stores'[registered'].config)
<1> DEFINE none == << >>
<1>1. none \in Seq(EntrySet) /\ Joined(log', none, entries) /\ ToSet(none) = {}
  BY JoinedToNone DEF ToSet
<1> HIDE DEF none
<1> QED
  BY <1>1, InitializeRoom

LEMMA DeletedRoom ==
    ASSUME IInv, Content, NEW key, DeleteRecording(key), NEW config
    PROVE RoomMade(Entries(registered), log', Entries(registered)', config)
<1> DEFINE c == Entries(registered)
           w == Without(c, key)
           new == DeleteOne(stores[registered], key)
<1>1. /\ registered # NoStore /\ registered' = registered /\ log' = Without(log, key)
      /\ stores' = [stores EXCEPT ![registered] = new]
  BY DEF DeleteRecording
<1>2. /\ c \in Seq(EntrySet) /\ Distinct(c) /\ Distinct(log) /\ c = stores[registered].entries
  BY <1>1, RegisteredEntries DEF IInv, Kept, Entries
<1>3. registered \in 1..Len(stores) /\ stores \in Seq(StoreSet) /\ stores[registered] \in StoreSet
  BY <1>1 DEF IInv, TypeOK, NoStore
<1>4. new.entries = w
  BY <1>2, <1>3 DEF DeleteOne, StoreSet
<1> HIDE DEF new
<1>5. Entries(registered)' = w
  BY <1>1, <1>3, <1>4 DEF Entries
<1>6. PICK a \in Seq(EntrySet) : Joined(log, a, c) /\ ToSet(a) \cap ToSet(c) = {}
  BY OlderApart DEF Content
<1>7. w \in Seq(EntrySet)
  BY <1>2, WithoutKey, Constants
<1> HIDE DEF c
<1>8. PICK b \in Seq(EntrySet) : /\ Joined(Without(log, key), b, Without(c, key))
                                 /\ ToSet(b) \subseteq ToSet(a)
                                 /\ Holds(c, key) => b = a
  BY <1>2, <1>6, WithoutOfConcat
<1> HIDE DEF w
<1>9. RoomMade(c, log', w, config)
  <2>1. Joined(log', b, w)
    BY <1>1, <1>8 DEF w
  <2>2. ToSet(b) \cap ToSet(c) = {}
    BY <1>6, <1>8
  <2> QED
    BY <1>7, <1>8, <2>1, <2>2, NothingPopped
<1> QED
  BY <1>5, <1>9 DEF c

LEMMA ClearedRoom ==
    ASSUME IInv, DeleteRecordings, NEW config
    PROVE RoomMade(Entries(registered), log', Entries(registered)', config)
<1> DEFINE none == << >>
           new == DeleteAll(stores[registered])
<1>1. /\ registered # NoStore /\ registered' = registered /\ log' = none
      /\ stores' = [stores EXCEPT ![registered] = new]
  BY DEF DeleteRecordings
<1>2. registered \in 1..Len(stores) /\ stores \in Seq(StoreSet) /\ stores[registered] \in StoreSet
  BY <1>1 DEF IInv, TypeOK, NoStore
<1>3. new.entries = none
  BY <1>2 DEF DeleteAll, StoreSet
<1> HIDE DEF new
<1>4. Entries(registered)' = none
  BY <1>1, <1>2, <1>3 DEF Entries
<1>5. none \in Seq(EntrySet) /\ Joined(none, none, none) /\ ToSet(none) = {}
  <2>1. none \o none = none
    OBVIOUS
  <2>2. ToSet(none) = {}
    BY DEF ToSet
  <2> QED
    BY <2>1, <2>2 DEF Joined
<1> HIDE DEF none
<1>6. RoomMade(Entries(registered), none, none, config)
  BY <1>5, NothingPopped
<1> QED
  BY <1>1, <1>4, <1>6

LEMMA EvictionStep ==
    ASSUME IInv, Content, [Next]_vars, registered' # NoStore
    PROVE RoomMade(Entries(registered), log', Entries(registered)', stores'[registered'].config)
<1>1. CASE UNCHANGED <<stores, registered, log>>
  BY <1>1, UnchangedRoom
<1>2. ASSUME NEW r \in Requests, NEW http \in HttpRequests, Dispatch(r, http) PROVE UNCHANGED <<stores, registered, log>>
  BY <1>2 DEF Dispatch
<1>3. ASSUME NEW r \in Requests, Identify(r) \/ UpstreamFailure(r) \/ Cancel(r)
      PROVE UNCHANGED <<stores, registered, log>>
  BY <1>3 DEF Identify, UpstreamFailure, Cancel
<1>4. ASSUME NEW r \in Requests, NEW sent \in Replies, UpstreamReply(r, sent)
      PROVE RoomMade(Entries(registered), log', Entries(registered)', stores'[registered'].config)
  <2>1. CASE requests[r].store = NoStore
    BY <1>1, <1>4, <2>1 DEF UpstreamReply
  <2>2. CASE requests[r].store # NoStore /\ Outcome(r, sent) # "stored"
    BY <1>1, <1>4, <2>2, UnstoredEffect
  <2>3. CASE requests[r].store # NoStore /\ Outcome(r, sent) = "stored"
    BY <1>4, <2>3, StoredRoom
  <2> QED
    BY <2>1, <2>2, <2>3
<1>5. ASSUME NEW mock \in Mocks, PutMock(mock)
      PROVE RoomMade(Entries(registered), log', Entries(registered)', stores'[registered'].config)
  <2> DEFINE none == << >>
  <2>1. none \in Seq(EntrySet) /\ Distinct(none) /\ Initialize(mock, none) /\ log' = none
    BY <1>5, NoEntries DEF PutMock
  <2> HIDE DEF none
  <2> QED
    BY <2>1, ResetRoom
<1>6. ASSUME NEW mock \in Mocks, PatchMock(mock)
      PROVE RoomMade(Entries(registered), log', Entries(registered)', stores'[registered'].config)
  <2>1. CASE PreserveRecordings(saved, mock)
    <3> DEFINE c == Entries(registered)
    <3>1. c \in Seq(EntrySet) /\ Distinct(c) /\ Initialize(mock, c) /\ log' = log
      BY <1>6, <2>1, RegisteredEntries DEF PatchMock
    <3>2. PICK a \in Seq(EntrySet) : Joined(log, a, c) /\ ToSet(a) \cap ToSet(c) = {}
      BY OlderApart DEF Content
    <3>3. Joined(log', a, c)
      BY <3>1, <3>2
    <3> QED
      BY <3>1, <3>2, <3>3, InitializeRoom
  <2>2. CASE ~PreserveRecordings(saved, mock)
    BY <1>5, <1>6, <2>2 DEF PatchMock, PutMock
  <2> QED
    BY <2>1, <2>2
<1>7. CASE ImportSnapshot
  <2> DEFINE s == snapshot.recordings
             mock == snapshot.mock
  <2>1. mock \in Mocks /\ s \in Seq(EntrySet) /\ Distinct(s) /\ Initialize(mock, s) /\ log' = s
    BY <1>7 DEF IInv, TypeOK, ImportSnapshot, ValidRecordings, Distinct
  <2> HIDE DEF s, mock
  <2> QED
    BY <2>1, ResetRoom
<1>8. CASE DeleteMocks
  BY <1>8 DEF DeleteMocks
<1>9. CASE DeleteRecordings
  BY <1>9, ClearedRoom
<1>10. ASSUME NEW key, DeleteRecording(key)
       PROVE RoomMade(Entries(registered), log', Entries(registered)', stores'[registered'].config)
  BY <1>10, DeletedRoom
<1>11. CASE ExportSnapshot \/ UNCHANGED vars
  BY <1>1, <1>11 DEF ExportSnapshot, vars
<1> QED
  BY <1>1, <1>2, <1>3, <1>4, <1>5, <1>6, <1>7, <1>8, <1>9, <1>10, <1>11 DEF Next, Serve, Administer

\* _trim and the save pop an entry only when it would not fit beside the newer ones, for
\* any limits and sizes; a limit that an update lowers is no exception.
THEOREM EvictionsNeeded == Spec => EvictedOnlyToFit
<1>1. IInv /\ Content /\ [Next]_vars =>
        [registered' # NoStore =>
            LET kept == Entries(registered)'
                last == Len(log') - Len(kept)
                more == <<log'[last]>> \o kept
            IN  last > 0 /\ log'[last] \in ToSet(Entries(registered))
                => ~Fits(stores'[registered'].config, more, TotalSize(more))]_vars
  BY EvictionStep DEF RoomMade
<1> QED
  BY <1>1, ContentInductive, PTL DEF Spec, EvictedOnlyToFit

-------------------------------------------------------------------------------
(* The contract: every step of the machine is a step of RecordingContract, or none *)

LEMMA ContractOperators ==
    /\ \A s, k : Contract!From(s, k) = From(s, k)
    /\ \A s, key : Contract!Without(s, key) = Without(s, key)
    /\ \A s : Contract!ToSet(s) = ToSet(s)
<1>1. \A s, k : Contract!From(s, k) = From(s, k)
  BY DEF Contract!From, From
<1>2. \A s, key : Contract!Holds(s, key) <=> Holds(s, key)
  BY DEF Contract!Holds, Holds
<1>3. \A s, i : Contract!RemoveAt(s, i) = RemoveAt(s, i)
  BY DEF Contract!RemoveAt, RemoveAt
<1>4. \A s, key : Contract!Without(s, key) = Without(s, key)
  BY <1>2, <1>3 DEF Contract!Without, Without
<1>5. \A s : Contract!ToSet(s) = ToSet(s)
  BY DEF Contract!ToSet, ToSet
<1> QED
  BY <1>1, <1>4, <1>5

Exported == IF snapshot = NoSnapshot THEN << >> ELSE snapshot.recordings

LEMMA ContractInit == ASSUME Init PROVE Contract!Init
<1>1. Entries(registered) = << >> /\ Attached = {} /\ Fetching = {} /\ answer = NoAnswer /\ Exported = << >>
  BY DEF Init, Entries, Attached, Fetching, Exported
<1> QED
  BY <1>1 DEF Contract!Init, Exported

HasAttached(q) == q.pc = "dispatched" /\ q.store = registered /\ registered # NoStore
HasFetching(q) ==
    /\ q.pc = "upstream"
    /\ q.store = registered
    /\ registered # NoStore
    /\ q.revision = stores[registered].revision

\* What becomes of the two sets when one request moves and no recordings are deleted.
LEMMA RequestMoves ==
    ASSUME IInv, UNCHANGED registered, NEW r \in Requests, NEW q, requests' = [requests EXCEPT ![r] = q],
           registered # NoStore => stores'[registered].revision = stores[registered].revision
    PROVE /\ Attached' = IF HasAttached(q) THEN Attached \union {r} ELSE Attached \ {r}
          /\ Fetching' = IF HasFetching(q) THEN Fetching \union {r} ELSE Fetching \ {r}
<1>1. requests \in [Requests -> RequestSet]
  BY DEF IInv, TypeOK
<1>2. \A t \in Requests : requests'[t] = IF t = r THEN q ELSE requests[t]
  BY <1>1
<1>3. /\ Attached = {t \in Requests : HasAttached(requests[t])}
      /\ Attached' = {t \in Requests : HasAttached(requests'[t])}
  BY DEF Attached, HasAttached
<1>4. /\ Fetching = {t \in Requests : HasFetching(requests[t])}
      /\ Fetching' = {t \in Requests : HasFetching(requests'[t])}
  BY DEF Fetching, HasFetching
<1>5. Attached' = IF HasAttached(q) THEN Attached \union {r} ELSE Attached \ {r}
  BY <1>2, <1>3
<1>6. Fetching' = IF HasFetching(q) THEN Fetching \union {r} ELSE Fetching \ {r}
  BY <1>2, <1>4
<1> QED
  BY <1>5, <1>6

LEMMA ContractLeave ==
    ASSUME IInv, UNCHANGED registered, NEW r \in Requests, NEW kind, Answer(r, kind),
           registered # NoStore => stores'[registered].revision = stores[registered].revision
    PROVE Contract!Leave(r, kind)
<1> DEFINE q == Idle
<1>1. requests' = [requests EXCEPT ![r] = q] /\ answer' = <<r, kind>>
  BY DEF Answer
<1>2. ~HasAttached(q) /\ ~HasFetching(q)
  BY DEF HasAttached, HasFetching, Idle
<1> HIDE DEF q
<1>3. Attached' = Attached \ {r} /\ Fetching' = Fetching \ {r}
  BY <1>1, <1>2, RequestMoves
<1> QED
  BY <1>1, <1>3 DEF Contract!Leave

Plain == {"static", "proxied", "forbidden", "failed", "replayed", "recording_not_found", "cancelled"}

LEMMA ContractFinish ==
    ASSUME IInv, NEW r \in Requests, NEW kind \in Plain, Answer(r, kind),
           UNCHANGED <<saved, stores, registered, snapshot, log>>
    PROVE Contract!Next
<1>1. Contract!Leave(r, kind)
  BY ContractLeave
<1>2. UNCHANGED <<Entries(registered), Exported>>
  BY DEF Entries, Exported
<1>3. Contract!Finish(r)
  BY <1>1, <1>2 DEF Contract!Finish, Exported, Plain
<1> QED
  BY <1>3 DEF Contract!Next

LEMMA ContractDispatch ==
    ASSUME IInv, NEW r \in Requests, NEW http \in HttpRequests, Dispatch(r, http)
    PROVE Contract!Next
<1> DEFINE q == [pc |-> "dispatched", mock |-> saved, store |-> registered, http |-> http, revision |-> 0]
<1>1. /\ requests' = [requests EXCEPT ![r] = q] /\ answer' = NoAnswer
      /\ UNCHANGED <<saved, stores, registered, snapshot, log>>
  BY DEF Dispatch
<1>2. requests[r].pc = "idle" /\ r \notin Attached /\ r \notin Fetching
  BY DEF Dispatch, Attached, Fetching
<1>3. ~HasFetching(q)
  BY DEF HasFetching
<1> HIDE DEF q
<1>4. /\ Attached' = IF HasAttached(q) THEN Attached \union {r} ELSE Attached \ {r}
      /\ Fetching' = IF HasFetching(q) THEN Fetching \union {r} ELSE Fetching \ {r}
  BY <1>1, RequestMoves
<1>5. Attached' \in {Attached, Attached \union {r}} /\ Fetching' = Fetching
  BY <1>2, <1>3, <1>4
<1>6. UNCHANGED <<Entries(registered), Exported>>
  BY <1>1 DEF Entries, Exported
<1>7. Contract!Begin(r)
  BY <1>1, <1>5, <1>6 DEF Contract!Begin, Exported
<1> QED
  BY <1>7 DEF Contract!Next

LEMMA ContractIdentify ==
    ASSUME IInv, NEW r \in Requests, Identify(r)
    PROVE Contract!Next
<1>1. UNCHANGED <<saved, stores, registered, snapshot, log>> /\ requests[r].pc = "dispatched"
  BY DEF Identify
<1>2. CASE \E kind \in Plain : Answer(r, kind)
  BY <1>1, <1>2, ContractFinish
<1>3. CASE Forward(r) /\ ~Answer(r, "forbidden")
  <2>1. PICK q \in RequestSet :
            /\ requests' = [requests EXCEPT ![r] = q]
            /\ q.pc = "upstream" /\ q.store = requests[r].store
            /\ q.store # NoStore => q.revision = stores[q.store].revision
    BY <1>1, <1>3, ForwardEffect
  <2>2. answer' = NoAnswer
    BY <1>1, <1>3, ForwardEffect
  <2>3. /\ Attached' = IF HasAttached(q) THEN Attached \union {r} ELSE Attached \ {r}
        /\ Fetching' = IF HasFetching(q) THEN Fetching \union {r} ELSE Fetching \ {r}
    BY <1>1, <2>1, RequestMoves
  <2>4. UNCHANGED <<Entries(registered), Exported>>
    BY <1>1 DEF Entries, Exported
  <2>5. ~HasAttached(q) /\ r \notin Fetching
    BY <1>1, <2>1 DEF HasAttached, Fetching
  <2>6. HasFetching(q) <=> r \in Attached
    BY <1>1, <2>1 DEF HasFetching, Attached
  <2>7. CASE r \in Attached
    <3>1. Contract!Fetch(r)
      BY <2>2, <2>3, <2>4, <2>5, <2>6, <2>7 DEF Contract!Fetch, Exported
    <3> QED
      BY <3>1 DEF Contract!Next
  <2>8. CASE r \notin Attached
    <3>1. Attached' = Attached /\ Fetching' = Fetching
      BY <2>3, <2>5, <2>6, <2>8
    <3>2. Contract!Begin(r)
      BY <2>2, <2>4, <3>1 DEF Contract!Begin, Exported
    <3> QED
      BY <3>2 DEF Contract!Next
  <2> QED
    BY <2>7, <2>8
<1> QED
  BY <1>2, <1>3 DEF Identify, Replay, Static, Plain

\* A reply that is not stored was too large, or its request was cut off.
LEMMA ContractUnstored ==
    ASSUME IInv, NEW r \in Requests, NEW sent \in Replies, UpstreamReply(r, sent),
           requests[r].store # NoStore, Outcome(r, sent) # "stored"
    PROVE Contract!Next
<1> DEFINE q == requests[r]
           kind == Outcome(r, sent)
<1>1. Answer(r, kind) /\ UNCHANGED <<saved, stores, registered, snapshot, log>>
  BY UnstoredEffect
<1>2. /\ q.pc = "upstream" /\ q.store \in 1..Len(stores) /\ DOMAIN stores = 1..Len(stores)
  BY DEF UpstreamReply, IInv, TypeOK, InFlight, NoStore
<1>3. stores[q.store].active <=> q.store = registered
  BY <1>2 DEF IInv, OneLiveGeneration
<1>4. Contract!Leave(r, kind)
  BY <1>1, ContractLeave
<1>5. UNCHANGED <<Entries(registered), Exported>>
  BY <1>1 DEF Entries, Exported
<1>6. \/ kind = "too_large" /\ stores[q.store].active /\ q.revision = stores[q.store].revision
      \/ kind = "superseded" /\ (~stores[q.store].active \/ q.revision # stores[q.store].revision)
  BY DEF Outcome, SaveOutcome
<1> HIDE DEF kind
<1>7. CASE kind = "too_large"
  <2>1. r \in Fetching
    BY <1>2, <1>3, <1>6, <1>7 DEF Fetching
  <2>2. Contract!Skip(r)
    BY <1>4, <1>5, <1>7, <2>1 DEF Contract!Skip, Exported
  <2> QED
    BY <2>2 DEF Contract!Next
<1>8. CASE kind = "superseded"
  <2>1. r \notin Attached \union Fetching
    BY <1>2, <1>3, <1>6, <1>8 DEF Fetching, Attached
  <2>2. Contract!Supersede(r)
    BY <1>4, <1>5, <1>8, <2>1 DEF Contract!Supersede, Exported
  <2> QED
    BY <2>2 DEF Contract!Next
<1> QED
  BY <1>6, <1>7, <1>8

LEMMA ContractStored ==
    ASSUME IInv, NEW r \in Requests, NEW sent \in Replies, UpstreamReply(r, sent),
           requests[r].store # NoStore, Outcome(r, sent) = "stored"
    PROVE Contract!Next
<1> DEFINE e == [id |-> KeyOf(r), reply |-> Reply(r, sent)]
           c == Entries(registered)
           all == Append(Without(c, e.id), e)
<1>1. /\ Answer(r, "stored") /\ UNCHANGED <<saved, registered, snapshot>>
      /\ requests[r].store = registered
      /\ registered \in 1..Len(stores)
      /\ DOMAIN stores' = DOMAIN stores
      /\ \A g \in DOMAIN stores : stores'[g].revision = stores[g].revision
      /\ e \in EntrySet
      /\ e.reply.size <= stores[registered].config.max_bytes
  BY StoredEffect
<1>2. PICK full \in StoreSet :
          /\ Accounted(full)
          /\ full.entries = Append(Without(Entries(registered), e.id), e)
          /\ full.config = stores[registered].config
          /\ Entries(registered)' = Trim(full).entries
  BY StoredEffect
<1> HIDE DEF e
<1>3. DOMAIN stores = 1..Len(stores)
  BY DEF IInv, TypeOK
<1>4. r \in Fetching
  <2>1. requests[r].revision = stores[registered].revision
    BY <1>1 DEF Outcome, SaveOutcome
  <2> QED
    BY <1>1, <2>1 DEF Fetching, UpstreamReply
<1>5. Contract!Leave(r, "stored")
  BY <1>1, <1>3, ContractLeave
<1>6. c \in Seq(EntrySet) /\ Without(c, e.id) \in Seq(EntrySet)
  BY RegisteredEntries, WithoutKey, Constants
<1> HIDE DEF c
<1>7. full.entries = all
  BY <1>2 DEF c
<1>8. all \in Seq(EntrySet) /\ Len(all) > 0 /\ all[Len(all)] = e /\ Len(all) \in Nat
  <2> DEFINE w == Without(c, e.id)
  <2>1. w \in Seq(EntrySet)
    BY <1>6
  <2> HIDE DEF w
  <2>2. Append(w, e) \in Seq(EntrySet) /\ Len(Append(w, e)) = Len(w) + 1 /\ Append(w, e)[Len(w) + 1] = e
    BY <1>1, <2>1
  <2>3. Len(w) \in Nat
    BY <2>1
  <2> QED
    BY <2>2, <2>3 DEF w
<1> HIDE DEF all
<1> DEFINE k == FirstKept(full)
<1>9. k \in 1..Len(all)
  BY <1>1, <1>2, <1>7, <1>8, Constants, NewestSurvives
<1>10. Trim(full).entries = From(all, k)
  BY <1>2, <1>7, Constants, Trimming
<1> DEFINE new == Entries(registered)'
<1>11. new = From(all, k)
  BY <1>2, <1>10
<1> HIDE DEF k
<1>12. Len(new) > 0 /\ new[Len(new)] = e
  <2>1. k \in 1..Len(all) + 1
    BY <1>8, <1>9
  <2>2. /\ From(all, k) \in Seq(EntrySet)
        /\ Len(From(all, k)) = Len(all) + 1 - k
        /\ \A i \in 1..Len(From(all, k)) : From(all, k)[i] = all[k - 1 + i]
    BY <1>8, <2>1, Split
  <2> DEFINE n == Len(all) + 1 - k
  <2>3. n \in 1..n /\ k - 1 + n = Len(all) /\ n > 0
    BY <1>8, <1>9
  <2> HIDE DEF n
  <2>4. From(all, k)[n] = all[k - 1 + n] /\ Len(From(all, k)) = n
    BY <2>2, <2>3 DEF n
  <2> QED
    BY <1>8, <1>11, <2>3, <2>4
<1>13. UNCHANGED Exported
  BY <1>1 DEF Exported
<1> HIDE DEF new
<1>14. \E j \in 1..Len(all) : new = Contract!From(all, j)
  BY <1>9, <1>11, ContractOperators
<1>15. all = Append(Contract!Without(c, new[Len(new)].id), new[Len(new)])
  BY <1>12, ContractOperators DEF all
<1>16. Contract!Store(r)
  <2>1. Entries(registered)' = new /\ Entries(registered) = c
    BY DEF new, c
  <2> QED
    BY <1>4, <1>5, <1>12, <1>13, <1>14, <1>15, <2>1 DEF Contract!Store, Exported
<1> QED
  BY <1>16 DEF Contract!Next

LEMMA ContractReply ==
    ASSUME IInv, NEW r \in Requests, NEW sent \in Replies, UpstreamReply(r, sent)
    PROVE Contract!Next
<1>1. CASE requests[r].store = NoStore
  <2>1. Answer(r, "proxied") /\ UNCHANGED <<saved, stores, registered, snapshot, log>>
    BY <1>1 DEF UpstreamReply
  <2> QED
    BY <2>1, ContractFinish DEF Plain
<1>2. CASE requests[r].store # NoStore /\ Outcome(r, sent) # "stored"
  BY <1>2, ContractUnstored
<1>3. CASE requests[r].store # NoStore /\ Outcome(r, sent) = "stored"
  BY <1>3, ContractStored
<1> QED
  BY <1>1, <1>2, <1>3

\* After an update no request holds the registered store.
LEMMA CutOff ==
    ASSUME IInv, UNCHANGED requests, registered' \notin 1..Len(stores)
    PROVE Attached' = {} /\ Fetching' = {}
<1>1. \A r \in Requests : requests[r].pc # "idle" => requests[r].store \in 0..Len(stores)
  BY DEF IInv, InFlight
<1>2. Len(stores) \in Nat
  BY DEF IInv, TypeOK
<1>3. \A r \in Requests : requests[r].pc # "idle" => requests[r].store # registered' \/ registered' = NoStore
  BY <1>1, <1>2 DEF NoStore
<1> QED
  BY <1>3 DEF Attached, Fetching

LEMMA ContractInitialize ==
    ASSUME IInv, NEW mock \in Mocks, NEW entries \in Seq(EntrySet), Distinct(entries), Initialize(mock, entries),
           \/ entries = << >>
           \/ entries = Entries(registered)
           \/ entries = Exported /\ Fits(mock.recording, entries, TotalSize(entries)) /\ mock.recording # NoRecording
    PROVE Contract!Next
<1>1. /\ UNCHANGED <<requests, snapshot>> /\ registered' \notin 1..Len(stores)
      /\ registered' = NoStore => Entries(registered)' = << >>
  BY InitializeEffect
<1>2. Attached' = {} /\ Fetching' = {}
  BY <1>1, CutOff
<1>3. answer' = NoAnswer /\ UNCHANGED Exported
  BY <1>1 DEF Initialize, Exported
<1>4. \/ Entries(registered)' = << >>
      \/ \E k \in 1..Len(Entries(registered)) + 1 : Entries(registered)' = From(Entries(registered), k)
      \/ Entries(registered)' = Exported
  <2>1. CASE registered' = NoStore
    BY <1>1, <2>1
  <2>2. CASE registered' # NoStore
    <3>1. mock.recording # NoRecording
      BY <2>2 DEF Initialize
    <3>2. PICK k \in 1..Len(entries) + 1 : Entries(registered)' = From(entries, k)
      BY <3>1, InitializeNewest
    <3>3. CASE entries = << >>
      <4>1. k = 1 /\ From(<< >>, 1) = << >>
        BY <3>2, <3>3 DEF From
      <4> QED
        BY <3>2, <3>3, <4>1
    <3>4. CASE entries = Entries(registered)
      BY <3>2, <3>4
    <3>5. CASE entries = Exported /\ Fits(mock.recording, entries, TotalSize(entries))
      BY <3>1, <3>5, InitializeNewest
    <3> QED
      BY <3>3, <3>4, <3>5
  <2> QED
    BY <2>1, <2>2
<1>5. \/ Entries(registered)' = << >>
      \/ \E k \in 1..Len(Entries(registered)) + 1 : Entries(registered)' = Contract!From(Entries(registered), k)
      \/ Entries(registered)' = Exported
  BY <1>4, ContractOperators
<1>6. Contract!Reconfigure
  BY <1>2, <1>3, <1>5 DEF Contract!Reconfigure, Exported
<1> QED
  BY <1>6 DEF Contract!Next

LEMMA ContractPut == ASSUME IInv, NEW mock \in Mocks, PutMock(mock) PROVE Contract!Next
<1> DEFINE none == << >>
<1>1. none \in Seq(EntrySet) /\ Distinct(none) /\ Initialize(mock, none)
  BY NoEntries DEF PutMock
<1> QED
  BY <1>1, ContractInitialize

LEMMA ContractPatch == ASSUME IInv, NEW mock \in Mocks, PatchMock(mock) PROVE Contract!Next
<1>1. CASE PreserveRecordings(saved, mock)
  BY <1>1, RegisteredEntries, ContractInitialize DEF PatchMock
<1>2. CASE ~PreserveRecordings(saved, mock)
  BY <1>2, ContractPut DEF PatchMock, PutMock
<1> QED
  BY <1>1, <1>2

LEMMA ContractImport == ASSUME IInv, Content, ImportSnapshot PROVE Contract!Next
<1> DEFINE s == snapshot.recordings
           mock == snapshot.mock
<1>1. mock \in Mocks /\ s \in Seq(EntrySet) /\ Distinct(s) /\ mock.recording # NoRecording
  BY DEF IInv, TypeOK, ImportSnapshot, ValidRecordings, Distinct, Content, FiledEntries
<1>2. Initialize(mock, s) /\ Fits(mock.recording, s, TotalSize(s)) /\ s = Exported
  BY DEF ImportSnapshot, ValidRecordings, Fits, Exported
<1> HIDE DEF s, mock
<1> QED
  BY <1>1, <1>2, ContractInitialize

LEMMA ContractDeleteMocks == ASSUME IInv, DeleteMocks PROVE Contract!Next
<1>1. /\ registered' = NoStore /\ answer' = NoAnswer /\ UNCHANGED <<requests, snapshot>>
  BY DEF DeleteMocks
<1>2. Attached' = {} /\ Fetching' = {}
  BY <1>1, CutOff DEF NoStore
<1>3. Entries(registered)' = << >> /\ UNCHANGED Exported
  BY <1>1 DEF Entries, Exported
<1>4. Contract!Reconfigure
  BY <1>1, <1>2, <1>3 DEF Contract!Reconfigure, Exported
<1> QED
  BY <1>4 DEF Contract!Next

\* A deletion of recordings moves the revision past what every request has read.
LEMMA DeletionCutsFetching ==
    ASSUME IInv, Captured, registered # NoStore, UNCHANGED <<registered, requests>>,
           NEW new, new.revision = stores[registered].revision + 1,
           stores' = [stores EXCEPT ![registered] = new]
    PROVE Attached' = Attached /\ Fetching' = {} /\ Entries(registered)' = new.entries
<1>1. registered \in 1..Len(stores) /\ stores \in Seq(StoreSet) /\ stores[registered].revision \in Nat
  BY StoreTyped DEF IInv, TypeOK, NoStore
<1>2. stores'[registered] = new
  BY <1>1
<1>3. Attached' = Attached
  BY DEF Attached
<1>4. ASSUME NEW r \in Requests, requests[r].pc # "idle", requests[r].store = registered
      PROVE requests[r].revision # stores'[registered].revision
  <2>1. requests[r].revision <= stores[registered].revision /\ requests[r].revision \in Nat
    BY <1>4 DEF Captured, IInv, TypeOK, RequestSet
  <2> QED
    BY <1>1, <1>2, <2>1
<1>5. Fetching' = {}
  BY <1>4 DEF Fetching
<1>6. Entries(registered)' = new.entries
  BY <1>2 DEF Entries
<1> QED
  BY <1>3, <1>5, <1>6

LEMMA ContractDeleteRecordings == ASSUME IInv, Content, DeleteRecordings PROVE Contract!Next
<1> DEFINE new == DeleteAll(stores[registered])
<1>1. /\ registered # NoStore /\ answer' = NoAnswer /\ UNCHANGED <<registered, requests, snapshot>>
      /\ stores' = [stores EXCEPT ![registered] = new]
  BY DEF DeleteRecordings
<1>2. stores[registered] \in StoreSet
  BY <1>1 DEF IInv, TypeOK, NoStore
<1>3. new.revision = stores[registered].revision + 1 /\ new.entries = << >>
  BY <1>2 DEF DeleteAll, StoreSet
<1> HIDE DEF new
<1>4. Attached' = Attached /\ Fetching' = {} /\ Entries(registered)' = << >>
  BY <1>1, <1>3, DeletionCutsFetching DEF Content
<1>5. UNCHANGED Exported
  BY <1>1 DEF Exported
<1>6. Contract!Delete
  BY <1>1, <1>4, <1>5 DEF Contract!Delete, Exported
<1> QED
  BY <1>6 DEF Contract!Next

LEMMA ContractDeleteRecording == ASSUME IInv, Content, NEW key, DeleteRecording(key) PROVE Contract!Next
<1> DEFINE new == DeleteOne(stores[registered], key)
           c == Entries(registered)
<1>1. /\ registered # NoStore /\ answer' = NoAnswer /\ UNCHANGED <<registered, requests, snapshot>>
      /\ stores' = [stores EXCEPT ![registered] = new]
      /\ Holds(c, key) /\ c = stores[registered].entries
  BY DEF DeleteRecording, Entries
<1>2. stores[registered] \in StoreSet
  BY <1>1 DEF IInv, TypeOK, NoStore
<1>3. new.revision = stores[registered].revision + 1 /\ new.entries = Without(c, key)
  BY <1>1, <1>2 DEF DeleteOne, StoreSet
<1> HIDE DEF new
<1>4. Attached' = Attached /\ Fetching' = {} /\ Entries(registered)' = Without(c, key)
  BY <1>1, <1>3, DeletionCutsFetching DEF Content
<1>5. UNCHANGED Exported
  BY <1>1 DEF Exported
<1> HIDE DEF c
<1>6. PICK e \in ToSet(c) : e.id = key
  BY <1>1 DEF Holds, ToSet
<1>7. \E x \in Contract!ToSet(c) : Entries(registered)' = Contract!Without(c, x.id)
  BY <1>4, <1>6, ContractOperators
<1>8. Contract!Delete
  BY <1>1, <1>4, <1>5, <1>7 DEF Contract!Delete, Exported, c
<1> QED
  BY <1>8 DEF Contract!Next

LEMMA ContractExport == ASSUME IInv, ExportSnapshot PROVE Contract!Next
<1> DEFINE exported == [mock |-> saved, recordings |-> stores[registered].entries]
<1>1. snapshot' = exported /\ answer' = NoAnswer /\ UNCHANGED <<saved, stores, registered, requests, log>>
  BY DEF ExportSnapshot
<1>2. registered # NoStore
  BY DEF ExportSnapshot, IInv, OneLiveGeneration
<1>3. Entries(registered) \in Seq(EntrySet) /\ Entries(registered) = stores[registered].entries
  BY <1>2, RegisteredEntries DEF Entries
<1>4. exported # NoSnapshot
  <2>1. exported \in [mock : Mocks, recordings : Seq(EntrySet)]
    BY <1>3 DEF ExportSnapshot, IInv, TypeOK
  <2> QED
    BY <2>1, NoSnapshotAssumption
<1>5. exported.recordings = Entries(registered)
  BY <1>3
<1> HIDE DEF exported
<1>6. Exported' = Entries(registered)
  BY <1>1, <1>4, <1>5 DEF Exported
<1>7. UNCHANGED <<Entries(registered), Attached, Fetching>>
  BY <1>1 DEF Entries, Attached, Fetching
<1>8. Contract!Export
  BY <1>1, <1>6, <1>7 DEF Contract!Export, Exported
<1> QED
  BY <1>8 DEF Contract!Next

LEMMA ContractStep == ASSUME IInv, Content, [Next]_vars PROVE [Contract!Next]_Contract!vars
<1>1. CASE UNCHANGED vars
  <2>1. UNCHANGED <<Entries(registered), Attached, Fetching, answer, Exported>>
    BY <1>1 DEF vars, Entries, Attached, Fetching, Exported
  <2> QED
    BY <2>1 DEF Contract!vars, Exported
<1>2. ASSUME NEW r \in Requests, NEW http \in HttpRequests, Dispatch(r, http) PROVE Contract!Next
  BY <1>2, ContractDispatch
<1>3. ASSUME NEW r \in Requests, Serve(r) PROVE Contract!Next
  BY <1>3, ContractIdentify, ContractReply, ContractFinish DEF Serve, UpstreamFailure, Plain
<1>4. ASSUME NEW r \in Requests, Cancel(r) PROVE Contract!Next
  BY <1>4, ContractFinish DEF Cancel, Plain
<1>5. CASE Administer
  BY <1>5, ContractPut, ContractPatch, ContractDeleteMocks, ContractDeleteRecordings, ContractDeleteRecording,
     ContractExport, ContractImport DEF Administer
<1> QED
  BY <1>1, <1>2, <1>3, <1>4, <1>5 DEF Next

\* The generations, revisions and byte counts of the code implement the contract: a reply
\* enters the collection exactly when neither an update nor a deletion cut its request
\* off, as the newest entry, and only older entries make room for it.
THEOREM Refinement == Spec => KeepsContract
<1>1. Init => Contract!Init
  BY ContractInit
<1>2. IInv /\ Content /\ [Next]_vars => [Contract!Next]_Contract!vars
  BY ContractStep
<1> QED
  BY <1>1, <1>2, ContentInductive, PTL DEF Spec, KeepsContract, Contract!Spec
===============================================================================
