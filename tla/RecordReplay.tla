----------------------------- MODULE RecordReplay -----------------------------
(***************************************************************************)
(* Record/replay of one mock path: the requests the mock answers and the   *)
(* administrative requests that reconfigure it meanwhile.                  *)
(*                                                                         *)
(* A mock request gives the event loop back twice: while its body is read  *)
(* (by then the router has picked the handler, which holds the mock and    *)
(* the store of its generation in a closure) and while the upstream is     *)
(* asked.  Between those points it runs alone, so a request is three       *)
(* steps: Dispatch, Identify, and UpstreamReply or UpstreamFailure.        *)
(* An administrative handler takes admin_lock and never suspends while it  *)
(* holds it: each is one step.                                             *)
(***************************************************************************)
EXTENDS RecordingStore

CONSTANTS
    Requests,      \* the mock requests that can be in flight together
    HttpRequests,  \* what a client may send: a target and its headers
    Mocks,         \* the configurations the mock may be given
    Replies,       \* what may come of a request: the recorded size, and whether an import admits it
    AllowedHosts,  \* the upstreams the allowlist admits
    NoMock,        \* the path has no mock
    NoRecording,   \* recording: null
    NoHost,        \* proxy_host: null
    NoSnapshot,    \* nothing was exported yet
    NoAnswer,      \* the last step answered nobody
    Exportable,    \* bound: the mocks a snapshot is taken of
    MaxStores,     \* bound: generations with a store
    MaxRevision    \* bound: deletions per generation

NoStore == 0

RecordingConfig(c) ==
    /\ c.mode \in {"record", "replay"}
    /\ c.max_items \in Nat \ {0}
    /\ c.max_bytes \in Nat \ {0}

\* Recording needs an upstream, replaying does not (MockResource.validate_sequences).
ASSUME MocksAssumption ==
    \A m \in Mocks : m.recording # NoRecording =>
        /\ RecordingConfig(m.recording)
        /\ m.recording.mode = "record" => m.proxy_host # NoHost
ASSUME RepliesAssumption == Replies \subseteq [size : Nat \ {0}, valid : BOOLEAN]
ASSUME NoMockAssumption == NoMock \notin Mocks
ASSUME BoundsAssumption == MaxStores \in Nat /\ MaxRevision \in Nat

VARIABLES
    saved,       \* the stored configuration of the path, or NoMock
    stores,      \* every recording store ever made, by generation
    registered,  \* the generation in app.state.recordings, or NoStore
    requests,    \* the mock requests
    answer,      \* the answer of the last step: a request and what it was told, or NoAnswer
    snapshot,    \* the mock and recordings of the last export of a recorded mock
    log          \* history: what the collection would hold without its limits

vars == <<saved, stores, registered, requests, answer, snapshot, log>>

Idle == [pc |-> "idle", mock |-> NoMock, store |-> NoStore, http |-> NoMock, revision |-> 0]

Init ==
    /\ saved = NoMock
    /\ stores = << >>
    /\ registered = NoStore
    /\ requests = [r \in Requests |-> Idle]
    /\ answer = NoAnswer
    /\ snapshot = NoSnapshot
    /\ log = << >>

-------------------------------------------------------------------------------
(* The mock request *)

\* The router picks the registered handler: its closure is the stored mock and
\* the registered store.  A path without a mock is answered elsewhere (404).
Dispatch(r, http) ==
    /\ requests[r].pc = "idle"
    /\ saved # NoMock
    /\ requests' = [requests EXCEPT ![r] =
           [pc |-> "dispatched", mock |-> saved, store |-> registered, http |-> http, revision |-> 0]]
    /\ answer' = NoAnswer
    /\ UNCHANGED <<saved, stores, registered, snapshot, log>>

KeyOf(r) == recording_id(requests[r].http, stores[requests[r].store].config)

Answer(r, kind) ==
    /\ requests' = [requests EXCEPT ![r] = Idle]
    /\ answer' = <<r, kind>>

\* Mutant of Replay: a miss is left waiting for a recording.
ReplayHit(r) ==
    LET q == requests[r] IN
    /\ q.store # NoStore
    /\ q.mock.recording.mode = "replay"
    /\ Holds(stores[q.store].entries, KeyOf(r))
    /\ Answer(r, "replayed")

\* The body has arrived.  A replaying mock answers from its store and goes no
\* further, hit or miss.
Replay(r) ==
    LET q == requests[r] IN
    /\ q.store # NoStore
    /\ q.mock.recording.mode = "replay"
    /\ Answer(r, IF Holds(stores[q.store].entries, KeyOf(r)) THEN "replayed" ELSE "recording_not_found")

\* Any other mock with an upstream asks it, when the allowlist admits it.
Forward(r) ==
    LET q == requests[r] IN
    /\ q.store # NoStore => q.mock.recording.mode = "record"
    /\ q.mock.proxy_host # NoHost
    /\ IF q.mock.proxy_host \in AllowedHosts
       THEN /\ requests' = [requests EXCEPT ![r].pc = "upstream",
                                            ![r].revision = IF q.store = NoStore THEN 0 ELSE stores[q.store].revision]
            /\ answer' = NoAnswer
       ELSE Answer(r, "forbidden")

Static(r) == requests[r].mock.proxy_host = NoHost /\ Answer(r, "static")

Identify(r) ==
    /\ requests[r].pc = "dispatched"
    /\ Replay(r) \/ Forward(r) \/ Static(r)
    /\ UNCHANGED <<saved, stores, registered, snapshot, log>>

\* The upstream answered: a recording mock files the reply in the store of the
\* generation that asked, and reports what became of it.  A save looks at the size of
\* an entry and at nothing else of it.
UpstreamReply(r, sent) ==
    LET q == requests[r]
        reply == [upstream |-> q.mock.proxy_host, size |-> sent.size, valid |-> sent.valid]
        outcome == SaveOutcome(stores[q.store], reply, q.revision)
    IN
    /\ q.pc = "upstream"
    /\ IF q.store = NoStore
       THEN Answer(r, "proxied") /\ UNCHANGED <<stores, log>>
       ELSE /\ stores' = [stores EXCEPT ![q.store] = Save(@, KeyOf(r), reply, q.revision)]
            /\ Answer(r, outcome)
            /\ log' = IF outcome = "stored" THEN Append(Without(log, KeyOf(r)), [id |-> KeyOf(r), reply |-> reply])
                                            ELSE log
    /\ UNCHANGED <<saved, registered, snapshot>>

\* The upstream is unreachable or too slow: 502 or 504, and nothing is saved.
UpstreamFailure(r) ==
    /\ requests[r].pc = "upstream"
    /\ Answer(r, "failed")
    /\ UNCHANGED <<saved, stores, registered, snapshot, log>>

\* The task of a request may be cancelled where it is suspended.
Cancel(r) ==
    /\ requests[r].pc # "idle"
    /\ Answer(r, "cancelled")
    /\ UNCHANGED <<saved, stores, registered, snapshot, log>>

-------------------------------------------------------------------------------
(* The administrative requests *)

Entries(g) == IF g = NoStore THEN << >> ELSE stores[g].entries

\* Mutant of Retired: the store is dropped from the registry only.
NotRetired == stores

\* remove_runtime_routes: the registered store is popped and retired.
Retired == [g \in DOMAIN stores |-> IF g = registered THEN Retire(stores[g]) ELSE stores[g]]

\* mock_initialization: the new generation starts from `entries`.
Initialize(mock, entries) ==
    /\ saved' = mock
    /\ IF mock.recording = NoRecording
       THEN /\ stores' = Retired
            /\ registered' = NoStore
       ELSE /\ Len(stores) < MaxStores
            /\ stores' = Append(Retired, NewStore(mock.recording, entries))
            /\ registered' = Len(stores) + 1
    /\ answer' = NoAnswer
    /\ UNCHANGED <<requests, snapshot>>

\* PUT /mocks starts from nothing.
PutMock(mock) ==
    /\ Initialize(mock, << >>)
    /\ log' = << >>

\* Mutants of PreserveRecordings: one of the two conditions on the change is missing.
PreserveOtherUpstream(old, new) ==
    /\ old.recording # NoRecording
    /\ new.recording # NoRecording
    /\ old.recording.match_headers = new.recording.match_headers
PreserveOtherHeaders(old, new) ==
    /\ old.recording # NoRecording
    /\ new.recording # NoRecording
    /\ old.proxy_host = new.proxy_host

\* PATCH /mocks keeps the recordings when both configurations record and they
\* agree on the upstream and on the headers that make up a key.
PreserveRecordings(old, new) ==
    /\ old.recording # NoRecording
    /\ new.recording # NoRecording
    /\ old.recording.match_headers = new.recording.match_headers
    /\ old.proxy_host = new.proxy_host

PatchMock(mock) ==
    LET preserve == PreserveRecordings(saved, mock) IN
    /\ saved # NoMock
    /\ Initialize(mock, IF preserve THEN Entries(registered) ELSE << >>)
    /\ log' = IF preserve THEN log ELSE << >>

\* DELETE /mocks, of the path or of every path.
DeleteMocks ==
    /\ saved # NoMock
    /\ saved' = NoMock
    /\ stores' = Retired
    /\ registered' = NoStore
    /\ log' = << >>
    /\ answer' = NoAnswer
    /\ UNCHANGED <<requests, snapshot>>

\* DELETE /recordings, the collection or one entry; a missing store or entry is a 404.
DeleteRecordings ==
    /\ registered # NoStore
    /\ stores[registered].revision < MaxRevision
    /\ stores' = [stores EXCEPT ![registered] = DeleteAll(@)]
    /\ log' = << >>
    /\ answer' = NoAnswer
    /\ UNCHANGED <<saved, registered, requests, snapshot>>

DeleteRecording(key) ==
    /\ registered # NoStore
    /\ stores[registered].revision < MaxRevision
    /\ Holds(stores[registered].entries, key)
    /\ stores' = [stores EXCEPT ![registered] = DeleteOne(@, key)]
    /\ log' = Without(log, key)
    /\ answer' = NoAnswer
    /\ UNCHANGED <<saved, registered, requests, snapshot>>

\* GET /snapshot: the configuration and the entries, oldest write first.
ExportSnapshot ==
    /\ saved # NoMock
    /\ saved \in Exportable
    /\ saved.recording # NoRecording
    /\ snapshot' = [mock |-> saved, recordings |-> stores[registered].entries]
    /\ answer' = NoAnswer
    /\ UNCHANGED <<saved, stores, registered, requests, log>>

\* The schema of an entry, RecordingEntry, and the checks of headers and bodies beside
\* it.  That a reply is valid stands for all of them: the target and the matched header
\* values of its request are raw encodings without control characters, its status is
\* in 200..599, its headers are well-formed and fit for replay, and it has a body only
\* where it may.
Admitted(entry) == entry.reply.valid

\* What an import checks of the recordings of one mock before it changes anything.
ValidRecordings(mock, entries) ==
    LET config == mock.recording IN
    /\ Len(entries) <= config.max_items
    /\ \A i \in DOMAIN entries : Admitted(entries[i])
    /\ \A i \in DOMAIN entries : DOMAIN entries[i].id.headers = config.match_headers
    /\ \A i, j \in DOMAIN entries : entries[i].id = entries[j].id => i = j
    /\ TotalSize(entries) <= config.max_bytes

\* Mutant of ImportSnapshot: a merge keeps the entries that are already there.
ImportMerged ==
    /\ snapshot # NoSnapshot
    /\ ValidRecordings(snapshot.mock, snapshot.recordings)
    /\ Initialize(snapshot.mock, IF registered = NoStore THEN snapshot.recordings ELSE Entries(registered))
    /\ log' = snapshot.recordings

\* PUT or PATCH /snapshot with a document that was exported before; merging and
\* replacing are the same for a path the document names.  A document that does not
\* pass is refused with 422, and nothing happens.
ImportSnapshot ==
    /\ snapshot # NoSnapshot
    /\ ValidRecordings(snapshot.mock, snapshot.recordings)
    /\ Initialize(snapshot.mock, snapshot.recordings)
    /\ log' = snapshot.recordings

-------------------------------------------------------------------------------

Serve(r) ==
    \/ Identify(r)
    \/ \E sent \in Replies : UpstreamReply(r, sent)
    \/ UpstreamFailure(r)

Administer ==
    \/ \E mock \in Mocks : PutMock(mock) \/ PatchMock(mock)
    \/ DeleteMocks
    \/ DeleteRecordings
    \/ \E i \in DOMAIN Entries(registered) : DeleteRecording(Entries(registered)[i].id)
    \/ ExportSnapshot
    \/ ImportSnapshot

Next ==
    \/ \E r \in Requests : (\E http \in HttpRequests : Dispatch(r, http)) \/ Serve(r) \/ Cancel(r)
    \/ Administer

Spec == Init /\ [][Next]_vars

\* The event loop runs a request whose awaited result is there, and the HTTP
\* client gives up on an upstream after its timeout.
FairSpec == Spec /\ \A r \in Requests : WF_vars(Serve(r))

-------------------------------------------------------------------------------
(* Correctness *)

Configs == {m.recording : m \in Mocks} \ {NoRecording}
Keys == {recording_id(http, config) : http \in HttpRequests, config \in Configs}
Sizes == {sent.size : sent \in Replies}
EntrySet == [id : Keys, reply : [upstream : {m.proxy_host : m \in Mocks}, size : Sizes, valid : BOOLEAN]]
StoreSet == [config : Configs, entries : Seq(EntrySet), bytes : Nat, revision : Nat, active : BOOLEAN]
ASSUME NoSnapshotAssumption == NoSnapshot \notin [mock : Mocks, recordings : Seq(EntrySet)]
Answers ==
    {"static", "proxied", "forbidden", "failed", "replayed", "recording_not_found", "stored", "too_large",
     "superseded", "cancelled"}
RequestSet ==
    [pc : {"idle", "dispatched", "upstream"}, mock : Mocks \union {NoMock}, store : Nat,
     http : HttpRequests \union {NoMock}, revision : Nat]

\* The types of the state: what the fields of the store and of a request range over.
TypeOK ==
    /\ saved \in Mocks \union {NoMock}
    /\ stores \in Seq(StoreSet)
    /\ registered \in 0..Len(stores)
    /\ requests \in [Requests -> RequestSet]
    /\ answer \in (Requests \X Answers) \union {NoAnswer}
    /\ snapshot \in [mock : Mocks, recordings : Seq(EntrySet)] \union {NoSnapshot}
    /\ log \in Seq(EntrySet)

\* Exactly the registered generation takes writes, and it is configured as the
\* stored mock says: no update leaves a second live store, or a dead one in place.
OneLiveGeneration ==
    /\ \A g \in DOMAIN stores : stores[g].active <=> g = registered
    /\ registered = NoStore <=> (saved = NoMock \/ saved.recording = NoRecording)
    /\ registered # NoStore => stores[registered].config = saved.recording

\* The running byte count is the size of what is kept, in every generation, and
\* both limits hold after every write, deletion, update and import.
WithinLimits ==
    \A g \in DOMAIN stores :
        /\ stores[g].bytes = TotalSize(stores[g].entries)
        /\ Fits(stores[g].config, stores[g].entries, stores[g].bytes)

\* The import of an export is refused only for an entry that no import would take: a
\* collection never leaves the limits of the configuration it is exported with, holds
\* a key twice, or carries entries keyed by headers that are no longer matched on.
ExportRefusedOnlyForEntry ==
    snapshot # NoSnapshot /\ (\A i \in DOMAIN snapshot.recordings : Admitted(snapshot.recordings[i]))
        => ValidRecordings(snapshot.mock, snapshot.recordings)

\* An import restores what was exported, whatever the path holds by now: nothing
\* is merged, and what passed the validation is never evicted on the way in.
ImportRestores == [][ImportSnapshot => Entries(registered)' = snapshot.recordings /\ saved' = snapshot.mock]_vars

\* A live collection only replays what the configured upstream answered, however
\* often the mock was patched since.
RecordedFromUpstream ==
    \A i \in DOMAIN Entries(registered) : Entries(registered)[i].reply.upstream = saved.proxy_host

\* The collection is what an unlimited one would hold (a repeated key in its
\* latest place, deletions and resets obeyed), less its oldest writes.
NewestKept == \E k \in 1..Len(log) + 1 : Entries(registered) = From(log, k)

\* A generation that was retired never changes again, whatever its outstanding
\* requests and later administrative calls do.
RetiredStoresFrozen == [][\A g \in DOMAIN stores : ~stores[g].active => stores'[g] = stores[g]]_vars

\* An entry that was there is evicted only if it would not fit beside the newer ones.
EvictedOnlyToFit ==
    [][registered' # NoStore =>
        LET kept == Entries(registered)'
            last == Len(log') - Len(kept)
            more == <<log'[last]>> \o kept
        IN  last > 0 /\ log'[last] \in ToSet(Entries(registered))
            => ~Fits(stores'[registered'].config, more, TotalSize(more))]_vars

\* Every routed request is answered, whatever is reconfigured under it.
EveryRequestAnswered == \A r \in Requests : requests[r].pc # "idle" ~> requests[r].pc = "idle"

\* The requests that hold the live generation; those that ask the upstream count
\* for as long as no recordings were deleted since they read its revision.
Attached == {r \in Requests : requests[r].pc = "dispatched" /\ requests[r].store = registered /\ registered # NoStore}
Fetching ==
    {r \in Requests :
        /\ requests[r].pc = "upstream"
        /\ requests[r].store = registered
        /\ registered # NoStore
        /\ requests[r].revision = stores[registered].revision}

Contract == INSTANCE RecordingContract WITH
    collection <- Entries(registered),
    attached <- Attached,
    fetching <- Fetching,
    answer <- answer,
    exported <- IF snapshot = NoSnapshot THEN << >> ELSE snapshot.recordings

\* Record/replay keeps its contract: a reply is saved exactly when neither an
\* update since its dispatch nor a deletion since its upstream call cut it off,
\* and the caller is told so.
KeepsContract == Contract!Spec
===============================================================================
