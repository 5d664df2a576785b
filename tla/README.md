# Verification of proxy_mock

proxy_mock is an HTTP server that tests configure at runtime: a mock answers the requests
of a path with a static response, with the entries of a sequence, by rules, by proxying to
an upstream, or by recording and replaying an upstream. An administrative API
(`/__admin`) configures mocks, reads captured traffic, and exports and imports snapshots.
This directory holds TLA+ models of that server, the TLC runs that check them and the
proofs TLAPS checks.

## How the program runs

One process, one asyncio event loop, all state in memory. Code runs alone until it awaits
something that is not there yet. The `asyncio.Lock`s of the stores are never held across
such a point, so acquiring them never waits, and the administrative handlers hold
`admin_lock` around code that never suspends. Two consequences shape every model:

- an administrative request is one atomic step (its body is read before the lock);
- a mock request is a few atomic segments. It is suspended between *routing* (the router
  picks the handler registered for the path, and the handler is a closure over the mock, its
  cursors and its recording store) and *the arrival of its body*; and while it is *delayed*
  or *waits for the upstream*. With `PROXY_MOCK_LOG_REQUESTS=full` the middleware reads the
  body before routing, which removes the first suspension; in the other two modes it is
  there. The models keep it.

So the hard behaviour is not in locks. It is in requests that hold the objects of one
configuration generation while administrative requests replace them.

## Inventory

| Component | State | Operations | Interacts with | Correct when |
|---|---|---|---|---|
| Recording store (`services/recordings.py`) | entries in insertion order, byte count, revision, active flag, configuration | construct, trim, identify, save, read, delete, retire | the handler that captured it; the registry; snapshots | limits hold and the count is exact; newest writes survive; a retired or cleared store takes no late write |
| Handler of a mock (`utils.py`) | what its closure captured | loop guard, traffic, method check, replay, proxy and save, rules, sequence, delay | every store; the upstream | every routed request is answered, from the configuration it was routed to |
| Response sequences (`services/sequences.py`) | position per cursor object | take, state, reset, build | handler, registry | entries are given out once and in order until restarted; updates restart exactly what they name |
| Rule engine (`services/rule_engine.py`) | none | select, mark traffic, take, delay, proxy | sequences, traffic, upstream | first matching rule by priority, timestamp, submitted order |
| Mock storage and routes (`repositories/mock_storage.py`, `services/mock_service.py`) | configuration per path; routes; `app.state.sequences`; `app.state.recordings` | initialize, remove, clear | all of the above | the four agree on every path |
| Traffic store (`repositories/traffic_store.py`) | bounded deque of records | add, patch_last, list, clear, set_max_items | handler, 404 handler, settings | the newest records are there, each with its own rule |
| Settings | `record_unknown_traffic`, `max_items` | PATCH /settings | traffic, 404 handler | a change applies to what is captured later |
| Snapshots (`services/snapshot.py`) | none | export, validate, import (merge, replace) | storage, recordings, routes | an export is refused only for an entry that breaks the schema, and restores what it has; nothing changes when validation fails |
| Proxying (`services/proxy_service.py`) | process-wide instance id | allowlist, chain header, forward, map failures | upstreams, other instances | loops end; failures are 502 or 504 |
| Application (`app/factory.py`) | the above, per application | dispatch to the admin app, 404 handler, lifespan, preload | everything | the administrative namespace is never a mock's; a failed preload starts nothing |
| CLI (`cli.py`) | the server process | refuse options, validate the file, run, exit | application | nothing is served before the whole snapshot is in place, or after one was refused |
| pytest plugin (`pytest_plugin.py`) | the server thread, the clock | start, poll, yield, stop; clean up after each test | application, through uvicorn and HTTP | a URL is handed out only while its server serves; the server ends; tests do not see each other |
| Mock schemas (`api/schemas.py`, `domain/models.py`) | none | complete, validate, dump | administrative API, snapshots | what is stored could be put again and stays the same |
| Clients (`client/`) | none | build one document or query per call | administrative API | an argument that was passed is set, one that was not is left alone |
| OpenAPI, logging, serializers | none | - | - | - |

`PROJECT.json` lists the hazards of this code at their lines, with the properties that
watch them.

## Modules

`RecordingStore` gives the class `RecordingStore` as operators from store to store, one per
method. A store is a record with the entries in the order of the `OrderedDict`, the byte
count, the revision and the active flag. An entry is a key and a reply; a reply is the
upstream it came from, its serialized size, and whether the schema of an import admits it, which is
all the properties tell apart. The
SHA-256 of a key is taken to be injective, so a key is what is hashed. Trimming pops from the
old end while a limit is exceeded: the operator keeps the entries from the first position at
which what is left fits. The sum of sizes is the cardinality of the set of the entries'
bytes, a form the provers can reason about without recursion.

`RecordReplay` is the machine of one mock path. `stores` holds the store of every generation
ever made, because requests may still hold old ones; `registered` is the one in
`app.state.recordings`. Requests go through `Dispatch`, `Identify` (`Replay`, `Forward` or
`Static`), and `UpstreamReply` or `UpstreamFailure`; `Cancel` ends one wherever it is
suspended. Administrative actions: `PutMock`, `PatchMock`, `DeleteMocks`, `DeleteRecordings`,
`DeleteRecording`, `ExportSnapshot`, `ImportSnapshot`. A save takes whatever the upstream sends
(`Replies`) for whatever was asked; an import (`ValidRecordings`) passes each entry through its
schema first (`Admitted`): a reply carries a flag `valid` that stands for all that the schema asks
of it and of its request. `Initialize` is `mock_initialization`
and `Retired` is the part of `remove_runtime_routes` that retires the store. `log` is a history
variable: what the collection would hold without limits.

`RecordingContract` is what record/replay promises, without generations, revisions and byte
counts: requests attach to the mock they are routed to and fetch from the upstream; every
update cuts all of them off, every deletion of recordings cuts off those that fetch; a reply
enters the collection exactly when its request was not cut off, and the caller is told.
`RecordReplay` implements it (`KeepsContract`): a request is attached when the store it holds
is the registered one, and fetching when it also holds the current revision.

`SequenceCursors` is the machine of the sequences of one path. Cursors are objects with
identity in a heap (`cursors`); `sequences` registers some of them by key (0 is the default
sequence, `i` the rule in place `i`), requests hold others. `Dispatch`, `Reserve` (rule
selection and `take` in one segment), `Finish` after a delay or a proxied rule, `Cancel`;
`PutMock` (also a snapshot that names the path), `PatchMock` with the set of fields its document
names, `DeleteMocks`, `ResetSequence`. Reading a state and exporting change nothing and have
no action. A mock with an upstream has no sequences and appears here as one without any.

`SequenceContract` has no cursor objects: each sequence is the list of entries not given out
yet. Reserving from a live sequence takes its head, or what its policy says when it is empty;
a PATCH goes on with the sequences it does not name; a request that was cut off consumes
nothing visible. `SequenceCursors` implements it: a captured sequence is live when the
captured cursor is the registered one.

`TrafficCapture` has the traffic store, the settings and the requests up to the point where
their record is made. `Route` is everything before the first await, so it is where the
router's 405, the loop guard's 508 and the reading of `record_unknown_traffic` happen.
`Capture` adds the record and marks it with the matched rule in one segment. `captured` is
the history of all records since the store was cleared.

`MockPaths` has the paths: what a path names, its base, and the spaces and slashes at its
end, which `Normalize` takes off as `normalize_mock_path` does, spaces and then slashes, once
each. A wildcard path stands for a template such as `/{rest:path}`.

`MockRegistry` is the machine of several paths. `app` is one record: the storage in the order
of its dictionary, the routes in the order the router tries them, the registered sequences and
recordings, and the objects both refer to. Every function of `mock_service.py` is an operator
from state to state (`SetMockData`, `RemoveRuntimeRoutes`, `CleanupStorage`,
`MockInitialization`), and keeps the calls to `Normalize` that the code makes, because a path
passes through up to five. Deletions and the cleanup keep the routes at certain positions
(`Picked`), and the cleanup takes all stored paths at once: a route goes when it belongs to any of
them, in whatever order they are taken down. An object counts only by its progress, how many entries are given
out or recorded. Actions: `PutMock`, `PatchMock`, `DeleteMock`, `DeleteMocks`,
`ExportSnapshot`, `ImportSnapshot` by `merge` or `replace`, and `Serve`, the router with
`AdminDispatch` before it. A PATCH here names neither the sequence nor what recordings depend
on; the other patches are in `SequenceCursors` and `RecordReplay`. `event` is what the last
request was told.

`RegistryContract` is what the registry promises without routes, registries and objects: a map
from normal paths to mocks, and the order in which overlapping paths are tried. A document is
loaded as a whole: what it names is as it says, and the latest of two spellings counts; a
failed import has loaded what comes before the path it failed at.
`MockRegistry` implements it (`KeepsContract`).

`ProxyChain` has several applications, some of which share a process and with it the instance
id. A client request is a list of hops; a hop is routed and guarded (`Handle`), forwards
(`Forward`, which makes the next hop with the extended chain), and ends by `Reply`, `Lose` or
`Timeout`. A timeout does not end the next hop. `Configure` replaces or removes a mock at any
time; `Restart` gives a process a new id and loses its mocks and the hops it was serving.

`ServerLifecycle` has uvicorn and the application's lifespan as one automaton, the launcher
(the command line or the fixture `proxy_mock_url`), the clock of the deadline, and for the
fixture the tests with what they leave behind. The fixture runs in another thread, so reading
`server.started`, `thread.is_alive()` and the clock are three steps. A request of a test may
arrive at any later time, also between the two calls of a later teardown. uvicorn is modelled from
how the code uses it: it runs the lifespan, binds or fails to bind, sets `started`, looks at
`should_exit`, runs the end of the lifespan and returns.

`MockDocuments` has the documents of one mock as partial functions from fields to values:
`MockPayload` (the two client calls), `ValidFields` and `ValidSequences` (the schemas),
`ModelDump` (the stored representation), `Put` and `Patch` (the handlers). `Documents` are
also sent as they are, nulls included.

`MCRecordReplay`, `MCSequenceCursors`, `MCTrafficCapture`, `MCMockRegistry`, `MCProxyChain`,
`MCServerLifecycle` and `MCMockDocuments` hold the small instances. Definitions named as
mutants in the modules are wrong variants of the definition that follows them: each property
has one that it refutes, so that no property is vacuous.

The machines share the handlers they model from different sides. `RecordReplay` and
`SequenceCursors` have one path and requests in flight; `MockRegistry` has several paths and
requests that are answered in one step; `ProxyChain` has several servers with one path each.
What links them is `mock_initialization`, which is in all four (`Initialize`,
`MockInitialization`, `Configure`).

## Runs

| Run | Checks | Instance |
|---|---|---|
| `record_replay_races` | `TypeOK`, `OneLiveGeneration`, `RetiredStoresFrozen`, `KeepsContract` | 2 requests, 1 target, 4 configurations, 2 reply sizes, 3 generations, 1 deletion each |
| `record_replay_collections` | `WithinLimits`, `RecordedFromUpstream`, `NewestKept`, `ExportRefusedOnlyForEntry`, `EvictedOnlyToFit`, `ImportRestores`, `KeepsContract`, `EveryRequestAnswered` | 1 request, 2 header values (1 or 2 keys), 5 configurations, 2 replies of which one is not valid, 2 generations, exports of one configuration |
| `sequence_races` | `KeepsContract` | 2 requests, 3 mocks that share rules, 4 cursors |
| `sequence_choice` | `TypeOK`, `SequencesMatchMock`, `KeepsContract`, `EveryRequestAnswered` | 1 request, 4 mocks with overlapping and proxied rules, 4 cursors |
| `traffic_capture` | `TypeOK`, `NewestKept`, `DroppedOnlyWhenFull` | 4 requests, limits 1 to 3 |
| `traffic_unrecorded` | refutes `EveryRequestIsRecorded` | 2 requests |
| `mock_registry` | `TypeOK`, `RegistriesAgree`, `ImportRestores`, `KeepsContract` | 6 spellings of 3 paths, 3 mocks, 6 URLs, 2 methods, 12 documents |
| `mock_registry_failed_import` | refutes `RejectedImportChangesNothing` | 2 documents, one with a deep spelling of a reserved path |
| `proxy_chain` | `TypeOK`, `ServedOncePerInstance`, `RefusedOnlyInLoop`, `EveryHopEnds` | 1 request, 3 applications in 2 processes, 5 mocks, 1 restart |
| `proxy_chain_recorded` | refutes `LoopRejectionsNotRecorded` | as `proxy_chain` |
| `server_lifecycle` | `ServedOnlyWhenReady`, `UrlOnlyWhileServing`, `TestsStartClean`, `ServerEnds` | both launchers, 4 files, 3 tests |
| `mock_documents` | `StoredIsLegal`, `PatchSetsOnlyWhatWasPassed`, `ConfigureIsPatchOfDefault` | up to 3 of 8 arguments per call, 1 to 6 values each |

Why the bounds are enough to be interesting. Two requests and three generations let one
request hold a generation that was replaced twice while the other holds the newest, and both
save under the same key; one deletion per generation gives a request a stale revision. In
the collections run, entries of sizes 1 and 2 meet limits of 1 or 2 items and 1 to 4 bytes:
collections are exactly full, over by one entry, and over by two; one request suffices there,
because what a collection holds depends only on the order in which replies complete, which the
races cover. There the exported mock shares its upstream with one other, which records under other
keys, so a patch could bring it entries it must not export; it may hold an entry that the
import refuses, or import while a reply to the generation before is on its way. The registry run has a wildcard that overlaps both other paths, a path in three
spellings, and the administrative prefix in spellings that normalize to it after two and
after three passes; its documents include every reason to refuse one and two spellings of one path. In the chain
run a request can meet an application twice in one process, loop through the other process,
and come back after a restart. Three tests let a request of the first arrive in the third.

`MaxStores`, `MaxRevision`, `MaxCursors`, `MaxProgress`, `MaxRestarts`, `MaxTests` and
`Exportable` are bounds of the model, not of the program: an action whose bound is reached is
disabled (`MaxProgress` is also the length of every sequence and the limit of every
collection). Requests are symmetric in the races and traffic runs; runs with liveness use no
symmetry. `mock_registry` and `mock_documents` ignore the last event when they compare states
(`VIEW`): their properties are of the rest of the state and of single steps. Deadlock is checked
in all runs except `server_lifecycle`, where a process that ended really stops.

Fairness. `FairSpec` of `RecordReplay` and `SequenceCursors` asks for weak fairness of the
steps that serve a request, and of nothing else. The event loop runs every task whose awaited
result is there; a configured delay ends; the HTTP client has a timeout (`_proxy_timeout` is
always positive), so that either the reply or the failure comes. `ProxyChain` asks the same of
every request's hops. `ServerLifecycle` asks it of the server's thread (`Run`), of the
fixture's polling and join, and of the return of `uvicorn.run`. No administrative request, no arrival, no
restart, no test, no signal and no clock tick is fair.

## Where the code and its documentation disagree

- `traffic_unrecorded`: `src/README.md:656-661` says that every request of a path with a mock is
  recorded before its method is checked and before a loop is refused. The routes are
  registered with their methods, so the router answers 405 before any handler runs, and the
  loop guard is the first statement of the handler. Neither request leaves a record.
- `mock_registry_failed_import`: `src/README.md:254-255` says that invalid snapshots are rejected
  before storage changes, and `services/snapshot.py:224` that reserved paths are checked
  before mutation. Normalization is not idempotent, the validation applies it twice and
  `mock_initialization` once more: the path `/__admin / /` is refused only after the storage was
  cleared.
- `proxy_chain_recorded`: `src/README.md:601-602` says that loop rejections are not recorded. A
  recording mock that proxies to its own server gets the 508 as the reply of its upstream and
  saves it.

One more disagreement is in the model and has no run of its own. `src/README.md:252-254` says of `PUT`
and `PATCH /snapshot` that "both accept the exported document". The schema of an entry is applied
by the import (`snapshot.py:132`) and not by `save` (`recordings.py:98`): a reply with a status of
600 or above, or with a control character in a header value, is saved and exported, and then the
import refuses the whole document, as `tests/test_snapshot_v2.py:199` expects of it. So an export is not
always importable; `ExportRefusedOnlyForEntry` states what is true, that nothing but such an entry
makes an import refuse it.

## Proofs

`RecordingStoreProofs` has the lemmas about the store: concatenation and splitting of
collections and of their byte totals (no two entries with distinct keys share a byte),
leaving out a key, existence of the least position that fits, and from these that
construction, writing and deleting keep a store `Bounded`: no repeated key, an exact byte
count, both limits respected. They hold for any set of keys, sizes and limits.

`RecordReplayProofs` proves, for any requests, configurations, sizes and bounds that satisfy
the assumptions of `RecordReplay`:

| Theorem | States |
|---|---|
| `Inductive` | `Spec => []IInv` |
| `TypeCorrect` | `Spec => []TypeOK` |
| `OneGeneration` | `Spec => []OneLiveGeneration` |
| `LimitsHold` | `Spec => []WithinLimits` |
| `RetiredFrozen` | `Spec => RetiredStoresFrozen` |
| `ContentInductive` | `Spec => [](IInv /\ Content)` |
| `NewestAreKept` | `Spec => []NewestKept` |
| `FromConfiguredUpstream` | `Spec => []RecordedFromUpstream` |
| `ExportsRefusedOnlyForEntry` | `Spec => []ExportRefusedOnlyForEntry` |
| `ImportsRestore` | `Spec => ImportRestores` |
| `EvictionsNeeded` | `Spec => EvictedOnlyToFit` |
| `Refinement` | `Spec => KeepsContract` |

No conjunct is inductive alone, so `IInv` joins `TypeOK`, `OneLiveGeneration`, `InFlight` (what
a request has captured is a configuration the path had and a generation that exists) and `Kept`
(every store is `Bounded`, and the history has no repeated key). A replaced entry is
subtracted from the count once, which is right only while its key is there once; trimming
ends within the limits only while the count is right; an administrator can only export what
is typed because the registered store is one that exists. There is one lemma per action, and `Serve`
and `Administer` are split along their disjuncts. `RetiredFrozen` follows from `IInv` and the
observation that a save into an inactive store answers `superseded` and changes nothing.

The content of the collections needs a second invariant on top of the first. `Content` says
that a request is not ahead of the store it captured, and captured the stored mock if that
store is still registered (`Captured`), that each collection is the newest end of its history (`NewestKept`), and that its entries were
recorded under the configured host or imported with it (`FiledEntries`). The
last one is what both `RecordedFromUpstream` and `ExportRefusedOnlyForEntry` need: as a collection, an
export passes (`Restorable`) because the entries of the exported store are filed as its configuration
says. That each entry passes its schema is not provable, and not so. `ImportsRestore` comes from
trimming that leaves a collection alone which fits. `Refinement` goes through the actions: a
store accepts a reply exactly when it is the registered generation at the captured revision,
which by `OneLiveGeneration` is what the contract calls attached and fetching; the collection before
and after is that of the contract because trimming keeps an end of it and evicts no more than it must.
It is assumed that the value standing for "no snapshot" is no snapshot.

`ProxyChainProofs` proves, for any applications, processes, mocks, requests and restarts:

| Theorem | States |
|---|---|
| `Inductive` | `Spec => []IInv` |
| `TypeCorrect` | `Spec => []TypeOK` |
| `ServedOnce` | `Spec => []ServedOncePerInstance` |
| `LoopsAreLoops` | `Spec => []RefusedOnlyInLoop` |

That no instance serves a request twice is about pairs of hops and not inductive. `IInv` says
of every hop that its chain lists exactly the instances of the hops before it (`Linked`), and
what it may have done by itself (`Sound`): one that made another was let through by the guard,
and one that was let through is not in its chain. An id that includes the number of starts
of its process stands for `uuid4`; nothing else is assumed of it.

`TrafficCaptureProofs` proves `TypeCorrect` (`Spec => []TypeOK`, the limit included),
`NewestRecords` (`Spec => []NewestKept`) and `FullStoresDrop` (`Spec => DroppedOnlyWhenFull`) for
any requests, rules and limits. The two invariants are inductive together. The lemmas are about `IsTail`, the sequence being the end of another: it
is what `Newest` leaves, it is transitive, and it survives appending the same record and
marking the last one. That `Capture` marks the record it has just added needs that at least one record
fits, which is what `LimitsAssumption` says.

`ServerLifecycleProofs` proves, for any files and any number of tests:

| Theorem | States |
|---|---|
| `Inductive` | `Spec => []IInv` |
| `ReadyBeforeServing` | `Spec => []ServedOnlyWhenReady` |
| `UrlServes` | `Spec => []UrlOnlyWhileServing` |
| `CleanStarts` | `Spec => []TestsStartClean` |

Three facts carry it, and `IInv` adds them to the three properties. Only the launcher tells the
server to exit, and it hands out no URL after that; a server that has started serves until
it is told to; and between the two calls of a teardown there is no mock left, so that a
request that comes in then is recorded as nobody's.

`SequenceCursorsProofs` proves, for any requests, mocks and number of cursors:

| Theorem | States |
|---|---|
| `Inductive` | `Spec => []IInv` |
| `TypeCorrect` | `Spec => []TypeOK` |
| `CursorsOfMock` | `Spec => []SequencesMatchMock` |
| `HoldingInductive` | `Spec => []HInv` |
| `Refinement` | `Spec => KeepsContract` |

`IInv` adds that every registered cursor exists. No step changes what a cursor is for;
an update keeps the cursors it hands on where they are and appends the new ones, one for each key
(`Listed`), so that the two kinds never coincide. From the schema it is assumed that a
sequence has a response and that rules form a list, and that "no response" is none.

The refinement needs `Holding` as well: no request holds, under one key, the cursor that is
registered under another. Only then does an update that restarts one sequence cut off exactly the
requests that captured that one. The contract's lists are computed from the cursors: what is left
is the list of responses from the position on.

`MockRegistryProofs` proves, for any paths, mocks, URLs, methods and documents:

| Theorem | States |
|---|---|
| `Inductive` | `Spec => []IInv` |
| `TypeCorrect` | `Spec => []TypeOK` |
| `Agreement` | `Spec => []RegistriesAgree` |
| `ArrangedInductive` | `Spec => []ArrangedInv` |
| `Refinement` | `Spec => KeepsContract` |
| `Restores` | `Spec => ImportRestores` |

`IInv` says that the state is `Consistent` and that the objects kept are those referred to.
`Consistent` has the types, that stored paths are normal and occur once, and the agreement of
routes and registries with the stored mocks stated without the choice of an entry (`Agreed`).
The intermediate states of one request are not states of the machine, so the lemmas are
about the operators: `SetMockData` changes what is stored and nothing else, removing the routes of
the stored paths leaves none, and `MockInitialization` of any consistent state is consistent;
an import is a least-counterexample argument over the mocks initialized so far, a failed one
included. Two facts about paths carry it: normalizing keeps a normal path, and a path and its
trailing-slash variant determine each other (only "/" has none).

The contract and the restoring import need more, `ArrangedInv`: each mock owns its object
(`Owned`), so that answering one path moves no other one on; no path occurs twice in the order,
and the routes of a path stand together at its place in it (`Ordered`), so that the first
route that takes a request belongs to the first path that does (`FirstAnswers`). One lemma
says what initializing a mock does to all of this (`Establishing`): it is held as given, and
its path moves to the end. An import repeats that for each mock of the document (`ImportReaches`),
and the result is the closed form in which the contract loads a document: the last mock of each
path counts, and each path stands where it came last (`Latest`). The lemmas under "Selections of
selections" say that taking elements out of a sequence in two steps is taking them out in one;
they are about `Picked`, which deletions, the order and `Latest` are all made of.

`SpellingsAssumption` is a restriction on the inputs, not a fact about the code: four
normalizations leave every submitted path normal. A request registers its objects and routes
after four of them and stores the mock after five, so for `/a` followed by more
alternations of slashes and spaces than that the functions disagree on the key, and the properties are
false: the storage has one spelling and the registries another. `DocumentsAssumption` is the schema of a snapshot.

`MockDocumentsProofs` proves, for any field values:

| Theorem | States |
|---|---|
| `Inductive` | `Spec => []IInv` |
| `LegalStored` | `Spec => []StoredIsLegal` |
| `PatchSetsPassed` | `Spec => PatchSetsOnlyWhatWasPassed` |
| `ConfigureFromDefault` | `Spec => ConfigureIsPatchOfDefault` |

`StoredIsLegal` is inductive once it is said that a stored document has `mock_data`. The lemmas are
about `ModelDump`: it is idempotent, what it completes validates, and merging changes into a
stored document validates exactly when the patch does. That a null is no document of
fields (`NullAssumption`, `DefaultAssumption`) holds in Python by type.

Only model-checked: liveness (`EveryRequestAnswered`, `EveryHopEnds`, `ServerEnds`), which needs
fairness and `ENABLED` and is out of the reach of TLAPS. Every other property of a passing run
is the statement of a theorem above.

## Not modelled

- Matching of rule bodies, headers and queries: a rule is given the set of requests it
  matches.
- Header filtering, the bytes of recorded replies, URL rewriting, msgpack and base64 bodies,
  snapshot formats and envelope fields, error bodies, OpenAPI, logging. They keep no state. What the schema
  of an import looks at in a recorded entry (status, target, header values, empty bodies) is
  abstracted to whether it passes; which of the checks failed is left out.
- In `MockRegistry` the recordings of a document are counted: their entries are taken as admitted.
- Query checks of the administrative API, and reading resources (mocks, traffic with its
  filters, settings, sequence state): they change nothing. A cancelled administrative request changes
  nothing before its one step and everything in it.
- The client calls other than `configure_mock` and `patch_mock`, which build one request
  each.
- `PROXY_MOCK_URL`: the fixture then starts and stops nothing. A teardown call that
  fails, which leaves the traffic in place, and settings that a test changed, which nobody resets.
- In `ServerLifecycle` a request is recorded in the step in which it comes in, as with
  `PROXY_MOCK_LOG_REQUESTS=full`, the default. In the other modes its body may arrive after it was routed; a
  request routed before a teardown and recorded after it leaves a record of the earlier test.
- `extra_info` and `timeout` of a mock document behave like `body` there and are left out.

## Plan

1. Composition of `TrafficCapture`, `SequenceCursors` and `RecordReplay` over one handler.
2. `RuleSelection`: the sort of the rule engine as a pure algorithm against its definition by
   maximum; listing of traffic with filters and limit.
