----------------------------- MODULE MockRegistry -----------------------------
(***************************************************************************)
(* The mocks of several paths: the storage, the runtime routes, the        *)
(* registered sequences and the registered recordings, which every         *)
(* administrative request has to change together, and the router, which    *)
(* answers from the first route that matches.                              *)
(*                                                                         *)
(* Each administrative request is one step, under admin_lock.  It reads    *)
(* its path in one spelling and hands it through several functions that    *)
(* each normalize it once more; the operators below keep those calls.      *)
(* A sequence or a recording store is an object in a heap: the registries  *)
(* name one, and the handler of a route holds one.  All that counts of it  *)
(* here is its progress, the entries given out or the recordings kept.     *)
(***************************************************************************)
EXTENDS Integers, FiniteSets, Functions, MockPaths

CONSTANTS
    Paths,        \* the spellings administrators use
    Urls,         \* the paths clients request
    Methods,      \* the methods clients use
    Mocks,        \* the configurations a mock may be given
    Documents,    \* the snapshots administrators submit
    MaxProgress   \* bound: entries of a sequence, recordings of a collection

\* A mock has sequences or records, never both (MockResource).
ASSUME MocksAssumption ==
    \A m \in Mocks : m.kind \in {"static", "sequence", "recording"} /\ m.methods \subseteq Methods
ASSUME BoundsAssumption == MaxProgress \in Nat \ {0}

\* A path that is spelled with so many alternations of slashes and spaces that four
\* normalizations leave some is none of these.
ASSUME SpellingsAssumption ==
    \A path \in Paths \union {item.path : item \in UNION {Range(document) : document \in Documents}} :
        IsPath(path) /\ Normalize(Key(path)) = Key(path)
ASSUME DocumentsAssumption ==
    \A document \in Documents :
        document \in Seq([path : {item.path : item \in Range(document)}, mock : Mocks, recordings : Nat])

VARIABLES
    app,   \* app.state and app.routes
    event  \* what the last request was told

vars == <<app, event>>

NoObject == 0
NoEvent == [what |-> "none"]

EmptyState ==
    [storage |-> << >>,         \* the mocks, in the order their paths were first stored
     routes |-> << >>,          \* in the order they are tried
     sequences |-> [p \in {} |-> NoObject],
     recordings |-> [p \in {} |-> NoObject],
     objects |-> [o \in {} |-> 0]]

Init == app = EmptyState /\ event = NoEvent

-------------------------------------------------------------------------------
(* The storage *)

IsStored(s, key) == \E i \in DOMAIN s.storage : s.storage[i].path = key
StoredPaths(s) == {s.storage[i].path : i \in DOMAIN s.storage}
StoredMock(s, key) == (CHOOSE entry \in ToSet(s.storage) : entry.path = key).mock

\* Mutant of SetMockData: a path that is stored already is stored once more.
SetMockDataAppended(s, path, mock) == [s EXCEPT !.storage = Append(@, [path |-> Normalize(path), mock |-> mock])]

\* A path that is stored already keeps its place.
SetMockData(s, path, mock) ==
    LET key == Normalize(path)
        entry == [path |-> key, mock |-> mock]
    IN  [s EXCEPT !.storage =
            IF IsStored(s, key) THEN [i \in DOMAIN @ |-> IF @[i].path = key THEN entry ELSE @[i]] ELSE Append(@, entry)]

DeleteMockData(s, path) == [s EXCEPT !.storage = Picked(@, {i \in DOMAIN @ : @[i].path # Normalize(path)})]

-------------------------------------------------------------------------------
(* Routes and registries *)

\* Mutant of RouteCandidates: the trailing-slash variant stays.
RouteCandidatesPlain(path) == {Normalize(path)}

RouteCandidates(path) == {Normalize(path)} \union ({Slashed(Normalize(path))} \ {Slashed(Plain(Root))})

\* Called for every one of the paths.
RemoveRuntimeRoutes(s, paths) ==
    [s EXCEPT !.sequences = Without(@, {Normalize(path) : path \in paths}),
              !.recordings = Without(@, {Normalize(path) : path \in paths}),
              !.routes = Picked(@, {i \in DOMAIN @ : \A path \in paths : @[i].path \notin RouteCandidates(path)})]

\* Mutant of CleanupStorage: the storage is cleared before its paths are read.
CleanupStorageFirst(s) == [s EXCEPT !.storage = << >>]

CleanupStorage(s) ==
    [RemoveRuntimeRoutes(s, StoredPaths(s)) EXCEPT !.storage = << >>]

\* The objects a handler or a registry refers to.
Live(s) == (Range(s.sequences) \union Range(s.recordings) \union {s.routes[i].object : i \in DOMAIN s.routes}) \ {NoObject}

Registered(s, key) ==
    IF key \in DOMAIN s.recordings THEN s.recordings[key]
    ELSE IF key \in DOMAIN s.sequences THEN s.sequences[key] ELSE NoObject
Progress(s, key) == IF Registered(s, key) = NoObject THEN 0 ELSE s.objects[Registered(s, key)]

\* validate_mock_path refuses the path only in the spelling it gets after one more normalization.
ValidPath(path) == ~Reserved(Normalize(path))

\* The route and, except for "/", its trailing-slash variant, after all others.
AddRoutes(s, path, mock, object) ==
    LET route(p) == [path |-> p, mock |-> mock, object |-> object]
    IN  [s EXCEPT !.routes =
            @ \o IF path = Plain(Root) THEN <<route(path)>> ELSE <<route(path), route(Slashed(path))>>]

\* mock_initialization of a path in the spelling it was validated in: store, take the
\* old routes and registrations down, register and route.
\* `progress` is that of the previous object when a patch hands it on.
MockInitialization(s, path, mock, progress) ==
    LET key == Normalize(path)
        removed == RemoveRuntimeRoutes(SetMockData(s, Normalize(path), mock), {key})
        object == IF mock.kind = "static" THEN NoObject
                  ELSE CHOOSE o \in 1..Cardinality(Live(removed)) + 1 : o \notin Live(removed)
    IN  AddRoutes(
            [removed EXCEPT !.sequences = With(@, key, IF mock.kind = "sequence" THEN object ELSE NoObject),
                            !.recordings = IF mock.kind = "recording" THEN With(@, key, object) ELSE @,
                            !.objects = IF object = NoObject THEN @ ELSE With(@, object, progress)],
            key, mock, object)

\* What nothing refers to any more is gone.
Become(s) == app' = [s EXCEPT !.objects = Restrict(@, Live(s))]

-------------------------------------------------------------------------------
(* PUT, PATCH and DELETE /mocks *)

Tell(outcome) == event' = outcome

\* A path is refused with 422 by validate_mock.  One that only turns out to be
\* reserved when mock_initialization normalizes it again ends the request with 500.
Configure(what, path, mock, progress) ==
    LET value == Normalize(Normalize(path))
    IN  IF Reserved(value)
        THEN Tell([what |-> "refused"]) /\ UNCHANGED app
        ELSE IF ~ValidPath(value)
        THEN Tell([what |-> "failed"]) /\ UNCHANGED app
        ELSE /\ Become(MockInitialization(app, Normalize(value), mock, progress))
             /\ Tell([what |-> what, path |-> Normalize(Normalize(value)), mock |-> mock])

PutMock(path, mock) == Configure("put", path, mock, 0)

\* A patch that names neither the sequence nor what the recordings depend on hands them on.
PatchProgress(key, saved, mock) == IF saved.kind = mock.kind THEN Progress(app, key) ELSE 0

PatchMock(path, mock) ==
    LET key == Normalize(Normalize(path))
    IN  IF IsStored(app, key)
        THEN Configure("patch", path, mock, PatchProgress(key, StoredMock(app, key), mock))
        ELSE Tell([what |-> "not found"]) /\ UNCHANGED app

DeleteMock(path) ==
    LET identity == Normalize(path)
    IN  IF IsStored(app, Normalize(identity))
        THEN /\ Become(RemoveRuntimeRoutes(DeleteMockData(app, identity), {identity}))
             /\ Tell([what |-> "delete", path |-> Normalize(identity)])
        ELSE Tell([what |-> "not found"]) /\ UNCHANGED app

DeleteMocks == Become(CleanupStorage(app)) /\ Tell([what |-> "delete all"])

-------------------------------------------------------------------------------
(* Snapshots: a document is a sequence of mocks, each with its recordings *)

Exported(s) ==
    [i \in DOMAIN s.storage |->
        LET entry == s.storage[i]
        IN  [path |-> entry.path, mock |-> entry.mock,
             recordings |-> IF entry.mock.kind = "recording" THEN s.objects[s.recordings[entry.path]] ELSE 0]]

\* A mock that records but has no store is a KeyError.
ExportSnapshot ==
    /\ Tell(IF \A entry \in ToSet(app.storage) :
                   entry.mock.kind = "recording" => entry.path \in DOMAIN app.recordings
            THEN [what |-> "export", document |-> Exported(app)]
            ELSE [what |-> "failed export"])
    /\ UNCHANGED app

\* parse_snapshot: no path twice after one normalization, recordings only where they
\* are configured and within their limit.
Parses(document) ==
    /\ \A i, j \in DOMAIN document : Normalize(document[i].path) = Normalize(document[j].path) => i = j
    /\ \A i \in DOMAIN document :
        document[i].recordings <= IF document[i].mock.kind = "recording" THEN MaxProgress ELSE 0

\* What import_snapshot validates before it changes anything.
Importable(document) ==
    Parses(document) /\ \A i \in DOMAIN document : ValidPath(Normalize(document[i].path))

Initialize(s, item) == MockInitialization(s, Normalize(Normalize(Normalize(item.path))), item.mock, item.recordings)

\* The mocks are initialized one by one, up to one whose path is refused only now.
Failing(document) == {i \in DOMAIN document : ~ValidPath(Normalize(Normalize(document[i].path)))}
Initialized(s, document) ==
    LET after[n \in 0..Len(document)] == IF n = 0 THEN s ELSE Initialize(after[n - 1], document[n])
    IN  after[IF Failing(document) = {} THEN Len(document) ELSE Min(Failing(document)) - 1]

\* Mutant of ImportStart: a merge clears the storage as well.
ImportStartEmpty(mode) == CleanupStorage(app)

ImportStart(mode) == IF mode = "replace" THEN CleanupStorage(app) ELSE app

ImportSnapshot(document, mode) ==
    IF Importable(document)
    THEN /\ Become(Initialized(ImportStart(mode), document))
         /\ Tell([what |-> IF Failing(document) = {} THEN "import" ELSE "failed import",
                  mode |-> mode, document |-> document])
    ELSE /\ Tell([what |-> "rejected import"])
         /\ UNCHANGED app

-------------------------------------------------------------------------------
(* The router *)

\* A route whose methods match goes first; otherwise the first route of the path answers 405.
Candidates(url) == {i \in DOMAIN app.routes : Matches(app.routes[i].path, url)}
Full(url, method) == {i \in Candidates(url) : method \in app.routes[i].mock.methods}

\* AdminDispatch runs before any route is considered.
Dispatched(url) == IF Reserved(url) THEN "administration" ELSE "mocks"

\* repeat_last keeps the cursor at its end; a full collection keeps its size.
Advanced(progress) == IF progress < MaxProgress THEN progress + 1 ELSE progress

\* A mock answers with its configuration; a sequence with its next entry as well.
Answer(url, method, route) ==
    LET progress == IF route.object = NoObject THEN 0 ELSE app.objects[route.object]
    IN  /\ app' = IF route.object = NoObject THEN app ELSE [app EXCEPT !.objects[route.object] = Advanced(@)]
        /\ Tell([what |-> "answer", url |-> url, method |-> method, mock |-> route.mock, progress |-> progress])

Refuse(url, method, status) == Tell([what |-> status, url |-> url, method |-> method]) /\ UNCHANGED app

Serve(url, method) ==
    IF Dispatched(url) = "administration" THEN Refuse(url, method, "administration")
    ELSE IF Full(url, method) # {} THEN Answer(url, method, app.routes[Min(Full(url, method))])
    ELSE Refuse(url, method, IF Candidates(url) # {} THEN "405" ELSE "404")

-------------------------------------------------------------------------------

Next ==
    \/ \E path \in Paths : DeleteMock(path) \/ \E mock \in Mocks : PutMock(path, mock) \/ PatchMock(path, mock)
    \/ DeleteMocks
    \/ ExportSnapshot
    \/ \E document \in Documents, mode \in {"merge", "replace"} : ImportSnapshot(document, mode)
    \/ \E url \in Urls, method \in Methods : Serve(url, method)

Spec == Init /\ [][Next]_vars

-------------------------------------------------------------------------------
(* Correctness *)

\* The types of the state; no path is stored twice, and every object that is
\* referred to exists and stays within its length.
TypeOK ==
    /\ \A i, j \in DOMAIN app.storage : app.storage[i].path = app.storage[j].path => i = j
    /\ \A i \in DOMAIN app.storage : app.storage[i].mock \in Mocks
    /\ app.objects \in [Live(app) -> 0..MaxProgress]
    /\ DOMAIN app.recordings \subseteq DOMAIN app.sequences

\* The storage, the routes and the two registries tell of the same mocks after any
\* sequence of configurations, deletions and imports: a path has routes exactly when
\* it is stored, they serve the stored configuration, and they advance the very
\* object that the state resource, the recordings resource and the export read.
RegistriesAgree ==
    /\ StoredPaths(app) = DOMAIN app.sequences
    /\ DOMAIN app.recordings = {p \in StoredPaths(app) : StoredMock(app, p).kind = "recording"}
    /\ {app.routes[i].path : i \in DOMAIN app.routes} = UNION {RouteCandidates(p) : p \in StoredPaths(app)}
    /\ \A i \in DOMAIN app.routes : LET p == Normalize(app.routes[i].path) IN
        /\ app.routes[i].mock = StoredMock(app, p)
        /\ app.routes[i].object = Registered(app, p)

\* The paths in the order in which their routes are tried.
RouteOrder(s) ==
    LET paths == [i \in DOMAIN s.routes |-> s.routes[i].path]
    IN  Picked(paths, {i \in DOMAIN paths : Normalize(paths[i]) = paths[i]})

\* A replacing import of whatever the server exports gives back the exported
\* mocks and recordings, and settles the order of overlapping paths: from then on
\* they are tried in the order of the document, which is also what the next
\* export has.
ImportRestores ==
    [][event'.what = "import" /\ event'.mode = "replace" =>
        LET document == event'.document
            normal == \A i \in DOMAIN document : Normalize(document[i].path) = document[i].path
        IN  normal => Exported(app') = document /\ RouteOrder(app') = [i \in DOMAIN document |-> document[i].path]]_vars

\* An import that does not succeed leaves every mock as it was ("Invalid snapshots
\* are rejected before storage changes"; reserved paths "are checked before mutation").
RejectedImportChangesNothing ==
    [][event'.what \in {"rejected import", "failed import"} => app' = app]_vars

\* What each path has, and the order in which overlapping paths answer.
Held(s) == [p \in StoredPaths(s) |-> [mock |-> StoredMock(s, p), progress |-> Progress(s, p)]]
Contract == INSTANCE RegistryContract WITH
    mocks <- Held(app),
    order <- RouteOrder(app),
    event <- event

\* The server is a map from paths to mocks: a configuration changes its own path
\* and lets it be tried last, a merge changes the paths it names, a deletion leaves
\* nothing that answers, and each request is answered by the first path that takes it.
KeepsContract == Contract!Spec
===============================================================================
