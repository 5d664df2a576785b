--------------------------- MODULE RegistryContract ---------------------------
(***************************************************************************)
(* What configuring several mocks promises, without routes, registries and *)
(* objects: a map from paths to mocks, and the order in which overlapping  *)
(* paths are tried.  A path counts in its normal spelling.                 *)
(***************************************************************************)
EXTENDS Integers, Functions, MockPaths

CONSTANTS Mocks, MaxProgress

VARIABLES
    mocks,  \* for each configured path: its mock, and how far its entries are used or collected
    order,  \* the configured paths, the latest configuration last
    event   \* what the last request was told

vars == <<mocks, order, event>>

Init == mocks = [p \in {} |-> 0] /\ order = << >> /\ event = [what |-> "none"]

\* Each path once, where it came last.
Latest(paths) == Picked(paths, {i \in DOMAIN paths : \A j \in DOMAIN paths : paths[j] = paths[i] => j <= i})

Set(path, mock, progress) ==
    /\ mocks' = With(mocks, path, [mock |-> mock, progress |-> progress])
    /\ order' = Latest(Append(order, path))

Put == event'.what = "put" /\ Set(event'.path, event'.mock, 0)

\* The same kind of mock goes on where it was.
Patch ==
    LET old == mocks[event'.path]
    IN  /\ event'.what = "patch"
        /\ event'.path \in DOMAIN mocks
        /\ Set(event'.path, event'.mock, IF old.mock.kind = event'.mock.kind THEN old.progress ELSE 0)

Forget(paths) ==
    /\ mocks' = Without(mocks, paths)
    /\ order' = Picked(order, {i \in DOMAIN order : order[i] \notin paths})

Delete == event'.what = "delete" /\ event'.path \in DOMAIN mocks /\ Forget({event'.path})

DeleteAll == event'.what = "delete all" /\ Forget(DOMAIN mocks)

\* Everything the document names is as the document says, its sequences restarted; the
\* rest is as it was, or gone.  Of two spellings of a path the later one counts.
Load(document, mode) ==
    LET paths == [i \in DOMAIN document |-> Key(document[i].path)]
        named == Range(paths)
        item(p) == document[Max({i \in DOMAIN document : paths[i] = p})]
        kept == IF mode = "merge" THEN mocks ELSE Without(mocks, DOMAIN mocks)
    IN  /\ mocks' = [p \in DOMAIN kept \union named |->
                        IF p \in named THEN [mock |-> item(p).mock, progress |-> item(p).recordings] ELSE kept[p]]
        /\ order' = Latest((IF mode = "merge" THEN order ELSE << >>) \o paths)

Import == event'.what = "import" /\ Load(event'.document, event'.mode)

\* What comes before a path that is only refused once its turn has come.
FailedImport ==
    /\ event'.what = "failed import"
    /\ \E i \in DOMAIN event'.document : Load(SubSeq(event'.document, 1, i - 1), event'.mode)

\* An export has every mock once, recordings included.
Export ==
    LET document == event'.document
    IN  /\ event'.what = "export"
        /\ Len(document) = Cardinality(DOMAIN mocks)
        /\ {document[i].path : i \in DOMAIN document} = DOMAIN mocks
        /\ \A i \in DOMAIN document : LET entry == mocks[document[i].path] IN
            /\ document[i].mock = entry.mock
            /\ document[i].recordings = IF entry.mock.kind = "recording" THEN entry.progress ELSE 0
        /\ UNCHANGED <<mocks, order>>

\* A path answers its own URL, with and without a trailing slash.
Takes(p, url) == Matches(p, url) \/ (p # Plain(Root) /\ Matches(Slashed(p), url))
Takers(url) == {i \in DOMAIN order : Takes(order[i], url)}
Accepting(url, method) == {i \in Takers(url) : method \in mocks[order[i]].mock.methods}

\* The earliest configuration among the paths that take the request answers it.
Answer ==
    LET takers == Accepting(event'.url, event'.method)
        p == order[Min(takers)]
    IN  /\ event'.what = "answer"
        /\ ~Reserved(event'.url)
        /\ takers # {}
        /\ event'.mock = mocks[p].mock
        /\ event'.progress = mocks[p].progress
        /\ mocks' = IF event'.mock.kind = "static" THEN mocks
                    ELSE [mocks EXCEPT ![p].progress = IF @ < MaxProgress THEN @ + 1 ELSE @]
        /\ UNCHANGED order

\* The administrative namespace is never a mock's.
NoAnswer ==
    /\ \/ event'.what = "administration" /\ Reserved(event'.url)
       \/ event'.what = "404" /\ ~Reserved(event'.url) /\ Takers(event'.url) = {}
       \/ /\ event'.what = "405"
          /\ ~Reserved(event'.url)
          /\ Takers(event'.url) # {}
          /\ Accepting(event'.url, event'.method) = {}
    /\ UNCHANGED <<mocks, order>>

\* A refusal changes nothing.
Refuse == event'.what \in {"refused", "failed", "not found", "rejected import"} /\ UNCHANGED <<mocks, order>>

Next == Put \/ Patch \/ Delete \/ DeleteAll \/ Import \/ FailedImport \/ Export \/ Answer \/ NoAnswer \/ Refuse

Spec == Init /\ [][Next]_vars
===============================================================================
