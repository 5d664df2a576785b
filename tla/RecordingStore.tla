---------------------------- MODULE RecordingStore ----------------------------
(***************************************************************************)
(* The saved upstream replies of one configuration generation of a mock:   *)
(* class RecordingStore of proxy_mock/services/recordings.py.              *)
(*                                                                         *)
(* The class runs every method to its end without giving the event loop    *)
(* back (its lock is never held across a suspension), so each method is    *)
(* one operator from store to store; the machines that use a store decide  *)
(* when it is called.                                                      *)
(*                                                                         *)
(* A store is a record: the recording configuration it was built with, the *)
(* entries of its OrderedDict in insertion order (an entry is the key it   *)
(* is filed under and the reply), the running byte count `bytes` the code  *)
(* keeps beside them, the `revision` a deletion moves on, and whether the  *)
(* generation is still `active`.                                           *)
(***************************************************************************)
EXTENDS Integers, FiniteSets, SequencesExt

\* The key of a request: everything but the header names the configuration
\* matches on is always part of it.  The hash of the code is taken to be
\* injective, so the key is what is hashed.
recording_id(request, config) ==
    [target |-> request.target, headers |-> [name \in config.match_headers |-> request.headers[name]]]

\* The length of the serialized entry, which a reply carries with it.
recording_size(entry) == entry.reply.size

\* The serialized bytes of a collection, one by one, and how many they are.
\* Keys are unique in a collection, so no two entries share a byte.
Octets(entries) == UNION {{entries[i].id} \X (1..recording_size(entries[i])) : i \in DOMAIN entries}
TotalSize(entries) == Cardinality(Octets(entries))

Holds(entries, key) == \E i \in DOMAIN entries : entries[i].id = key
EntryOf(entries, key) == CHOOSE e \in ToSet(entries) : e.id = key

\* OrderedDict.pop(key, None).
Without(entries, key) ==
    IF Holds(entries, key) THEN RemoveAt(entries, CHOOSE i \in DOMAIN entries : entries[i].id = key) ELSE entries

From(entries, k) == SubSeq(entries, k, Len(entries))
Before(entries, k) == SubSeq(entries, 1, k - 1)

Fits(config, entries, bytes) == Len(entries) <= config.max_items /\ bytes <= config.max_bytes

\* The entries are popped from the old end for as long as a limit is exceeded:
\* what is left starts at the first position from which the rest fits.
\* Mutant of FitsFrom: a collection exactly at a limit is trimmed too.
FitsFromBelow(store, k) ==
    /\ Len(From(store.entries, k)) < store.config.max_items
    /\ store.bytes - TotalSize(Before(store.entries, k)) < store.config.max_bytes
FitsFrom(store, k) == Fits(store.config, From(store.entries, k), store.bytes - TotalSize(Before(store.entries, k)))
FirstKept(store) ==
    CHOOSE k \in 1..Len(store.entries) + 1 : FitsFrom(store, k) /\ \A j \in 1..k - 1 : ~FitsFrom(store, j)
Trim(store) ==
    [store EXCEPT !.entries = From(@, FirstKept(store)),
                  !.bytes = @ - TotalSize(Before(store.entries, FirstKept(store)))]

\* A new generation over the entries of the previous one or of a snapshot.
NewStore(config, entries) ==
    Trim([config |-> config, entries |-> entries, bytes |-> TotalSize(entries), revision |-> 0, active |-> TRUE])

Retire(store) == [store EXCEPT !.active = FALSE]

\* Mutants of SaveOutcome: a save that forgets one of its two reasons to be superseded.
SaveOutcomeOfRetired(store, reply, revision) ==
    IF revision # store.revision THEN "superseded"
    ELSE IF reply.size > store.config.max_bytes THEN "too_large" ELSE "stored"
SaveOutcomeAfterDelete(store, reply, revision) ==
    IF ~store.active THEN "superseded"
    ELSE IF reply.size > store.config.max_bytes THEN "too_large" ELSE "stored"

\* What a save answers.  The store of a mock that was updated meanwhile, or whose
\* recordings were deleted since `revision` was read, takes no write.
SaveOutcome(store, reply, revision) ==
    IF ~store.active \/ revision # store.revision THEN "superseded"
    ELSE IF reply.size > store.config.max_bytes THEN "too_large" ELSE "stored"

\* Mutants of Write: the replaced entry is still counted, or keeps its place.
WriteCountedTwice(store, key, reply) ==
    Trim([store EXCEPT !.entries = Append(Without(@, key), [id |-> key, reply |-> reply]), !.bytes = @ + reply.size])
WriteInPlace(store, key, reply) ==
    IF ~Holds(store.entries, key) THEN WriteCountedTwice(store, key, reply)
    ELSE Trim([store EXCEPT !.entries = [i \in DOMAIN @ |-> IF @[i].id = key THEN [@[i] EXCEPT !.reply = reply] ELSE @[i]],
                            !.bytes = @ - recording_size(EntryOf(store.entries, key)) + reply.size])

\* A repeated key leaves its old position: the reply that completed last is the newest entry.
Write(store, key, reply) ==
    LET dropped == IF Holds(store.entries, key) THEN recording_size(EntryOf(store.entries, key)) ELSE 0
    IN  Trim([store EXCEPT !.entries = Append(Without(@, key), [id |-> key, reply |-> reply]),
                           !.bytes = @ - dropped + reply.size])

Save(store, key, reply, revision) ==
    IF SaveOutcome(store, reply, revision) = "stored" THEN Write(store, key, reply) ELSE store

\* Mutant of DeleteAll: the bytes are reset but the entries stay.
DeleteAllBytes(store) == [store EXCEPT !.revision = @ + 1, !.bytes = 0]

\* Clearing the collection and dropping one entry; a missing entry is refused
\* by the caller before anything changes.
DeleteAll(store) == [store EXCEPT !.revision = @ + 1, !.entries = << >>, !.bytes = 0]
DeleteOne(store, key) ==
    [store EXCEPT !.revision = @ + 1,
                  !.entries = Without(@, key),
                  !.bytes = @ - recording_size(EntryOf(store.entries, key))]
===============================================================================
