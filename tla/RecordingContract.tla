--------------------------- MODULE RecordingContract ---------------------------
(***************************************************************************)
(* What record/replay promises of one mock, without generations, revisions *)
(* or byte counts: a collection that only the newest writes survive in,    *)
(* and a set of requests whose replies may still enter it.                 *)
(*                                                                         *)
(* A request attaches to the mock it is routed to, and fetches once it     *)
(* asks the upstream.  Every update of the mock cuts all requests off;     *)
(* every deletion of recordings cuts off those that are fetching, so that  *)
(* a late reply cannot undo it.  A reply enters the collection exactly     *)
(* when its request was not cut off, and its caller is told which.         *)
(***************************************************************************)
EXTENDS RecordingStore

CONSTANTS Requests, NoAnswer

VARIABLES
    collection,  \* the recordings an administrator reads, oldest write first
    attached,    \* requests routed to the current configuration, not asking yet
    fetching,    \* requests that ask the upstream, and may write
    answer,      \* the answer of the last step: a request and what it was told, or NoAnswer
    exported     \* the recordings of the last export

vars == <<collection, attached, fetching, answer, exported>>

Init ==
    /\ collection = << >>
    /\ attached = {}
    /\ fetching = {}
    /\ answer = NoAnswer
    /\ exported = << >>

Leave(r, kind) ==
    /\ answer' = <<r, kind>>
    /\ attached' = attached \ {r}
    /\ fetching' = fetching \ {r}

Begin(r) ==
    /\ attached' \in {attached, attached \union {r}}
    /\ answer' = NoAnswer
    /\ UNCHANGED <<collection, fetching, exported>>

Fetch(r) ==
    /\ r \in attached
    /\ attached' = attached \ {r}
    /\ fetching' = fetching \union {r}
    /\ answer' = NoAnswer
    /\ UNCHANGED <<collection, exported>>

\* The reply becomes the newest entry, in place of an earlier one with its key;
\* only older entries make room for it.
Store(r) ==
    /\ r \in fetching
    /\ Len(collection') > 0
    /\ LET newest == collection'[Len(collection')]
           all == Append(Without(collection, newest.id), newest)
       IN \E k \in 1..Len(all) : collection' = From(all, k)
    /\ Leave(r, "stored")
    /\ UNCHANGED exported

Skip(r) ==
    /\ r \in fetching
    /\ Leave(r, "too_large")
    /\ UNCHANGED <<collection, exported>>

Supersede(r) ==
    /\ r \notin attached \union fetching
    /\ Leave(r, "superseded")
    /\ UNCHANGED <<collection, exported>>

\* Any other answer, or a cancellation, leaves the recordings alone.
Finish(r) ==
    /\ \E kind \in {"static", "proxied", "forbidden", "failed", "replayed", "recording_not_found", "cancelled"} :
          Leave(r, kind)
    /\ UNCHANGED <<collection, exported>>

\* An update of the mock: the collection starts anew, keeps its newest entries,
\* or becomes the one exported before.
Reconfigure ==
    /\ attached' = {}
    /\ fetching' = {}
    /\ \/ collection' = << >>
       \/ \E k \in 1..Len(collection) + 1 : collection' = From(collection, k)
       \/ collection' = exported
    /\ answer' = NoAnswer
    /\ UNCHANGED exported

Delete ==
    /\ fetching' = {}
    /\ \/ collection' = << >>
       \/ \E e \in ToSet(collection) : collection' = Without(collection, e.id)
    /\ answer' = NoAnswer
    /\ UNCHANGED <<attached, exported>>

Export ==
    /\ exported' = collection
    /\ answer' = NoAnswer
    /\ UNCHANGED <<collection, attached, fetching>>

Next ==
    \/ \E r \in Requests :
          Begin(r) \/ Fetch(r) \/ Store(r) \/ Skip(r) \/ Supersede(r) \/ Finish(r)
    \/ Reconfigure
    \/ Delete
    \/ Export

Spec == Init /\ [][Next]_vars
===============================================================================
