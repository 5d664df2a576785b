--------------------------- MODULE SequenceContract ---------------------------
(***************************************************************************)
(* What response sequences promise the clients of one mock, without cursor *)
(* objects: each sequence is a list of entries that are given out in       *)
(* order, each of them once, until the sequence is restarted.              *)
(*                                                                         *)
(* A request captures the sequences of the mock it is routed to.  A        *)
(* captured sequence is live until an update restarts it; reserving from   *)
(* a live one consumes its next entry, and reserving from one that was     *)
(* restarted meanwhile consumes nothing anybody else can see.              *)
(***************************************************************************)
EXTENDS Integers, SequencesExt

CONSTANTS Requests, Responses, NoResponse, Unsequenced, Exhausted, Cancelled

VARIABLES
    defined,   \* the definition of each sequence
    left,      \* the entries of each sequence that were not given out
    captured,  \* for each waiting request: its sequences, and whether each is live
    held,      \* the response of a delayed request
    event      \* what the last step did that a client can see

vars == <<defined, left, captured, held, event>>

Nothing == [k \in {} |-> FALSE]
NoEvent == <<"none">>

Init ==
    /\ defined = Nothing
    /\ left = Nothing
    /\ captured = [r \in Requests |-> Nothing]
    /\ held = [r \in Requests |-> NoResponse]
    /\ event = NoEvent

Arrive(r) ==
    /\ captured[r] = Nothing
    /\ held[r] = NoResponse
    /\ captured' = [captured EXCEPT ![r] = [k \in DOMAIN defined |-> TRUE]]
    /\ event' = NoEvent
    /\ UNCHANGED <<defined, left, held>>

\* The request goes on with its response, at once or after a delay; a refusal
\* is never delayed.
Give(r, response) ==
    /\ captured' = [captured EXCEPT ![r] = Nothing]
    /\ \/ held' = [held EXCEPT ![r] = NoResponse] /\ event' = <<r, response>>
       \/ response # Exhausted /\ held' = [held EXCEPT ![r] = response] /\ event' = NoEvent

ReserveLive(r, k) ==
    /\ captured[r][k]
    /\ IF left[k] # << >>
       THEN Give(r, Head(left[k])) /\ left' = [left EXCEPT ![k] = Tail(@)]
       ELSE /\ Give(r, IF defined[k].on_exhaustion = "error" THEN Exhausted ELSE Last(defined[k].responses))
            /\ UNCHANGED left
    /\ UNCHANGED defined

\* The sequence was restarted or removed since the request was routed.
ReserveLate(r, k, response) ==
    /\ ~captured[r][k]
    /\ Give(r, response)
    /\ UNCHANGED <<defined, left>>

\* Another rule, or a mock without a sequence, decides the response.
Bypass(r) ==
    /\ held[r] = NoResponse
    /\ Give(r, Unsequenced)
    /\ UNCHANGED <<defined, left>>

Deliver(r) ==
    /\ held[r] # NoResponse
    /\ held' = [held EXCEPT ![r] = NoResponse]
    /\ event' = <<r, held[r]>>
    /\ UNCHANGED <<defined, left, captured>>

\* A request that goes away consumes what it had reserved.
Abandon(r) ==
    /\ captured' = [captured EXCEPT ![r] = Nothing]
    /\ held' = [held EXCEPT ![r] = NoResponse]
    /\ event' = <<r, Cancelled>>
    /\ UNCHANGED <<defined, left>>

\* An update goes on with the sequences in `keep` and restarts all others.
Update(keep) ==
    /\ \A k \in DOMAIN defined' :
        IF k \in keep THEN defined'[k] = defined[k] /\ left'[k] = left[k] ELSE left'[k] = defined'[k].responses
    /\ DOMAIN left' = DOMAIN defined'
    /\ keep \subseteq DOMAIN defined'
    /\ captured' = [r \in Requests |-> [k \in DOMAIN captured[r] |-> captured[r][k] /\ k \in keep]]
    /\ UNCHANGED held

Replace == event' = <<"replaced">> /\ Update({})

Patch(touched) ==
    /\ event' = <<"patched", touched>>
    /\ Update({k \in DOMAIN defined : IF k = 0 THEN "sequence" \notin touched ELSE "rules" \notin touched})

Delete == event' = <<"deleted">> /\ DOMAIN defined' = {} /\ Update({})

Restart(k) ==
    /\ event' = <<"reset", k>>
    /\ left' = [left EXCEPT ![k] = defined[k].responses]
    /\ UNCHANGED <<defined, captured, held>>

Next ==
    \/ \E r \in Requests :
        \/ Arrive(r) \/ Bypass(r) \/ Deliver(r) \/ Abandon(r)
        \/ \E k \in DOMAIN captured[r] :
            ReserveLive(r, k) \/ \E response \in Responses : ReserveLate(r, k, response)
    \/ Replace \/ Delete
    \/ \E touched \in SUBSET {"sequence", "rules"} : Patch(touched)
    \/ \E k \in DOMAIN defined : Restart(k)

Spec == Init /\ [][Next]_vars
===============================================================================
