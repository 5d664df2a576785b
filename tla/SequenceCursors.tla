---------------------------- MODULE SequenceCursors ----------------------------
(***************************************************************************)
(* Response sequences of one mock path: the requests that reserve entries  *)
(* and the administrative requests that replace, patch and restart the     *)
(* sequences meanwhile.                                                    *)
(*                                                                         *)
(* A cursor is an object with an identity: a handler keeps the cursors of  *)
(* its generation in a closure, and a PATCH may hand some of them on to    *)
(* the next generation.  So the state has a heap of cursors, of which      *)
(* app.state.sequences registers some, and requests hold indices into it.  *)
(* A request gives the event loop back before its body is there (by then   *)
(* its handler is picked) and while it is delayed or proxied: Dispatch,    *)
(* Reserve, Finish.  Reserving is over before any delay starts.            *)
(***************************************************************************)
EXTENDS Integers, SequencesExt

CONSTANTS
    Requests,      \* the mock requests that can be in flight together
    HttpRequests,  \* what a client may send, as far as rules tell it apart
    Mocks,         \* the configurations the mock may be given
    NoMock,        \* the path has no mock
    NoSequence,    \* sequence: null
    NoResponse,    \* nothing was reserved or answered
    Unsequenced,   \* a static or proxied response
    Exhausted,     \* 409 sequence_exhausted
    Cancelled,     \* the client is gone
    MaxCursors     \* bound: cursors ever made

\* The keys of a mock's sequences: 0 is the default one (None in the source),
\* i is that of the rule submitted in place i, whatever its priority.
Default == 0
SequenceAt(mock, k) == IF k = Default THEN mock.sequence ELSE mock.rules[k].sequence
KeysOf(mock) == {k \in 0..Len(mock.rules) : SequenceAt(mock, k) # NoSequence}

\* SequenceResource; a rule that proxies has no sequence of its own (RuleResource).
ASSUME MocksAssumption ==
    \A m \in Mocks :
        /\ m.rules \in Seq(ToSet(m.rules))
        /\ \A k \in KeysOf(m) :
            /\ SequenceAt(m, k).responses \in Seq(ToSet(SequenceAt(m, k).responses)) \ {<< >>}
            /\ SequenceAt(m, k).on_exhaustion \in {"repeat_last", "error"}
        /\ \A i \in DOMAIN m.rules : m.rules[i].proxied => m.rules[i].sequence = NoSequence
ASSUME NoMockAssumption == NoMock \notin Mocks
ASSUME BoundsAssumption == MaxCursors \in Nat

VARIABLES
    saved,      \* the stored configuration of the path, or NoMock
    cursors,    \* every ResponseSequence ever made
    sequences,  \* app.state.sequences[path]: the registered cursor of each key
    requests,   \* the mock requests
    event       \* what the last step did that a client can see

vars == <<saved, cursors, sequences, requests, event>>

NoStates == [k \in {} |-> 0]
Idle == [pc |-> "idle", mock |-> NoMock, states |-> NoStates, http |-> NoMock, response |-> NoResponse]
NoEvent == <<"none">>

Init ==
    /\ saved = NoMock
    /\ cursors = << >>
    /\ sequences = NoStates
    /\ requests = [r \in Requests |-> Idle]
    /\ event = NoEvent

-------------------------------------------------------------------------------
(* A cursor *)

AtEnd(c) == c.position = Len(c.configuration.responses)

\* What take returns or raises.
Taken(c) ==
    IF ~AtEnd(c) THEN c.configuration.responses[c.position + 1]
    ELSE IF c.configuration.on_exhaustion = "error" THEN Exhausted ELSE Last(c.configuration.responses)

\* Mutant of Advanced: a repeated last response moves the cursor too.
AdvancedPastEnd(c) == [c EXCEPT !.position = @ + 1]

\* What take leaves behind.
Advanced(c) == IF AtEnd(c) THEN c ELSE [c EXCEPT !.position = @ + 1]

-------------------------------------------------------------------------------
(* The mock request *)

\* The router picks the registered handler, with the mock and the cursors of its generation.
Dispatch(r, http) ==
    /\ requests[r].pc = "idle"
    /\ saved # NoMock
    /\ requests' = [requests EXCEPT ![r] =
           [pc |-> "dispatched", mock |-> saved, states |-> sequences, http |-> http, response |-> NoResponse]]
    /\ event' = NoEvent
    /\ UNCHANGED <<saved, cursors, sequences>>

\* sorted(..., key=(priority, timestamp), reverse=True) keeps the submitted order of equal rules.
Precedes(rules, i, j) ==
    \/ rules[i].priority > rules[j].priority
    \/ rules[i].priority = rules[j].priority /\ rules[i].timestamp > rules[j].timestamp
    \/ rules[i].priority = rules[j].priority /\ rules[i].timestamp = rules[j].timestamp /\ i < j

\* The first matching rule, or Default when no rule matches.
Selected(mock, http) ==
    LET matching == {i \in DOMAIN mock.rules : http \in mock.rules[i].matches}
    IN  IF matching = {} THEN Default
        ELSE CHOOSE i \in matching : \A j \in matching \ {i} : Precedes(mock.rules, i, j)

\* A configured delay or a proxied rule suspends the request once it has its response.
Suspends(mock, k) == mock.delayed \/ (k # Default /\ (mock.rules[k].delayed \/ mock.rules[k].proxied))

Answer(r, response) ==
    /\ requests' = [requests EXCEPT ![r] = Idle]
    /\ event' = <<r, response>>

Deliver(r, k, response) ==
    IF Suspends(requests[r].mock, k) /\ response # Exhausted
    THEN /\ requests' = [requests EXCEPT ![r].pc = "waiting", ![r].response = response]
         /\ event' = NoEvent
    ELSE Answer(r, response)

\* Mutant of Reserve: the request that finds its sequence exhausted is not answered.
ReserveRemaining(r) ==
    LET q == requests[r]
        k == Selected(q.mock, q.http)
    IN
    /\ q.pc = "dispatched"
    /\ k \in DOMAIN q.states
    /\ Taken(cursors[q.states[k]]) # Exhausted
    /\ cursors' = [cursors EXCEPT ![q.states[k]] = Advanced(@)]
    /\ Deliver(r, k, Taken(cursors[q.states[k]]))
    /\ UNCHANGED <<saved, sequences>>

\* The body has arrived: the selected rule, or the default, gives the response.
Reserve(r) ==
    LET q == requests[r]
        k == Selected(q.mock, q.http)
    IN
    /\ q.pc = "dispatched"
    /\ IF k \in DOMAIN q.states
       THEN /\ cursors' = [cursors EXCEPT ![q.states[k]] = Advanced(@)]
            /\ Deliver(r, k, Taken(cursors[q.states[k]]))
       ELSE /\ Deliver(r, k, Unsequenced)
            /\ UNCHANGED cursors
    /\ UNCHANGED <<saved, sequences>>

\* The delay is over, or the upstream of a proxied rule answered or failed.
Finish(r) ==
    /\ requests[r].pc = "waiting"
    /\ Answer(r, requests[r].response)
    /\ UNCHANGED <<saved, cursors, sequences>>

\* Mutant of Cancel: the reservation is put back.
CancelReservation(r) ==
    LET q == requests[r]
        k == Selected(q.mock, q.http)
    IN
    /\ q.pc # "idle"
    /\ cursors' = IF q.pc = "waiting" /\ k \in DOMAIN q.states /\ cursors[q.states[k]].position > 0
                  THEN [cursors EXCEPT ![q.states[k]].position = @ - 1]
                  ELSE cursors
    /\ Answer(r, Cancelled)
    /\ UNCHANGED <<saved, sequences>>

\* The task of a request is cancelled where it is suspended.
Cancel(r) ==
    /\ requests[r].pc # "idle"
    /\ Answer(r, Cancelled)
    /\ UNCHANGED <<saved, cursors, sequences>>

-------------------------------------------------------------------------------
(* The administrative requests, each one step under admin_lock *)

\* The keys whose cursor build_sequences hands on to the new generation.
Reused(mock, preserve) ==
    {k \in KeysOf(mock) :
        /\ k \in preserve
        /\ k \in DOMAIN sequences
        /\ cursors[sequences[k]].configuration = SequenceAt(mock, k)}

\* mock_initialization: the old registration goes and the new generation is
\* registered, with a new cursor for every key that is not handed on.
Initialize(mock, preserve) ==
    LET reused == Reused(mock, preserve)
        fresh == SetToSeq(KeysOf(mock) \ reused)
        made(k) == Len(cursors) + CHOOSE i \in DOMAIN fresh : fresh[i] = k
    IN
    /\ Len(cursors) + Len(fresh) <= MaxCursors
    /\ saved' = mock
    /\ cursors' = cursors \o [i \in DOMAIN fresh |->
                      [configuration |-> SequenceAt(mock, fresh[i]), position |-> 0]]
    /\ sequences' = [k \in KeysOf(mock) |-> IF k \in reused THEN sequences[k] ELSE made(k)]
    /\ UNCHANGED requests

\* PUT /mocks, and a snapshot that names the path: nothing is handed on.
PutMock(mock) ==
    /\ Initialize(mock, {})
    /\ event' = <<"replaced">>

\* What a PATCH leaves alone: the fields its document does not name.
Patches(mock, touched) ==
    /\ "sequence" \notin touched => mock.sequence = saved.sequence
    /\ "rules" \notin touched => mock.rules = saved.rules

\* Mutant of Preserved: rules that are submitted again unchanged keep their cursors.
PreservedRules(mock, touched) ==
    (IF "sequence" \in touched THEN {} ELSE {Default}) \union DOMAIN mock.rules

Preserved(mock, touched) ==
    (IF "sequence" \in touched THEN {} ELSE {Default}) \union (IF "rules" \in touched THEN {} ELSE DOMAIN mock.rules)

PatchMock(mock, touched) ==
    /\ saved # NoMock
    /\ Patches(mock, touched)
    /\ Initialize(mock, Preserved(mock, touched))
    /\ event' = <<"patched", touched>>

\* Mutant of DeleteMocks: the storage is cleared but not the registry.
DeleteStored ==
    /\ saved # NoMock
    /\ saved' = NoMock
    /\ event' = <<"deleted">>
    /\ UNCHANGED <<cursors, sequences, requests>>

\* DELETE /mocks, of the path or of every path, and a replacing snapshot without the path.
DeleteMocks ==
    /\ saved # NoMock
    /\ saved' = NoMock
    /\ sequences' = NoStates
    /\ event' = <<"deleted">>
    /\ UNCHANGED <<cursors, requests>>

\* PATCH /sequence-state; a key without a sequence is a 404.
ResetSequence(k) ==
    /\ k \in DOMAIN sequences
    /\ cursors' = [cursors EXCEPT ![sequences[k]].position = 0]
    /\ event' = <<"reset", k>>
    /\ UNCHANGED <<saved, sequences, requests>>

-------------------------------------------------------------------------------

Serve(r) == Reserve(r) \/ Finish(r)

Next ==
    \/ \E r \in Requests : (\E http \in HttpRequests : Dispatch(r, http)) \/ Serve(r) \/ Cancel(r)
    \/ \E mock \in Mocks : PutMock(mock) \/ \E touched \in SUBSET {"sequence", "rules"} : PatchMock(mock, touched)
    \/ DeleteMocks
    \/ \E k \in DOMAIN sequences : ResetSequence(k)

Spec == Init /\ [][Next]_vars

\* The event loop runs a request whose body has arrived, and every delay ends.
FairSpec == Spec /\ \A r \in Requests : WF_vars(Serve(r))

-------------------------------------------------------------------------------
(* Correctness *)

Configurations == UNION {{SequenceAt(m, k) : k \in KeysOf(m)} : m \in Mocks}
Responses == (UNION {ToSet(c.responses) : c \in Configurations}) \union {Unsequenced, Exhausted, Cancelled}
ASSUME NoResponseAssumption == NoResponse \notin Responses
CursorSet == {c \in [configuration : Configurations, position : Nat] : c.position <= Len(c.configuration.responses)}
Registers(mock, states) == DOMAIN states \in SUBSET KeysOf(mock) /\ states \in [DOMAIN states -> DOMAIN cursors]

\* The types of the state; a position stays within its responses, and what a
\* request has captured exists.
TypeOK ==
    /\ saved \in Mocks \union {NoMock}
    /\ cursors \in Seq(CursorSet)
    /\ \A r \in Requests : LET q == requests[r] IN
        \/ q = Idle
        \/ /\ q.pc \in {"dispatched", "waiting"}
           /\ q.mock \in Mocks
           /\ q.http \in HttpRequests
           /\ q.response \in Responses \union {NoResponse}
           /\ Registers(q.mock, q.states)

\* A cursor is registered for exactly the sequences of the stored mock, each for
\* its own: GET /sequence-state finds what the mock configures, and two keys
\* never share a cursor, whichever of them the updates handed on.
SequencesMatchMock ==
    /\ DOMAIN sequences = IF saved = NoMock THEN {} ELSE KeysOf(saved)
    /\ \A k \in DOMAIN sequences : cursors[sequences[k]].configuration = SequenceAt(saved, k)
    /\ \A k, l \in DOMAIN sequences : sequences[k] = sequences[l] => k = l

\* Every routed request is answered, exhausted sequences included.
EveryRequestAnswered == \A r \in Requests : requests[r].pc # "idle" ~> requests[r].pc = "idle"

\* What a client can know of the registered cursors: their definitions and the
\* entries not yet reserved.
Remaining(c) == SubSeq(c.configuration.responses, c.position + 1, Len(c.configuration.responses))
Defined == [k \in DOMAIN sequences |-> cursors[sequences[k]].configuration]
Left == [k \in DOMAIN sequences |-> Remaining(cursors[sequences[k]])]

\* A request holds a live cursor exactly when it captured the registered object.
Captured(r) ==
    IF requests[r].pc # "dispatched" THEN NoStates
    ELSE [k \in DOMAIN requests[r].states |-> k \in DOMAIN sequences /\ sequences[k] = requests[r].states[k]]
Claims == [r \in Requests |-> Captured(r)]
Held == [r \in Requests |-> requests[r].response]

Contract == INSTANCE SequenceContract WITH
    defined <- Defined, left <- Left, captured <- Claims, held <- Held, event <- event

\* Sequences keep their contract: every reservation takes the next entry of the
\* one cursor its request goes by, no entry is given out twice before the cursor
\* is restarted, an update restarts exactly the cursors it names, and a request
\* of a replaced generation leaves the new cursors alone.
KeepsContract == Contract!Spec
===============================================================================
