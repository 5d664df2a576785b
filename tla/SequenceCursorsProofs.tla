------------------------- MODULE SequenceCursorsProofs -------------------------
(***************************************************************************)
(* The registered cursors are those of the stored mock, for any requests,  *)
(* mocks and number of cursors.                                            *)
(*                                                                         *)
(* The invariant speaks of the configurations of cursors, which no step    *)
(* changes; what needs care is that the cursors that an update hands on    *)
(* and those that it makes are different ones.  They are, because a cursor *)
(* that is handed on is in the heap already and the new ones are appended  *)
(* to it, each key at a place of its own.                                  *)
(*                                                                         *)
(* That each reservation takes the next entry of its sequence needs one    *)
(* more fact, of the requests: a cursor that a request captured for a key  *)
(* is registered for that key or not at all, so that a late reservation    *)
(* moves no entry of anybody else.                                         *)
(***************************************************************************)
EXTENDS SequenceCursors, FiniteSetTheorems, FunctionTheorems, SequenceTheorems, TLAPS

Record(q) ==
    q \in [pc : {"idle", "dispatched", "waiting"}, mock : Mocks \union {NoMock}, states : {q.states},
           http : HttpRequests \union {NoMock}, response : Responses \union {NoResponse}]

\* A registered cursor exists, and requests are records.
Shaped ==
    /\ sequences \in [DOMAIN sequences -> DOMAIN cursors]
    /\ requests = [r \in Requests |-> requests[r]]
    /\ \A r \in Requests : Record(requests[r])

IInv == TypeOK /\ SequencesMatchMock /\ Shaped

-------------------------------------------------------------------------------
(* Lists of keys *)

\* SetToSeq lists every element of a finite set once.
LEMMA Listed ==
    ASSUME NEW S, IsFiniteSet(S)
    PROVE  LET list == SetToSeq(S) IN
           /\ Len(list) \in Nat
           /\ list \in [1..Len(list) -> S]
           /\ \A x \in S : \E i \in DOMAIN list : list[i] = x
           /\ \A i, j \in DOMAIN list : list[i] = list[j] => i = j
<1> DEFINE n == Cardinality(S)
           list == SetToSeq(S)
<1>1. n \in Nat /\ ExistsBijection(1..n, S)
  BY FS_CardinalityType
<1>2. PICK f \in Bijection(1..n, S) : TRUE
  BY <1>1 DEF ExistsBijection
<1>3. f \in [1..n -> S] /\ IsInjective(f)
  BY <1>2 DEF Bijection, Injection, IsInjective
<1>4. list \in [1..n -> S] /\ IsInjective(list)
  BY <1>3 DEF SetToSeq
<1>5. Len(list) = n /\ DOMAIN list = 1..n
  BY <1>1, <1>4
<1>6. list \in Injection(1..n, S)
  BY <1>4 DEF Injection, IsInjective
<1>7. Cardinality(1..n) = n
  BY <1>1, FS_Interval
<1>8. list \in Surjection(1..n, S)
  BY <1>6, <1>7, FS_Injection
<1>9. \A x \in S : \E i \in 1..n : list[i] = x
  BY <1>8 DEF Surjection
<1> QED
  BY <1>1, <1>4, <1>5, <1>9 DEF IsInjective

LEMMA FiniteKeys == ASSUME NEW mock \in Mocks, NEW K \in SUBSET KeysOf(mock) PROVE IsFiniteSet(K)
<1>1. Len(mock.rules) \in Nat
  BY MocksAssumption
<1>2. IsFiniteSet(0..Len(mock.rules))
  BY <1>1, FS_Interval
<1>3. K \in SUBSET (0..Len(mock.rules))
  BY DEF KeysOf
<1> QED
  BY <1>2, <1>3, FS_Subset

-------------------------------------------------------------------------------
(* Cursors and requests *)

Routed(q, heap) ==
    /\ q.pc \in {"dispatched", "waiting"}
    /\ q.mock \in Mocks
    /\ q.http \in HttpRequests
    /\ q.response \in Responses \union {NoResponse}
    /\ DOMAIN q.states \in SUBSET KeysOf(q.mock)
    /\ q.states \in [DOMAIN q.states -> heap]

LEMMA CursorFacts ==
    ASSUME NEW c \in CursorSet
    PROVE  /\ Taken(c) \in Responses
           /\ Advanced(c) \in CursorSet
           /\ Advanced(c).configuration = c.configuration
           /\ [c EXCEPT !.position = 0] \in CursorSet
<1> DEFINE responses == c.configuration.responses
<1>1. PICK m \in Mocks : \E k \in KeysOf(m) : c.configuration = SequenceAt(m, k)
  BY DEF CursorSet, Configurations
<1>2. responses \in Seq(ToSet(responses)) \ {<< >>}
  BY <1>1, MocksAssumption
<1>3. ToSet(responses) \subseteq Responses
  BY DEF CursorSet, Responses
<1>4. c \in [configuration : Configurations, position : Nat] /\ c.position <= Len(responses)
  BY DEF CursorSet
<1>5. Taken(c) \in Responses
  <2>1. CASE ~AtEnd(c)
    <3>1. c.position + 1 \in 1..Len(responses)
      BY <1>2, <1>4, <2>1 DEF AtEnd
    <3>2. responses[c.position + 1] \in ToSet(responses)
      BY <1>2, <3>1
    <3> QED
      BY <1>3, <2>1, <3>2 DEF Taken
  <2>2. CASE AtEnd(c) /\ c.configuration.on_exhaustion = "error"
    BY <2>2 DEF Taken, Responses
  <2>3. CASE AtEnd(c) /\ c.configuration.on_exhaustion # "error"
    <3>1. Len(responses) \in 1..Len(responses)
      BY <1>2
    <3>2. Last(responses) \in ToSet(responses)
      BY <1>2, <3>1 DEF Last
    <3> QED
      BY <1>3, <2>3, <3>2 DEF Taken
  <2> QED
    BY <2>1, <2>2, <2>3
<1>6. Advanced(c) \in CursorSet /\ Advanced(c).configuration = c.configuration
  BY <1>2, <1>4 DEF Advanced, AtEnd, CursorSet
<1>7. [c EXCEPT !.position = 0] \in CursorSet
  BY <1>2, <1>4 DEF CursorSet
<1> QED
  BY <1>5, <1>6, <1>7

\* Moving a cursor changes neither what it is for nor where it is.
LEMMA Moved ==
    ASSUME cursors \in Seq(CursorSet), NEW i \in DOMAIN cursors, NEW c \in CursorSet,
           c.configuration = cursors[i].configuration, cursors' = [cursors EXCEPT ![i] = c]
    PROVE  /\ cursors' \in Seq(CursorSet)
           /\ DOMAIN cursors' = DOMAIN cursors
           /\ \A j \in DOMAIN cursors : cursors'[j].configuration = cursors[j].configuration
  OBVIOUS

LEMMA RequestFacts ==
    ASSUME IInv, NEW r \in Requests
    PROVE  /\ Record(requests[r])
           /\ requests[r].pc # "idle" => Routed(requests[r], DOMAIN cursors)
  BY DEF IInv, TypeOK, Shaped, Record, Routed, Registers, Idle

\* A request changes no configuration of a cursor, and what is registered stays.
LEMMA RequestStep ==
    ASSUME IInv, NEW r \in Requests, NEW q,
           Record(q), q = Idle \/ Routed(q, DOMAIN cursors),
           requests' = [requests EXCEPT ![r] = q],
           cursors' \in Seq(CursorSet), DOMAIN cursors' = DOMAIN cursors,
           \A j \in DOMAIN cursors : cursors'[j].configuration = cursors[j].configuration,
           UNCHANGED <<saved, sequences>>
    PROVE  IInv'
<1>1. TypeOK'
  <2>1. ASSUME NEW s \in Requests
        PROVE  requests'[s] = Idle \/ Routed(requests'[s], DOMAIN cursors)
    <3>1. CASE s = r
      BY <3>1 DEF IInv, Shaped
    <3>2. CASE s # r
      BY <3>2 DEF IInv, TypeOK, Shaped, Routed, Registers
    <3> QED
      BY <3>1, <3>2
  <2>2. saved' \in Mocks \union {NoMock}
    BY DEF IInv, TypeOK
  <2> QED
    BY <2>1, <2>2 DEF TypeOK, Routed, Registers
<1>2. SequencesMatchMock'
  BY DEF IInv, Shaped, SequencesMatchMock
<1>3. Shaped'
  BY DEF IInv, Shaped, Record
<1> QED
  BY <1>1, <1>2, <1>3 DEF IInv

LEMMA IdleRecord == Record(Idle)
  BY DEF Record, Idle

LEMMA AnswerStep ==
    ASSUME IInv, NEW r \in Requests, NEW response, Answer(r, response), UNCHANGED <<saved, cursors, sequences>>
    PROVE  IInv'
  BY RequestStep, IdleRecord DEF Answer, IInv, TypeOK

LEMMA DispatchStep == ASSUME IInv, NEW r \in Requests, NEW http \in HttpRequests, Dispatch(r, http) PROVE IInv'
<1> DEFINE q == [pc |-> "dispatched", mock |-> saved, states |-> sequences, http |-> http, response |-> NoResponse]
<1>1. requests' = [requests EXCEPT ![r] = q] /\ UNCHANGED <<saved, cursors, sequences>>
  BY DEF Dispatch
<1>2. saved \in Mocks
  BY DEF Dispatch, IInv, TypeOK
<1>3. Record(q)
  BY <1>2 DEF Record
<1>4. Routed(q, DOMAIN cursors)
  BY <1>2, NoMockAssumption DEF Routed, IInv, Shaped, SequencesMatchMock
<1> QED
  BY <1>1, <1>3, <1>4, RequestStep DEF IInv, TypeOK

LEMMA Delayed ==
    ASSUME NEW q, NEW heap, NEW response \in Responses, Record(q), Routed(q, heap)
    PROVE  LET delayed == [q EXCEPT !.pc = "waiting", !.response = response]
           IN  Record(delayed) /\ Routed(delayed, heap)
  BY DEF Record, Routed

\* A reply is given at once or kept through the delay.
LEMMA DeliverStep ==
    ASSUME IInv, NEW r \in Requests, requests[r].pc = "dispatched", NEW k, NEW response \in Responses,
           Deliver(r, k, response),
           cursors' \in Seq(CursorSet), DOMAIN cursors' = DOMAIN cursors,
           \A j \in DOMAIN cursors : cursors'[j].configuration = cursors[j].configuration,
           UNCHANGED <<saved, sequences>>
    PROVE  IInv'
<1>1. CASE Suspends(requests[r].mock, k) /\ response # Exhausted
  <2> DEFINE q == [requests[r] EXCEPT !.pc = "waiting", !.response = response]
  <2>1. requests' = [requests EXCEPT ![r] = q]
    BY <1>1 DEF Deliver, IInv, Shaped
  <2>2. Record(requests[r]) /\ Routed(requests[r], DOMAIN cursors)
    BY RequestFacts
  <2>3. Record(q) /\ Routed(q, DOMAIN cursors)
    BY <2>2, Delayed
  <2> HIDE DEF q
  <2> QED
    BY <2>1, <2>3, RequestStep
<1>2. CASE ~(Suspends(requests[r].mock, k) /\ response # Exhausted)
  <2>1. requests' = [requests EXCEPT ![r] = Idle]
    BY <1>2 DEF Deliver, Answer
  <2> QED
    BY <2>1, IdleRecord, RequestStep
<1> QED
  BY <1>1, <1>2

LEMMA ReserveStep == ASSUME IInv, NEW r \in Requests, Reserve(r) PROVE IInv'
<1> DEFINE q == requests[r]
           k == Selected(q.mock, q.http)
           i == q.states[k]
<1>1. q.pc = "dispatched" /\ UNCHANGED <<saved, sequences>>
  BY DEF Reserve
<1>2. cursors \in Seq(CursorSet)
  BY DEF IInv, TypeOK
<1>3. CASE k \in DOMAIN q.states
  <2>1. i \in DOMAIN cursors
    BY <1>1, <1>3, RequestFacts DEF Routed
  <2>2. cursors[i] \in CursorSet
    BY <1>2, <2>1
  <2>3. /\ Taken(cursors[i]) \in Responses
        /\ Advanced(cursors[i]) \in CursorSet
        /\ Advanced(cursors[i]).configuration = cursors[i].configuration
    BY <2>2, CursorFacts
  <2>4. cursors' = [cursors EXCEPT ![i] = Advanced(cursors[i])] /\ Deliver(r, k, Taken(cursors[i]))
    BY <1>3 DEF Reserve
  <2>5. /\ cursors' \in Seq(CursorSet)
        /\ DOMAIN cursors' = DOMAIN cursors
        /\ \A j \in DOMAIN cursors : cursors'[j].configuration = cursors[j].configuration
    BY <1>2, <2>1, <2>3, <2>4, Moved
  <2> HIDE DEF k, i
  <2> QED
    BY <1>1, <2>3, <2>4, <2>5, DeliverStep
<1>4. CASE k \notin DOMAIN q.states
  <2>1. Deliver(r, k, Unsequenced) /\ UNCHANGED cursors
    BY <1>4 DEF Reserve
  <2>2. Unsequenced \in Responses
    BY DEF Responses
  <2> HIDE DEF k
  <2> QED
    BY <1>1, <1>2, <2>1, <2>2, DeliverStep
<1> QED
  BY <1>3, <1>4

LEMMA FinishStep == ASSUME IInv, NEW r \in Requests, Finish(r) PROVE IInv'
  BY AnswerStep DEF Finish

LEMMA CancelStep == ASSUME IInv, NEW r \in Requests, Cancel(r) PROVE IInv'
  BY AnswerStep DEF Cancel

-------------------------------------------------------------------------------
(* Administrative requests *)

\* Every cursor there was stays as it is, and those the requests hold with it.
LEMMA Extended ==
    ASSUME IInv, NEW new \in Seq(CursorSet), cursors' = cursors \o new, UNCHANGED requests,
           saved' \in Mocks \union {NoMock}
    PROVE  /\ TypeOK'
           /\ requests' = [r \in Requests |-> requests'[r]]
           /\ \A r \in Requests : Record(requests'[r])
           /\ DOMAIN cursors' = 1..Len(cursors) + Len(new)
           /\ \A i \in DOMAIN cursors : i \in DOMAIN cursors' /\ cursors'[i] = cursors[i]
           /\ \A i \in DOMAIN new :
                  Len(cursors) + i \in DOMAIN cursors' /\ cursors'[Len(cursors) + i] = new[i]
<1>1. cursors \in Seq(CursorSet) /\ cursors' \in Seq(CursorSet)
  BY DEF IInv, TypeOK
<1>2. /\ DOMAIN cursors' = 1..Len(cursors) + Len(new)
      /\ \A i \in DOMAIN cursors : i \in DOMAIN cursors' /\ cursors'[i] = cursors[i]
      /\ \A i \in DOMAIN new :
             Len(cursors) + i \in DOMAIN cursors' /\ cursors'[Len(cursors) + i] = new[i]
  BY <1>1
<1>3. ASSUME NEW r \in Requests, requests[r] # Idle PROVE Routed(requests[r], DOMAIN cursors')
  <2>1. Routed(requests[r], DOMAIN cursors)
    BY <1>3 DEF IInv, TypeOK, Routed, Registers
  <2> QED
    BY <1>2, <2>1 DEF Routed
<1>4. TypeOK'
  BY <1>1, <1>3 DEF TypeOK, Routed, Registers
<1>5. requests' = [r \in Requests |-> requests'[r]] /\ \A r \in Requests : Record(requests'[r])
  BY DEF IInv, Shaped
<1> QED
  BY <1>2, <1>4, <1>5

\* The registered cursors after an update: those handed on, and new ones behind all others.
Generation(mock, reused) ==
    /\ DOMAIN sequences' = KeysOf(mock)
    /\ reused \subseteq KeysOf(mock) \intersect DOMAIN sequences
    /\ \A k \in KeysOf(mock) :
        /\ sequences'[k] \in DOMAIN cursors'
        /\ IF k \in reused
           THEN sequences'[k] = sequences[k] /\ cursors'[sequences'[k]] = cursors[sequences[k]]
           ELSE /\ sequences'[k] \notin DOMAIN cursors
                /\ cursors'[sequences'[k]] = [configuration |-> SequenceAt(mock, k), position |-> 0]
    /\ \A k, l \in KeysOf(mock) \ reused : sequences'[k] = sequences'[l] => k = l

\* build_sequences and mock_initialization: what is handed on is in the heap, what is new
\* comes after it.
LEMMA NextGeneration ==
    ASSUME IInv, NEW mock \in Mocks, NEW preserve, Initialize(mock, preserve)
    PROVE  /\ Generation(mock, Reused(mock, preserve))
           /\ TypeOK' /\ saved' = mock
           /\ requests' = [r \in Requests |-> requests'[r]]
           /\ \A r \in Requests : Record(requests'[r])
<1> DEFINE n == Len(cursors)
           reused == Reused(mock, preserve)
           fresh == SetToSeq(KeysOf(mock) \ reused)
           place(k) == CHOOSE i \in DOMAIN fresh : fresh[i] = k
           new == [i \in DOMAIN fresh |-> [configuration |-> SequenceAt(mock, fresh[i]), position |-> 0]]
<1>1. /\ cursors' = cursors \o new
      /\ sequences' = [k \in KeysOf(mock) |-> IF k \in reused THEN sequences[k] ELSE n + place(k)]
      /\ UNCHANGED requests /\ saved' = mock
  BY DEF Initialize
<1>2. /\ Len(fresh) \in Nat
      /\ fresh \in [1..Len(fresh) -> KeysOf(mock) \ reused]
      /\ \A k \in KeysOf(mock) \ reused : \E i \in DOMAIN fresh : fresh[i] = k
  BY FiniteKeys, Listed
<1>3. new \in Seq(CursorSet) /\ DOMAIN new = DOMAIN fresh
  <2>1. ASSUME NEW k \in KeysOf(mock)
        PROVE  [configuration |-> SequenceAt(mock, k), position |-> 0] \in CursorSet
    BY MocksAssumption DEF CursorSet, Configurations
  <2> HIDE DEF fresh, reused
  <2>2. DOMAIN fresh = 1..Len(fresh) /\ \A i \in DOMAIN fresh : fresh[i] \in KeysOf(mock)
    BY <1>2
  <2>3. new \in [1..Len(fresh) -> CursorSet]
    BY <2>1, <2>2
  <2> QED
    BY <1>2, <2>2, <2>3
<1>4. \A k \in KeysOf(mock) \ reused : place(k) \in DOMAIN fresh /\ fresh[place(k)] = k
  BY <1>2
<1>5. /\ reused \subseteq KeysOf(mock) \intersect DOMAIN sequences
      /\ \A k \in reused : sequences[k] \in 1..n
  BY DEF Reused, IInv, Shaped, TypeOK
<1>6. n \in Nat /\ DOMAIN cursors = 1..n
  BY DEF IInv, TypeOK
<1>7. /\ \A i \in 1..n : i \in DOMAIN cursors' /\ cursors'[i] = cursors[i]
      /\ \A i \in DOMAIN fresh : n + i \in DOMAIN cursors' /\ cursors'[n + i] = new[i]
      /\ TypeOK'
      /\ requests' = [r \in Requests |-> requests'[r]]
      /\ \A r \in Requests : Record(requests'[r])
  BY <1>1, <1>3, <1>6, Extended
<1>8. \A i \in DOMAIN fresh : new[i] = [configuration |-> SequenceAt(mock, fresh[i]), position |-> 0]
  OBVIOUS
<1> HIDE DEF fresh, place, reused, n, new
<1>9. ASSUME NEW k \in KeysOf(mock), k \in reused
      PROVE  /\ sequences'[k] \in DOMAIN cursors'
             /\ sequences'[k] = sequences[k] /\ cursors'[sequences'[k]] = cursors[sequences[k]]
  BY <1>1, <1>5, <1>7, <1>9
<1>10. ASSUME NEW k \in KeysOf(mock), k \notin reused
       PROVE  /\ sequences'[k] \in DOMAIN cursors'
              /\ sequences'[k] \notin DOMAIN cursors
              /\ cursors'[sequences'[k]] = [configuration |-> SequenceAt(mock, k), position |-> 0]
  <2>1. sequences'[k] = n + place(k) /\ place(k) \in DOMAIN fresh /\ fresh[place(k)] = k
    BY <1>1, <1>4, <1>10
  <2>2. n + place(k) \in DOMAIN cursors' /\ cursors'[n + place(k)] = new[place(k)]
    BY <1>7, <2>1
  <2>3. place(k) \in 1..Len(fresh)
    BY <1>2, <2>1
  <2>4. n + place(k) \notin 1..n
    BY <1>2, <1>6, <2>3
  <2> QED
    BY <1>6, <1>8, <2>1, <2>2, <2>4
<1>11. ASSUME NEW k \in KeysOf(mock) \ reused, NEW l \in KeysOf(mock) \ reused, sequences'[k] = sequences'[l]
       PROVE  k = l
  <2>1. n + place(k) = n + place(l)
    BY <1>1, <1>11
  <2>2. place(k) \in 1..Len(fresh) /\ place(l) \in 1..Len(fresh)
    BY <1>2, <1>4
  <2>3. place(k) = place(l)
    BY <1>2, <1>6, <2>1, <2>2
  <2> QED
    BY <1>4, <2>3
<1>12. Generation(mock, reused)
  BY <1>1, <1>5, <1>9, <1>10, <1>11 DEF Generation
<1> QED
  BY <1>1, <1>7, <1>12 DEF reused

LEMMA InitializeStep == ASSUME IInv, NEW mock \in Mocks, NEW preserve, Initialize(mock, preserve) PROVE IInv'
<1> DEFINE reused == Reused(mock, preserve)
<1>1. /\ Generation(mock, reused)
      /\ TypeOK' /\ saved' = mock
      /\ requests' = [r \in Requests |-> requests'[r]]
      /\ \A r \in Requests : Record(requests'[r])
  BY NextGeneration
<1>2. \A k \in reused : /\ k \in KeysOf(mock) \intersect DOMAIN sequences /\ sequences[k] \in DOMAIN cursors
                        /\ cursors[sequences[k]].configuration = SequenceAt(mock, k)
  BY DEF Reused, IInv, Shaped
<1>3. sequences' = [k \in DOMAIN sequences' |-> sequences'[k]]
  BY DEF Initialize
<1> HIDE DEF reused
<1>4. ASSUME NEW k \in KeysOf(mock)
      PROVE  /\ sequences'[k] \in DOMAIN cursors'
             /\ cursors'[sequences'[k]].configuration = SequenceAt(mock, k)
  <2>1. CASE k \in reused
    BY <1>1, <1>2, <2>1 DEF Generation
  <2>2. CASE k \notin reused
    <3>1. cursors'[sequences'[k]] = [configuration |-> SequenceAt(mock, k), position |-> 0]
      BY <1>1, <2>2 DEF Generation
    <3> QED
      BY <1>1, <3>1 DEF Generation
  <2> QED
    BY <2>1, <2>2
<1>5. ASSUME NEW k \in KeysOf(mock), NEW l \in KeysOf(mock), sequences'[k] = sequences'[l] PROVE k = l
  <2>1. CASE k \in reused /\ l \in reused
    <3>1. sequences'[k] = sequences[k] /\ sequences'[l] = sequences[l]
      BY <1>1, <2>1 DEF Generation
    <3> QED
      BY <1>2, <1>5, <2>1, <3>1 DEF IInv, SequencesMatchMock
  <2>2. CASE k \notin reused /\ l \notin reused
    <3>1. k \in KeysOf(mock) \ reused /\ l \in KeysOf(mock) \ reused
      BY <2>2
    <3> QED
      BY <1>1, <1>5, <3>1 DEF Generation
  <2>3. ASSUME NEW i \in KeysOf(mock), i \in reused, NEW j \in KeysOf(mock), j \notin reused
        PROVE  sequences'[i] # sequences'[j]
    <3>1. sequences'[i] \in DOMAIN cursors
      BY <1>1, <1>2, <2>3 DEF Generation
    <3>2. sequences'[j] \notin DOMAIN cursors
      BY <1>1, <2>3 DEF Generation
    <3> QED
      BY <3>1, <3>2
  <2> QED
    BY <1>5, <2>1, <2>2, <2>3
<1>6. SequencesMatchMock'
  BY <1>1, <1>4, <1>5, NoMockAssumption DEF Generation, SequencesMatchMock
<1>7. Shaped'
  BY <1>1, <1>3, <1>4 DEF Generation, Shaped
<1> QED
  BY <1>1, <1>6, <1>7 DEF IInv

LEMMA DeleteStep == ASSUME IInv, DeleteMocks PROVE IInv'
  BY NoMockAssumption
  DEF DeleteMocks, IInv, TypeOK, SequencesMatchMock, Shaped, NoStates, Registers, Record

LEMMA ResetStep == ASSUME IInv, NEW k \in DOMAIN sequences, ResetSequence(k) PROVE IInv'
<1> DEFINE i == sequences[k]
           c == [cursors[i] EXCEPT !.position = 0]
<1>1. /\ cursors' = [cursors EXCEPT ![i] = c]
      /\ UNCHANGED <<saved, sequences, requests>>
  BY DEF ResetSequence
<1>2. cursors \in Seq(CursorSet) /\ i \in DOMAIN cursors
  BY DEF IInv, TypeOK, Shaped
<1>3. c \in CursorSet /\ c.configuration = cursors[i].configuration
  <2>1. cursors[i] \in CursorSet
    BY <1>2
  <2> QED
    BY <2>1, CursorFacts DEF CursorSet
<1>4. /\ cursors' \in Seq(CursorSet)
      /\ DOMAIN cursors' = DOMAIN cursors
      /\ \A j \in DOMAIN cursors : cursors'[j].configuration = cursors[j].configuration
  <2> HIDE DEF c, i
  <2> QED
    BY <1>1, <1>2, <1>3, Moved
<1>5. TypeOK'
  BY <1>1, <1>4 DEF IInv, TypeOK, Registers
<1>6. SequencesMatchMock'
  BY <1>1, <1>4 DEF IInv, Shaped, SequencesMatchMock
<1>7. Shaped'
  BY <1>1, <1>4 DEF IInv, Shaped, Record
<1> QED
  BY <1>5, <1>6, <1>7 DEF IInv

LEMMA AdministerStep ==
    ASSUME IInv,
           \/ \E mock \in Mocks :
                  PutMock(mock) \/ \E touched \in SUBSET {"sequence", "rules"} : PatchMock(mock, touched)
           \/ DeleteMocks
           \/ \E k \in DOMAIN sequences : ResetSequence(k)
    PROVE  IInv'
  BY InitializeStep, DeleteStep, ResetStep DEF PutMock, PatchMock

-------------------------------------------------------------------------------

LEMMA InitEstablishes == ASSUME Init PROVE IInv
  BY IdleRecord
  DEF Init, IInv, TypeOK, SequencesMatchMock, Shaped, NoStates, Registers

LEMMA NextPreserves == ASSUME IInv, [Next]_vars PROVE IInv'
<1>1. ASSUME NEW r \in Requests, (\E http \in HttpRequests : Dispatch(r, http)) \/ Serve(r) \/ Cancel(r)
      PROVE  IInv'
  BY <1>1, DispatchStep, ReserveStep, FinishStep, CancelStep DEF Serve
<1>2. CASE UNCHANGED vars
  BY <1>2 DEF vars, IInv, TypeOK, SequencesMatchMock, Shaped, Registers, Record
<1> QED
  BY <1>1, <1>2, AdministerStep DEF Next

\* The inductive invariant of response sequences.
THEOREM Inductive == Spec => []IInv
<1>1. Init => IInv
  BY InitEstablishes
<1>2. IInv /\ [Next]_vars => IInv'
  BY NextPreserves
<1> QED
  BY <1>1, <1>2, PTL DEF Spec

\* Type correctness: no position leaves its list of responses, and no request holds a
\* cursor that does not exist.
THEOREM TypeCorrect == Spec => []TypeOK
<1>1. IInv => TypeOK
  BY DEF IInv
<1> QED
  BY <1>1, Inductive, PTL

\* sequences.py, mock_service.py: the registered cursors are those of the stored mock, one for each
\* of its sequences, for any mocks and any updates of them.
THEOREM CursorsOfMock == Spec => []SequencesMatchMock
<1>1. IInv => SequencesMatchMock
  BY DEF IInv
<1> QED
  BY <1>1, Inductive, PTL

\* A request has a response exactly while it waits, and never holds the cursor of one key
\* for another: what it captured for a key is registered for that key or not at all.
Holding ==
    \A r \in Requests : LET q == requests[r] IN
        /\ q.pc = "dispatched" => q.response = NoResponse
        /\ q.pc = "waiting" => q.response \in Responses
        /\ \A k \in DOMAIN q.states, l \in DOMAIN sequences : sequences[l] = q.states[k] => k = l

HInv == IInv /\ Holding

-------------------------------------------------------------------------------
(* What requests hold *)

HoldsWell(q) ==
    /\ q.pc = "dispatched" => q.response = NoResponse
    /\ q.pc = "waiting" => q.response \in Responses
    /\ \A k \in DOMAIN q.states, l \in DOMAIN sequences : sequences[l] = q.states[k] => k = l

LEMMA RequestHolding ==
    ASSUME HInv, NEW r \in Requests, NEW q, HoldsWell(q), requests' = [requests EXCEPT ![r] = q],
           UNCHANGED sequences
    PROVE  Holding'
  BY DEF HInv, IInv, Shaped, Holding, HoldsWell

LEMMA IdleHolding == HoldsWell(Idle)
  BY DEF HoldsWell, Idle, NoStates

LEMMA DeliverHolding ==
    ASSUME HInv, NEW r \in Requests, requests[r].pc = "dispatched", NEW k, NEW response \in Responses,
           Deliver(r, k, response), UNCHANGED sequences
    PROVE  Holding'
<1>1. CASE Suspends(requests[r].mock, k) /\ response # Exhausted
  <2> DEFINE q == [requests[r] EXCEPT !.pc = "waiting", !.response = response]
  <2>1. requests' = [requests EXCEPT ![r] = q]
    BY <1>1 DEF Deliver, HInv, IInv, Shaped
  <2>2. Record(requests[r]) /\ HoldsWell(requests[r])
    BY RequestFacts DEF HInv, Holding, HoldsWell
  <2>3. HoldsWell(q)
    BY <2>2 DEF Record, HoldsWell
  <2> HIDE DEF q
  <2> QED
    BY <2>1, <2>3, RequestHolding
<1>2. CASE ~(Suspends(requests[r].mock, k) /\ response # Exhausted)
  BY <1>2, IdleHolding, RequestHolding DEF Deliver, Answer
<1> QED
  BY <1>1, <1>2

\* What take gives is a response.
LEMMA Given ==
    ASSUME IInv, NEW r \in Requests, requests[r].pc = "dispatched", NEW k \in DOMAIN requests[r].states
    PROVE  /\ requests[r].states[k] \in DOMAIN cursors
           /\ cursors[requests[r].states[k]] \in CursorSet
           /\ Taken(cursors[requests[r].states[k]]) \in Responses
<1>1. requests[r].states[k] \in DOMAIN cursors
  BY RequestFacts DEF Routed
<1>2. cursors[requests[r].states[k]] \in CursorSet
  BY <1>1 DEF IInv, TypeOK
<1> QED
  BY <1>1, <1>2, CursorFacts

LEMMA ReserveHolding == ASSUME HInv, NEW r \in Requests, Reserve(r) PROVE Holding'
<1> DEFINE k == Selected(requests[r].mock, requests[r].http)
<1>1. requests[r].pc = "dispatched" /\ UNCHANGED sequences /\ Unsequenced \in Responses
  BY DEF Reserve, Responses
<1>2. CASE k \in DOMAIN requests[r].states
  <2>1. Deliver(r, k, Taken(cursors[requests[r].states[k]]))
    BY <1>2 DEF Reserve
  <2>2. Taken(cursors[requests[r].states[k]]) \in Responses
    BY <1>1, <1>2, Given DEF HInv
  <2> HIDE DEF k
  <2> QED
    BY <1>1, <2>1, <2>2, DeliverHolding
<1>3. CASE k \notin DOMAIN requests[r].states
  <2>1. Deliver(r, k, Unsequenced)
    BY <1>3 DEF Reserve
  <2> HIDE DEF k
  <2> QED
    BY <1>1, <2>1, DeliverHolding
<1> QED
  BY <1>2, <1>3

LEMMA DispatchHolding ==
    ASSUME HInv, NEW r \in Requests, NEW http \in HttpRequests, Dispatch(r, http)
    PROVE  Holding'
<1> DEFINE q == [pc |-> "dispatched", mock |-> saved, states |-> sequences, http |-> http, response |-> NoResponse]
<1>1. HoldsWell(q)
  BY DEF HInv, IInv, SequencesMatchMock, HoldsWell
<1> QED
  BY <1>1, RequestHolding DEF Dispatch

LEMMA InitializeHolding ==
    ASSUME HInv, NEW mock \in Mocks, NEW preserve, Initialize(mock, preserve)
    PROVE  Holding'
<1> DEFINE reused == Reused(mock, preserve)
<1>1. Generation(mock, reused)
  BY NextGeneration DEF HInv
<1> HIDE DEF reused
<1>2. UNCHANGED requests
  BY DEF Initialize
<1>3. ASSUME NEW r \in Requests, NEW k \in DOMAIN requests[r].states, NEW l \in DOMAIN sequences',
             sequences'[l] = requests[r].states[k]
      PROVE  k = l
  <2>1. requests[r].states[k] \in DOMAIN cursors
    <3>1. CASE requests[r] = Idle
      BY <1>3, <3>1 DEF Idle, NoStates
    <3>2. CASE requests[r] # Idle
      BY <1>3, <3>2 DEF HInv, IInv, TypeOK, Registers
    <3> QED
      BY <3>1, <3>2
  <2>2. l \in reused /\ l \in DOMAIN sequences /\ sequences'[l] = sequences[l]
    BY <1>1, <1>3, <2>1 DEF Generation
  <2> QED
    BY <1>3, <2>2 DEF HInv, Holding
<1> QED
  BY <1>2, <1>3 DEF HInv, Holding

LEMMA HoldingPreserved == ASSUME HInv, [Next]_vars PROVE Holding'
<1>1. ASSUME NEW r \in Requests, (\E http \in HttpRequests : Dispatch(r, http)) \/ Reserve(r) PROVE Holding'
  BY <1>1, DispatchHolding, ReserveHolding
<1>2. ASSUME NEW r \in Requests, Finish(r) \/ Cancel(r) PROVE Holding'
  BY <1>2, IdleHolding, RequestHolding DEF Finish, Cancel, Answer
<1>3. ASSUME NEW mock \in Mocks,
             PutMock(mock) \/ \E touched \in SUBSET {"sequence", "rules"} : PatchMock(mock, touched)
      PROVE  Holding'
  BY <1>3, InitializeHolding DEF PutMock, PatchMock
<1>4. CASE DeleteMocks
  BY <1>4 DEF DeleteMocks, HInv, Holding, NoStates
<1>5. CASE (\E k \in DOMAIN sequences : ResetSequence(k)) \/ UNCHANGED vars
  BY <1>5 DEF ResetSequence, vars, HInv, Holding
<1> QED
  BY <1>1, <1>2, <1>3, <1>4, <1>5 DEF Next, Serve

\* The second inductive invariant: a response is kept exactly through a delay, and a request
\* never holds one key's cursor for another.
THEOREM HoldingInductive == Spec => []HInv
<1>1. Init => Holding
  BY DEF Init, Holding, Idle, NoStates
<1>2. HInv /\ [Next]_vars => HInv'
  BY NextPreserves, HoldingPreserved DEF HInv
<1>3. Init => HInv
  BY <1>1, InitEstablishes DEF HInv
<1> QED
  BY <1>2, <1>3, PTL DEF Spec

-------------------------------------------------------------------------------
(* The entries left *)

\* Taking from a cursor gives the first entry left and leaves the others, or finds none and
\* goes by the policy.
LEMMA TakenFromLeft ==
    ASSUME NEW c \in CursorSet
    PROVE  /\ AtEnd(c) <=> Remaining(c) = << >>
           /\ ~AtEnd(c) => Taken(c) = Head(Remaining(c)) /\ Remaining(Advanced(c)) = Tail(Remaining(c))
           /\ AtEnd(c) => Advanced(c) = c
           /\ c.position = 0 => Remaining(c) = c.configuration.responses
<1> DEFINE responses == c.configuration.responses
<1>1. PICK m \in Mocks : \E k \in KeysOf(m) : c.configuration = SequenceAt(m, k)
  BY DEF CursorSet, Configurations
<1>2. responses \in Seq(ToSet(responses))
  BY <1>1, MocksAssumption
<1>3. c \in [configuration : Configurations, position : Nat] /\ c.position \in 0..Len(responses)
  BY DEF CursorSet
<1>4. Len(Remaining(c)) = Len(responses) - c.position /\ Remaining(c) \in Seq(ToSet(responses))
  BY <1>2, <1>3 DEF Remaining
<1>5. AtEnd(c) <=> Remaining(c) = << >>
  BY <1>2, <1>3, <1>4, EmptySeq DEF AtEnd
<1>6. ASSUME ~AtEnd(c) PROVE Taken(c) = Head(Remaining(c)) /\ Remaining(Advanced(c)) = Tail(Remaining(c))
  <2>1. c.position + 1 \in 1..Len(responses)
    BY <1>2, <1>3, <1>6 DEF AtEnd
  <2>2. Advanced(c).position = c.position + 1 /\ Advanced(c).configuration = c.configuration
    BY <1>3, <1>6 DEF Advanced
  <2>3. Len(responses) \in c.position + 1 .. Len(responses) /\ c.position + 1 + 1 = c.position + 2
    BY <1>3, <2>1
  <2>4. /\ Head(Remaining(c)) = responses[c.position + 1]
        /\ Tail(Remaining(c)) = SubSeq(responses, c.position + 2, Len(responses))
    BY <1>2, <2>1, <2>3, HeadTailOfSubSeq DEF Remaining
  <2>5. Remaining(Advanced(c)) = SubSeq(responses, c.position + 2, Len(responses))
    <3>1. Advanced(c).position + 1 = c.position + 2
      BY <1>3, <2>2
    <3> QED
      BY <2>2, <3>1 DEF Remaining
  <2> QED
    BY <1>6, <2>4, <2>5 DEF Taken
<1>7. ASSUME c.position = 0 PROVE Remaining(c) = responses
  BY <1>2, <1>7 DEF Remaining
<1> QED
  BY <1>5, <1>6, <1>7 DEF Advanced

-------------------------------------------------------------------------------
(* The state the contract sees *)

CapturedBy(q) ==
    IF q.pc # "dispatched" THEN NoStates
    ELSE [k \in DOMAIN q.states |-> k \in DOMAIN sequences /\ sequences[k] = q.states[k]]

LEMMA Nothing == Contract!Nothing = NoStates
  BY DEF Contract!Nothing, NoStates

LEMMA ContractLast == \A responses : Contract!Last(responses) = Last(responses)
  BY DEF Contract!Last, Last

LEMMA IdleCaptures == CapturedBy(Idle) = Contract!Nothing /\ Idle.response = NoResponse
  BY Nothing DEF CapturedBy, Idle

\* The registered cursors in the state the contract sees.
LEMMA Registered ==
    ASSUME IInv, NEW k \in DOMAIN sequences
    PROVE  /\ sequences[k] \in DOMAIN cursors /\ cursors[sequences[k]] \in CursorSet
           /\ Defined[k] = cursors[sequences[k]].configuration
           /\ Left[k] = Remaining(cursors[sequences[k]])
  BY DEF IInv, TypeOK, Shaped, Defined, Left

\* A request moves; the others keep what they hold.
LEMMA OneRequest ==
    ASSUME IInv, NEW r \in Requests, NEW q, requests' = [requests EXCEPT ![r] = q], UNCHANGED sequences
    PROVE  /\ Claims' = [Claims EXCEPT ![r] = CapturedBy(q)]
           /\ Held' = [Held EXCEPT ![r] = q.response]
<1>1. \A s \in Requests : requests'[s] = IF s = r THEN q ELSE requests[s]
  BY DEF IInv, Shaped
<1>2. \A s \in Requests : Captured(s)' = IF s = r THEN CapturedBy(q) ELSE Captured(s)
  BY <1>1 DEF Captured, CapturedBy
<1>3. Claims' = [Claims EXCEPT ![r] = CapturedBy(q)]
  BY <1>2 DEF Claims
<1> DEFINE response == q.response
<1>4. \A s \in Requests : requests'[s].response = IF s = r THEN response ELSE requests[s].response
  BY <1>1
<1> HIDE DEF response
<1>5. Held' = [Held EXCEPT ![r] = response]
  BY <1>4 DEF Held
<1> QED
  BY <1>3, <1>5 DEF response

\* Nothing the contract knows of the sequences changes.
LEMMA SameSequences == ASSUME UNCHANGED <<cursors, sequences>> PROVE UNCHANGED <<Defined, Left>>
  BY DEF Defined, Left

\* A request gives up what it captured.
LEMMA Released ==
    ASSUME IInv, NEW r \in Requests, requests' = [requests EXCEPT ![r] = Idle], UNCHANGED sequences
    PROVE  /\ Claims' = [Claims EXCEPT ![r] = Contract!Nothing]
           /\ Held' = [Held EXCEPT ![r] = NoResponse]
  BY OneRequest, IdleCaptures

LEMMA DeliverGives ==
    ASSUME HInv, NEW r \in Requests, requests[r].pc = "dispatched", NEW k, NEW response,
           Deliver(r, k, response), UNCHANGED sequences
    PROVE  Contract!Give(r, response)
<1>1. CASE Suspends(requests[r].mock, k) /\ response # Exhausted
  <2> DEFINE q == [requests[r] EXCEPT !.pc = "waiting", !.response = response]
  <2>1. requests' = [requests EXCEPT ![r] = q] /\ event' = NoEvent
    BY <1>1 DEF Deliver, HInv, IInv, Shaped
  <2>2. Record(requests[r])
    BY RequestFacts DEF HInv
  <2>3. q.pc = "waiting" /\ q.response = response
    BY <2>2 DEF Record
  <2> HIDE DEF q
  <2>4. CapturedBy(q) = Contract!Nothing
    BY <2>3, Nothing DEF CapturedBy
  <2>5. Claims' = [Claims EXCEPT ![r] = Contract!Nothing] /\ Held' = [Held EXCEPT ![r] = response]
    BY <2>1, <2>3, <2>4, OneRequest DEF HInv
  <2> QED
    BY <1>1, <2>1, <2>5 DEF Contract!Give, Contract!NoEvent, NoEvent
<1>2. CASE ~(Suspends(requests[r].mock, k) /\ response # Exhausted)
  <2>1. requests' = [requests EXCEPT ![r] = Idle] /\ event' = <<r, response>>
    BY <1>2 DEF Deliver, Answer
  <2>2. Claims' = [Claims EXCEPT ![r] = Contract!Nothing] /\ Held' = [Held EXCEPT ![r] = NoResponse]
    BY <2>1, Released DEF HInv
  <2> QED
    BY <2>1, <2>2 DEF Contract!Give
<1> QED
  BY <1>1, <1>2

-------------------------------------------------------------------------------
(* The steps of a request *)

LEMMA DispatchArrives ==
    ASSUME HInv, NEW r \in Requests, NEW http \in HttpRequests, Dispatch(r, http)
    PROVE  Contract!Arrive(r)
<1> DEFINE q == [pc |-> "dispatched", mock |-> saved, states |-> sequences, http |-> http, response |-> NoResponse]
<1>1. requests[r] = Idle
  BY DEF Dispatch, HInv, IInv, TypeOK
<1>2. Claims[r] = Contract!Nothing /\ Held[r] = NoResponse
  BY <1>1, Nothing DEF Claims, Captured, Held, Idle
<1>3. CapturedBy(q) = [k \in DOMAIN Defined |-> TRUE]
  BY DEF CapturedBy, Defined
<1>4. q.response = NoResponse /\ requests' = [requests EXCEPT ![r] = q] /\ UNCHANGED sequences
  BY DEF Dispatch
<1> HIDE DEF q
<1>5. Claims' = [Claims EXCEPT ![r] = CapturedBy(q)] /\ Held' = [Held EXCEPT ![r] = q.response]
  BY <1>4, OneRequest DEF HInv
<1>6. Held' = Held
  BY <1>2, <1>4, <1>5 DEF Held
<1>7. UNCHANGED <<Defined, Left>> /\ event' = Contract!NoEvent
  BY SameSequences DEF Dispatch, Contract!NoEvent, NoEvent
<1> QED
  BY <1>2, <1>3, <1>5, <1>6, <1>7 DEF Contract!Arrive

\* What a cursor is for stays.
LEMMA SameDefinitions ==
    ASSUME IInv, NEW i \in DOMAIN cursors, NEW c \in CursorSet, c.configuration = cursors[i].configuration,
           cursors' = [cursors EXCEPT ![i] = c], UNCHANGED sequences
    PROVE  UNCHANGED Defined
<1>1. \A j \in DOMAIN cursors : cursors'[j].configuration = cursors[j].configuration
  BY Moved DEF IInv, TypeOK
<1> QED
  BY <1>1 DEF IInv, Shaped, Defined

\* The registered cursor of a key moves: the entries left of that key change, and no others.
LEMMA LiveMoves ==
    ASSUME IInv, NEW k \in DOMAIN sequences, NEW c, cursors' = [cursors EXCEPT ![sequences[k]] = c],
           UNCHANGED sequences
    PROVE  Left' = [Left EXCEPT ![k] = Remaining(c)]
<1>1. ASSUME NEW l \in DOMAIN sequences PROVE cursors'[sequences[l]] = IF l = k THEN c ELSE cursors[sequences[l]]
  BY Registered DEF IInv, SequencesMatchMock, TypeOK
<1>2. \A l \in DOMAIN sequences : Left'[l] = IF l = k THEN Remaining(c) ELSE Left[l]
  BY <1>1 DEF Left
<1>3. Left' = [l \in DOMAIN sequences |-> Left'[l]] /\ Left = [l \in DOMAIN sequences |-> Left[l]]
  BY DEF Left
<1> QED
  BY <1>2, <1>3

\* A cursor that is not registered moves: nobody sees it.
LEMMA LateMoves ==
    ASSUME IInv, NEW i \in DOMAIN cursors, \A l \in DOMAIN sequences : sequences[l] # i,
           NEW c, cursors' = [cursors EXCEPT ![i] = c], UNCHANGED sequences
    PROVE  UNCHANGED Left
<1>1. ASSUME NEW l \in DOMAIN sequences PROVE cursors'[sequences[l]] = cursors[sequences[l]]
  BY Registered DEF IInv, TypeOK
<1> QED
  BY <1>1 DEF Left

LEMMA ReserveKeeps ==
    ASSUME HInv, NEW r \in Requests, Reserve(r)
    PROVE  \/ Contract!Bypass(r)
           \/ \E k \in DOMAIN Claims[r] :
                  Contract!ReserveLive(r, k) \/ \E response \in Responses : Contract!ReserveLate(r, k, response)
<1> DEFINE q == requests[r]
           k == Selected(q.mock, q.http)
           i == q.states[k]
           c == cursors[i]
<1>1. q.pc = "dispatched" /\ UNCHANGED sequences /\ IInv
  BY DEF Reserve, HInv
<1>2. Claims[r] = [l \in DOMAIN q.states |-> l \in DOMAIN sequences /\ sequences[l] = q.states[l]]
  BY <1>1 DEF Claims, Captured
<1>3. CASE k \in DOMAIN q.states
  <2>1. i \in DOMAIN cursors /\ c \in CursorSet /\ Taken(c) \in Responses
    BY <1>1, <1>3, Given
  <2>2. cursors' = [cursors EXCEPT ![i] = Advanced(c)] /\ Deliver(r, k, Taken(c))
    BY <1>3 DEF Reserve
  <2>3. Advanced(c) \in CursorSet /\ Advanced(c).configuration = c.configuration
    BY <2>1, CursorFacts
  <2>4. \A l \in DOMAIN sequences : sequences[l] = i => k = l
    BY <1>3 DEF HInv, Holding
  <2>5. k \in DOMAIN Claims[r] /\ (Claims[r][k] <=> k \in DOMAIN sequences /\ sequences[k] = i)
    BY <1>2, <1>3
  <2>6. /\ AtEnd(c) <=> Remaining(c) = << >>
        /\ ~AtEnd(c) => Taken(c) = Head(Remaining(c)) /\ Remaining(Advanced(c)) = Tail(Remaining(c))
        /\ AtEnd(c) => Advanced(c) = c
    BY <2>1, TakenFromLeft
  <2>7. AtEnd(c) => Taken(c) = IF c.configuration.on_exhaustion = "error" THEN Exhausted ELSE Last(c.configuration.responses)
    BY DEF Taken
  <2>8. c = cursors[i]
    OBVIOUS
  <2> HIDE DEF k, i, c
  <2>9. UNCHANGED Defined
    BY <1>1, <2>1, <2>2, <2>3, <2>8, SameDefinitions
  <2>10. Contract!Give(r, Taken(c))
    BY <1>1, <2>2, DeliverGives
  <2>11. CASE k \in DOMAIN sequences /\ sequences[k] = i
    <3>1. Defined[k] = c.configuration /\ Left[k] = Remaining(c)
      BY <1>1, <2>8, <2>11, Registered
    <3>2. Left' = [Left EXCEPT ![k] = Remaining(Advanced(c))]
      BY <1>1, <2>2, <2>11, LiveMoves
    <3>3. CASE AtEnd(c)
      <4>1. Left' = [Left EXCEPT ![k] = Left[k]]
        BY <2>6, <3>1, <3>2, <3>3
      <4>2. Left = [l \in DOMAIN sequences |-> Left[l]]
        BY DEF Left
      <4>3. UNCHANGED Left
        BY <4>1, <4>2
      <4> DEFINE last == IF Defined[k].on_exhaustion = "error" THEN Exhausted
                         ELSE Contract!Last(Defined[k].responses)
      <4>4. Taken(c) = last
        BY <2>7, <3>1, <3>3, ContractLast
      <4> HIDE DEF last
      <4>5. Contract!Give(r, last)
        BY <2>10, <4>4
      <4>6. Claims[r][k] /\ Left[k] = << >>
        BY <2>5, <2>6, <2>11, <3>1, <3>3
      <4>7. Contract!ReserveLive(r, k)
        BY <2>9, <4>3, <4>5, <4>6 DEF Contract!ReserveLive, last
      <4> QED
        BY <2>5, <4>7
    <3>4. CASE ~AtEnd(c)
      BY <2>5, <2>6, <2>9, <2>10, <2>11, <3>1, <3>2, <3>4 DEF Contract!ReserveLive
    <3> QED
      BY <2>5, <3>3, <3>4
  <2>12. CASE ~(k \in DOMAIN sequences /\ sequences[k] = i)
    <3>1. UNCHANGED Left
      BY <1>1, <2>1, <2>2, <2>4, <2>12, LateMoves
    <3>2. Contract!ReserveLate(r, k, Taken(c))
      BY <2>5, <2>9, <2>10, <2>12, <3>1 DEF Contract!ReserveLate
    <3> QED
      BY <2>1, <2>5, <3>2
  <2> QED
    BY <2>11, <2>12
<1>4. CASE k \notin DOMAIN q.states
  <2>1. Deliver(r, k, Unsequenced) /\ UNCHANGED cursors
    BY <1>4 DEF Reserve
  <2>2. Held[r] = NoResponse
    BY <1>1 DEF HInv, Holding, Held
  <2> HIDE DEF k
  <2>3. Contract!Give(r, Unsequenced)
    BY <1>1, <2>1, DeliverGives
  <2> QED
    BY <1>1, <2>1, <2>2, <2>3, SameSequences DEF Contract!Bypass
<1> QED
  BY <1>3, <1>4

LEMMA FinishDelivers == ASSUME HInv, NEW r \in Requests, Finish(r) PROVE Contract!Deliver(r)
<1>1. Claims[r] = Contract!Nothing /\ Held[r] = requests[r].response /\ Held[r] # NoResponse
  BY Nothing, NoResponseAssumption DEF Finish, Claims, Captured, Held, HInv, Holding
<1>2. Claims' = [Claims EXCEPT ![r] = Contract!Nothing] /\ Held' = [Held EXCEPT ![r] = NoResponse]
  BY Released DEF Finish, Answer, HInv
<1>3. Claims' = Claims
  BY <1>1, <1>2 DEF Claims
<1> QED
  BY <1>1, <1>2, <1>3, SameSequences DEF Finish, Answer, Contract!Deliver

LEMMA CancelAbandons == ASSUME HInv, NEW r \in Requests, Cancel(r) PROVE Contract!Abandon(r)
<1>1. Claims' = [Claims EXCEPT ![r] = Contract!Nothing] /\ Held' = [Held EXCEPT ![r] = NoResponse]
  BY Released DEF Cancel, Answer, HInv
<1> QED
  BY <1>1, SameSequences DEF Cancel, Answer, Contract!Abandon

-------------------------------------------------------------------------------
(* The administrative steps *)

\* The cursors of a new generation: those handed on keep their entries, the others start.
LEMMA GenerationUpdates ==
    ASSUME HInv, NEW mock \in Mocks, NEW preserve, Initialize(mock, preserve)
    PROVE  Contract!Update(Reused(mock, preserve))
<1> DEFINE keep == Reused(mock, preserve)
<1>1. Generation(mock, keep) /\ IInv
  BY NextGeneration DEF HInv
<1>2. UNCHANGED requests
  BY DEF Initialize
<1> HIDE DEF keep
<1>3. /\ DOMAIN Defined' = KeysOf(mock) /\ DOMAIN Left' = KeysOf(mock)
      /\ \A k \in KeysOf(mock) : /\ Defined'[k] = cursors'[sequences'[k]].configuration
                                 /\ Left'[k] = Remaining(cursors'[sequences'[k]])
  BY <1>1 DEF Generation, Defined, Left
<1>4. ASSUME NEW k \in KeysOf(mock), k \in keep PROVE Defined'[k] = Defined[k] /\ Left'[k] = Left[k]
  <2>1. k \in DOMAIN sequences /\ cursors'[sequences'[k]] = cursors[sequences[k]]
    BY <1>1, <1>4 DEF Generation
  <2> QED
    BY <1>1, <1>3, <2>1, Registered
<1>5. ASSUME NEW k \in KeysOf(mock), k \notin keep PROVE Left'[k] = Defined'[k].responses
  <2> DEFINE c == [configuration |-> SequenceAt(mock, k), position |-> 0]
  <2>1. cursors'[sequences'[k]] = c
    BY <1>1, <1>5 DEF Generation
  <2>2. c \in CursorSet /\ c.position = 0
    BY MocksAssumption DEF CursorSet, Configurations
  <2> HIDE DEF c
  <2>3. Remaining(c) = c.configuration.responses
    BY <2>2, TakenFromLeft
  <2> QED
    BY <1>3, <2>1, <2>3
<1>6. keep \subseteq KeysOf(mock)
  BY <1>1 DEF Generation
<1>7. ASSUME NEW r \in Requests
      PROVE  Captured(r)' = [k \in DOMAIN Captured(r) |-> Captured(r)[k] /\ k \in keep]
  <2>1. CASE requests[r].pc # "dispatched"
    BY <1>2, <2>1 DEF Captured, NoStates
  <2>2. CASE requests[r].pc = "dispatched"
    <3>1. \A k \in DOMAIN requests[r].states : requests[r].states[k] \in DOMAIN cursors
      BY <1>1, <2>2, RequestFacts DEF Routed
    <3>2. \A k \in DOMAIN requests[r].states :
            (k \in DOMAIN sequences' /\ sequences'[k] = requests[r].states[k])
            <=> (k \in DOMAIN sequences /\ sequences[k] = requests[r].states[k] /\ k \in keep)
      BY <1>1, <3>1 DEF Generation
    <3> QED
      BY <1>2, <2>2, <3>2 DEF Captured
  <2> QED
    BY <2>1, <2>2
<1>8. Claims' = [r \in Requests |-> [k \in DOMAIN Claims[r] |-> Claims[r][k] /\ k \in keep]]
  BY <1>7 DEF Claims
<1>9. UNCHANGED Held
  BY <1>2 DEF Held
<1>10. Contract!Update(keep)
  BY <1>3, <1>4, <1>5, <1>6, <1>8, <1>9 DEF Contract!Update
<1> QED
  BY <1>10 DEF keep

LEMMA PutReplaces == ASSUME HInv, NEW mock \in Mocks, PutMock(mock) PROVE Contract!Replace
<1>1. Contract!Update(Reused(mock, {}))
  BY GenerationUpdates DEF PutMock
<1>2. Reused(mock, {}) = {}
  BY DEF Reused
<1> QED
  BY <1>1, <1>2 DEF PutMock, Contract!Replace

\* What a PATCH hands on are the cursors of the fields it does not name, all of them.
LEMMA PatchKeepsOthers ==
    ASSUME HInv, NEW mock \in Mocks, NEW touched \in SUBSET {"sequence", "rules"}, PatchMock(mock, touched)
    PROVE  Reused(mock, Preserved(mock, touched)) =
               {k \in DOMAIN Defined : IF k = 0 THEN "sequence" \notin touched ELSE "rules" \notin touched}
<1> DEFINE Untouched(k) == IF k = 0 THEN "sequence" \notin touched ELSE "rules" \notin touched
<1>1. /\ saved \in Mocks /\ DOMAIN sequences = KeysOf(saved)
      /\ \A k \in DOMAIN sequences : cursors[sequences[k]].configuration = SequenceAt(saved, k)
  BY DEF PatchMock, HInv, IInv, TypeOK, SequencesMatchMock
<1>2. /\ "sequence" \notin touched => mock.sequence = saved.sequence
      /\ "rules" \notin touched => mock.rules = saved.rules
  BY DEF PatchMock, Patches
<1>3. /\ Len(mock.rules) \in Nat /\ DOMAIN mock.rules = 1..Len(mock.rules)
      /\ Len(saved.rules) \in Nat /\ DOMAIN saved.rules = 1..Len(saved.rules)
  BY <1>1, MocksAssumption
<1>4. ASSUME NEW k \in KeysOf(saved), Untouched(k) PROVE k \in Reused(mock, Preserved(mock, touched))
  <2>1. k \in 0..Len(saved.rules) /\ SequenceAt(saved, k) # NoSequence
    BY DEF KeysOf
  <2>2. k \in 0..Len(mock.rules) /\ SequenceAt(mock, k) = SequenceAt(saved, k)
    BY <1>2, <1>3, <1>4, <2>1 DEF SequenceAt, Default
  <2>3. k \in Preserved(mock, touched)
    BY <1>3, <1>4, <2>2 DEF Preserved, Default
  <2> QED
    BY <1>1, <2>1, <2>2, <2>3 DEF Reused, KeysOf
<1>5. ASSUME NEW k \in Reused(mock, Preserved(mock, touched)) PROVE k \in KeysOf(saved) /\ Untouched(k)
  <2>1. k \in DOMAIN sequences /\ k \in Preserved(mock, touched)
    BY DEF Reused
  <2> QED
    BY <1>1, <1>3, <2>1 DEF Preserved, Default
<1>6. DOMAIN Defined = KeysOf(saved)
  BY <1>1 DEF Defined
<1> HIDE DEF Untouched
<1>7. Reused(mock, Preserved(mock, touched)) = {k \in DOMAIN Defined : Untouched(k)}
  BY <1>4, <1>5, <1>6
<1> QED
  BY <1>7 DEF Untouched

LEMMA PatchPatches ==
    ASSUME HInv, NEW mock \in Mocks, NEW touched \in SUBSET {"sequence", "rules"}, PatchMock(mock, touched)
    PROVE  Contract!Patch(touched)
<1>1. Contract!Update(Reused(mock, Preserved(mock, touched)))
  BY GenerationUpdates DEF PatchMock
<1> QED
  BY <1>1, PatchKeepsOthers DEF PatchMock, Contract!Patch

LEMMA DeleteDeletes == ASSUME HInv, DeleteMocks PROVE Contract!Delete
<1>1. DOMAIN sequences' = {} /\ event' = <<"deleted">> /\ UNCHANGED requests
  BY DEF DeleteMocks, NoStates
<1>2. DOMAIN Defined' = {} /\ DOMAIN Left' = {}
  BY <1>1 DEF Defined, Left
<1>3. ASSUME NEW r \in Requests
      PROVE  Captured(r)' = [k \in DOMAIN Captured(r) |-> Captured(r)[k] /\ k \in {}]
  BY <1>1 DEF Captured, NoStates
<1>4. Claims' = [r \in Requests |-> [k \in DOMAIN Claims[r] |-> Claims[r][k] /\ k \in {}]]
  BY <1>3 DEF Claims
<1>5. UNCHANGED Held
  BY <1>1 DEF Held
<1> QED
  BY <1>1, <1>2, <1>4, <1>5 DEF Contract!Delete, Contract!Update

LEMMA ResetRestarts == ASSUME HInv, NEW k \in DOMAIN sequences, ResetSequence(k) PROVE Contract!Restart(k)
<1> DEFINE i == sequences[k]
           c == [cursors[i] EXCEPT !.position = 0]
<1>1. cursors' = [cursors EXCEPT ![i] = c] /\ event' = <<"reset", k>> /\ UNCHANGED <<sequences, requests>>
  BY DEF ResetSequence
<1>2. IInv /\ i \in DOMAIN cursors /\ cursors[i] \in CursorSet /\ Defined[k] = cursors[i].configuration
  BY Registered DEF HInv
<1>3. c \in CursorSet /\ c.configuration = cursors[i].configuration /\ c.position = 0
  BY <1>2, CursorFacts DEF CursorSet
<1>4. UNCHANGED Claims /\ UNCHANGED Held
  BY <1>1 DEF Claims, Captured, Held
<1> HIDE DEF c
<1>5. Left' = [Left EXCEPT ![k] = Remaining(c)] /\ UNCHANGED Defined
  BY <1>1, <1>2, <1>3, LiveMoves, SameDefinitions
<1>6. Remaining(c) = Defined[k].responses
  BY <1>2, <1>3, TakenFromLeft
<1> QED
  BY <1>1, <1>4, <1>5, <1>6 DEF Contract!Restart

-------------------------------------------------------------------------------

LEMMA InitMaps == ASSUME Init PROVE Contract!Init
<1>1. Defined = Contract!Nothing /\ Left = Contract!Nothing
  BY DEF Init, Defined, Left, NoStates, Contract!Nothing
<1>2. \A r \in Requests : Captured(r) = Contract!Nothing /\ requests[r].response = NoResponse
  BY Nothing DEF Init, Captured, Idle
<1> QED
  BY <1>1, <1>2 DEF Init, Contract!Init, Claims, Held, NoEvent, Contract!NoEvent

LEMMA NextMaps == ASSUME HInv, [Next]_vars PROVE [Contract!Next]_(Contract!vars)
<1>1. ASSUME NEW r \in Requests, NEW http \in HttpRequests, Dispatch(r, http) PROVE Contract!Next
  BY <1>1, DispatchArrives DEF Contract!Next
<1>2. ASSUME NEW r \in Requests, Reserve(r) PROVE Contract!Next
  BY <1>2, ReserveKeeps DEF Contract!Next
<1>3. ASSUME NEW r \in Requests, Finish(r) PROVE Contract!Next
  BY <1>3, FinishDelivers DEF Contract!Next
<1>4. ASSUME NEW r \in Requests, Cancel(r) PROVE Contract!Next
  BY <1>4, CancelAbandons DEF Contract!Next
<1>5. ASSUME NEW mock \in Mocks, PutMock(mock) PROVE Contract!Next
  BY <1>5, PutReplaces DEF Contract!Next
<1>6. ASSUME NEW mock \in Mocks, NEW touched \in SUBSET {"sequence", "rules"}, PatchMock(mock, touched)
      PROVE  Contract!Next
  BY <1>6, PatchPatches DEF Contract!Next
<1>7. ASSUME DeleteMocks PROVE Contract!Next
  BY <1>7, DeleteDeletes DEF Contract!Next
<1>8. ASSUME NEW k \in DOMAIN sequences, ResetSequence(k) PROVE Contract!Next
  <2>1. k \in DOMAIN Defined
    BY DEF Defined
  <2> QED
    BY <1>8, <2>1, ResetRestarts DEF Contract!Next
<1>9. ASSUME UNCHANGED vars PROVE UNCHANGED Contract!vars
  BY <1>9 DEF vars, Contract!vars, Defined, Left, Claims, Captured, Held
<1> QED
  BY <1>1, <1>2, <1>3, <1>4, <1>5, <1>6, <1>7, <1>8, <1>9 DEF Next, Serve

\* sequences.py, mock_service.py: whatever requests race with whatever updates, each reservation takes
\* the next entry of the one cursor its request goes by, and updates restart exactly the
\* sequences they name.
THEOREM Refinement == Spec => KeepsContract
<1>1. Init => Contract!Init
  BY InitMaps
<1>2. HInv /\ [Next]_vars => [Contract!Next]_(Contract!vars)
  BY NextMaps
<1> QED
  BY <1>1, <1>2, HoldingInductive, PTL DEF Spec, KeepsContract, Contract!Spec
===============================================================================
