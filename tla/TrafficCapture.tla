---------------------------- MODULE TrafficCapture ----------------------------
(***************************************************************************)
(* The traffic store: which requests leave a record, and which records     *)
(* stay, while the limit changes and the store is cleared.                 *)
(*                                                                         *)
(* Every request is made once.  Routing decides who answers it: the router *)
(* itself (405), the loop guard (508), the 404 handler, or the handler of  *)
(* the mock.  The last two record the request when its body has arrived,   *)
(* one suspension later; the mock's handler adds the record and marks it   *)
(* with the matched rule in the same step, so that no other record can     *)
(* come in between.                                                        *)
(***************************************************************************)
EXTENDS Integers, SequencesExt

CONSTANTS
    Requests,  \* the requests, each made once
    Rules,     \* the rules of the mock
    NoRule,    \* no rule matched, or the record is not one of a mock
    Limits     \* the values max_items may be given

ASSUME RulesAssumption == NoRule \notin Rules
ASSUME LimitsAssumption == Limits # {} /\ Limits \subseteq Nat \ {0}

VARIABLES
    data,                    \* the stored records, oldest first
    max_items,               \* the limit
    record_unknown_traffic,  \* the setting
    configured,              \* the path has a mock
    progress,                \* how far each request is
    captured                 \* history: the records made since the store was cleared

vars == <<data, max_items, record_unknown_traffic, configured, progress, captured>>

Init ==
    /\ data = << >>
    /\ max_items \in Limits
    /\ record_unknown_traffic \in BOOLEAN
    /\ configured = FALSE
    /\ progress = [r \in Requests |-> "new"]
    /\ captured = << >>

-------------------------------------------------------------------------------
(* TrafficStore *)

Newest(s, n) == IF Len(s) <= n THEN s ELSE SubSeq(s, Len(s) - n + 1, Len(s))

Add(s, item) == Newest(Append(s, item), max_items)
PatchLast(s, rule) == IF s = << >> THEN s ELSE [s EXCEPT ![Len(s)].rule = rule]

-------------------------------------------------------------------------------
(* The requests *)

Goes(r, where) == progress' = [progress EXCEPT ![r] = where]

\* The router and the loop guard run before anything is awaited.  `method` says
\* whether the mock is configured for the method, `looped` whether the request
\* has been proxied by this process before.
Route(r, method, looped) ==
    /\ progress[r] = "new"
    /\ \/ configured /\ ~method /\ Goes(r, "method_not_allowed")
       \/ configured /\ method /\ looped /\ Goes(r, "loop_detected")
       \/ configured /\ method /\ ~looped /\ Goes(r, "routed")
       \/ ~configured /\ record_unknown_traffic /\ Goes(r, "unknown")
       \/ ~configured /\ ~record_unknown_traffic /\ Goes(r, "not_found")
    /\ UNCHANGED <<data, max_items, record_unknown_traffic, configured, captured>>

\* Mutant of Capture: the rule is noted before the request is recorded.
CapturePatchedFirst(r, rule) ==
    /\ progress[r] = "routed"
    /\ data' = Add(IF rule = NoRule THEN data ELSE PatchLast(data, rule), [request |-> r, rule |-> NoRule])
    /\ captured' = Append(captured, [request |-> r, rule |-> rule])
    /\ Goes(r, "served")
    /\ UNCHANGED <<max_items, record_unknown_traffic, configured>>

\* new_traffic_data and apply_rules: the record, then its rule.
Capture(r, rule) ==
    LET added == Add(data, [request |-> r, rule |-> NoRule]) IN
    /\ progress[r] = "routed"
    /\ data' = IF rule = NoRule THEN added ELSE PatchLast(added, rule)
    /\ captured' = Append(captured, [request |-> r, rule |-> rule])
    /\ Goes(r, "served")
    /\ UNCHANGED <<max_items, record_unknown_traffic, configured>>

\* The 404 handler records whatever the setting says by now.
CaptureUnknown(r) ==
    LET record == [request |-> r, rule |-> NoRule] IN
    /\ progress[r] = "unknown"
    /\ data' = Add(data, record)
    /\ captured' = Append(captured, record)
    /\ Goes(r, "not_found")
    /\ UNCHANGED <<max_items, record_unknown_traffic, configured>>

\* The client is gone before its body arrived: nothing is recorded.
Disconnect(r) ==
    /\ progress[r] \in {"routed", "unknown"}
    /\ Goes(r, "gone")
    /\ UNCHANGED <<data, max_items, record_unknown_traffic, configured, captured>>

-------------------------------------------------------------------------------
(* The administrative requests *)

\* Mutants of PatchSettings: the limit applies to later records only; the new
\* deque starts empty.
PatchSettingsLater(limit, unknown) ==
    /\ max_items' = limit
    /\ record_unknown_traffic' = unknown
    /\ UNCHANGED <<data, configured, progress, captured>>
PatchSettingsEmptied(limit, unknown) ==
    /\ data' = IF limit = max_items THEN data ELSE << >>
    /\ max_items' = limit
    /\ record_unknown_traffic' = unknown
    /\ UNCHANGED <<configured, progress, captured>>

\* PATCH /settings; a field that is not sent keeps its value.
PatchSettings(limit, unknown) ==
    /\ data' = Newest(data, limit)
    /\ max_items' = limit
    /\ record_unknown_traffic' = unknown
    /\ UNCHANGED <<configured, progress, captured>>

ClearTraffic ==
    /\ data' = << >>
    /\ captured' = << >>
    /\ UNCHANGED <<max_items, record_unknown_traffic, configured, progress>>

\* PUT and DELETE /mocks: the traffic stays.
Configure ==
    /\ configured' = ~configured
    /\ UNCHANGED <<data, max_items, record_unknown_traffic, progress, captured>>

Next ==
    \/ \E r \in Requests :
        \/ \E method, looped \in BOOLEAN : Route(r, method, looped)
        \/ \E rule \in Rules \union {NoRule} : Capture(r, rule)
        \/ CaptureUnknown(r)
        \/ Disconnect(r)
    \/ \E limit \in Limits, unknown \in BOOLEAN : PatchSettings(limit, unknown)
    \/ ClearTraffic
    \/ Configure

Spec == Init /\ [][Next]_vars

-------------------------------------------------------------------------------
(* Correctness *)

RecordSet == [request : Requests, rule : Rules \union {NoRule}]

\* The types of the state; the store never holds more than its limit.
TypeOK ==
    /\ data \in Seq(RecordSet) /\ Len(data) <= max_items
    /\ max_items \in Limits
    /\ record_unknown_traffic \in BOOLEAN
    /\ configured \in BOOLEAN
    /\ progress \in [Requests ->
           {"new", "routed", "unknown", "served", "not_found", "method_not_allowed", "loop_detected", "gone"}]
    /\ captured \in Seq(RecordSet)

\* The store holds the newest records, in the order they were made and each with
\* the rule of its own request, however the limit moved and whoever ran between.
NewestKept ==
    /\ Len(data) <= Len(captured)
    /\ data = Newest(captured, Len(data))

\* Records are dropped only by a store that is full with newer ones, or cleared.
DroppedOnlyWhenFull ==
    [][\A i \in DOMAIN data :
        data[i] \in ToSet(data') \/ Len(data') = max_items' \/ captured' = << >>]_vars

\* README.md:656-661 "For any path that has a mock configured, the server [...] 1. Records
\* the request in traffic.", before 2. the method is checked (405) and 4. "proxying 'to
\* self' is aborted with 508".
EveryRequestIsRecorded ==
    [][\A r \in Requests :
        progress[r] = "new" /\ progress'[r] \in {"method_not_allowed", "loop_detected"} =>
            \E record \in ToSet(captured') : record.request = r]_vars
===============================================================================
