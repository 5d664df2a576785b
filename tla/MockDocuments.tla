---------------------------- MODULE MockDocuments ----------------------------
(***************************************************************************)
(* The documents that describe one mock: what the client libraries make of *)
(* the arguments of configure_mock and patch_mock, how the administrative  *)
(* API completes or merges a document, what the schemas refuse and what is *)
(* stored.                                                                 *)
(*                                                                         *)
(* A document is a function from the fields it names to their values; the  *)
(* value of mock_data is a document again.  Unset is an argument that was  *)
(* not passed, Null is None or null.  extra_info and timeout are plain     *)
(* nullable fields like body and are left out.                             *)
(***************************************************************************)
EXTENDS Integers, Sequences

CONSTANTS
    Unset, Null,
    Given,      \* the arguments a caller may pass together: partial functions on Fields
    AllMethods, \* every HTTP method
    AbsoluteUrls \* the values of proxy_host that have a host name

DataFields == {"body", "status_code", "headers"}
PathFields == {"methods", "proxy_host", "rules", "sequence", "recording"}
Fields == DataFields \union PathFields
NoHost == ""
NoHeaders == {}

ASSUME GivenAssumption == \A given \in Given : DOMAIN given \subseteq Fields
ASSUME UrlsAssumption == NoHost \notin AbsoluteUrls /\ Null \notin AbsoluteUrls

\* What a field of mock_data may be, passed or by default; Null is no document of such fields.
ValuesOf(f) ==
    {given[f] : given \in {g \in Given : f \in DOMAIN g}} \union
    {Null} \union (IF f = "status_code" THEN {200} ELSE IF f = "headers" THEN {NoHeaders} ELSE {})
DataDocument(D, body, status_code, headers) ==
    [f \in D |-> IF f = "body" THEN body ELSE IF f = "status_code" THEN status_code ELSE headers]
ASSUME NullAssumption ==
    /\ Null # 200
    /\ \A D \in SUBSET DataFields :
          \A body \in ValuesOf("body"), status_code \in ValuesOf("status_code"), headers \in ValuesOf("headers") :
              Null # DataDocument(D, body, status_code, headers)

VARIABLES
    saved,  \* the stored representation; Null when the path has no mock
    event   \* the last call: who made it, with what, what it was told

vars == <<saved, event>>

Init == saved = Null /\ event = [call |-> "none"]

Pick(document, field, default) == IF field \in DOMAIN document THEN document[field] ELSE default
Merge(old, new) == [f \in DOMAIN old \union DOMAIN new |-> IF f \in DOMAIN new THEN new[f] ELSE old[f]]

-------------------------------------------------------------------------------
(* The client libraries *)

Arguments(default) == {[f \in Fields |-> Pick(given, f, default)] : given \in Given}

\* Mutant of MockPayload: None is never sent.
MockPayloadNotNull(args, include_none) ==
    LET sent == {f \in Fields : args[f] \notin {Unset, Null}}
        data == sent \intersect DataFields
    IN  [f \in (sent \intersect PathFields) \union (IF data = {} THEN {} ELSE {"mock_data"}) |->
            IF f = "mock_data" THEN [d \in data |-> args[d]] ELSE args[f]]

\* The body is sent whenever it was passed, as None too.
MockPayload(args, include_none) ==
    LET IsGiven(f) == args[f] # Unset /\ (include_none \/ f = "body" \/ args[f] # Null)
        sent == {f \in Fields : IsGiven(f)}
        data == sent \intersect DataFields
    IN  [f \in (sent \intersect PathFields) \union (IF data = {} THEN {} ELSE {"mock_data"}) |->
            IF f = "mock_data" THEN [d \in data |-> args[d]] ELSE args[f]]

-------------------------------------------------------------------------------
(* The schemas *)

HasHost(host) == host \notin {Null, NoHost}

ValidHost(host) == HasHost(host) => host \in AbsoluteUrls

\* A rule cannot combine a sequence with its own proxy_host.
ValidRule(rule) == ValidHost(rule.proxy_host) /\ ~(rule.sequence /\ HasHost(rule.proxy_host))

\* What each field admits by itself.
ValidFields(document) ==
    /\ Pick(document, "mock_data", << >>) # Null
    /\ "mock_data" \in DOMAIN document => Pick(document["mock_data"], "status_code", 200) # Null
    /\ ValidHost(Pick(document, "proxy_host", Null))
    /\ LET rules == Pick(document, "rules", Null)
       IN  rules # Null => \A i \in DOMAIN rules : ValidRule(rules[i])

\* What the fields admit together.
ValidSequences(value) ==
    LET rules == IF value.rules = Null THEN << >> ELSE value.rules
        has_sequence == value.sequence # Null \/ \E i \in DOMAIN rules : rules[i].sequence
    IN  /\ has_sequence => ~HasHost(value.proxy_host)
        /\ value.recording = "record" => HasHost(value.proxy_host)
        /\ value.recording # Null => ~has_sequence /\ rules = << >>

\* The complete representation: defaults for what is missing, all methods for none,
\* no headers for null.
ModelDump(document) ==
    LET data == Pick(document, "mock_data", << >>)
        headers == Pick(data, "headers", Null)
        methods == Pick(document, "methods", Null)
    IN  [mock_data |-> [body |-> Pick(data, "body", Null),
                        status_code |-> Pick(data, "status_code", 200),
                        headers |-> IF headers = Null THEN NoHeaders ELSE headers],
         methods |-> IF methods \in {Null, {}} THEN AllMethods ELSE methods,
         proxy_host |-> Pick(document, "proxy_host", Null),
         rules |-> Pick(document, "rules", Null),
         sequence |-> Pick(document, "sequence", Null),
         recording |-> Pick(document, "recording", Null)]

ASSUME DefaultAssumption == ModelDump(<< >>) # Null

Validates(document) == ValidFields(document) /\ ValidSequences(ModelDump(document))

-------------------------------------------------------------------------------
(* The administrative API: the representation after a request and its answer *)

Refused(old) == [saved |-> old, status |-> 422]

\* Mutant of Put: what is stored shows through.
PutMerged(old, document) ==
    LET whole == IF old = Null THEN document ELSE Merge(old, document)
    IN  IF Validates(whole) THEN [saved |-> ModelDump(whole), status |-> IF old = Null THEN 201 ELSE 200]
        ELSE Refused(old)

Put(old, document) ==
    IF Validates(document) THEN [saved |-> ModelDump(document), status |-> IF old = Null THEN 201 ELSE 200]
    ELSE Refused(old)

Merged(old, changes) ==
    IF "mock_data" \in DOMAIN changes
    THEN Merge(old, [changes EXCEPT !["mock_data"] = Merge(old.mock_data, @)])
    ELSE Merge(old, changes)

\* Mutant of Patch: only the changes are validated.
PatchUnchecked(old, changes) ==
    IF old = Null THEN [saved |-> old, status |-> 404]
    ELSE IF Validates(changes) THEN [saved |-> ModelDump(Merged(old, changes)), status |-> 200]
    ELSE Refused(old)

Patch(old, changes) ==
    IF old = Null THEN [saved |-> old, status |-> 404]
    ELSE IF Pick(changes, "mock_data", << >>) # Null /\ Validates(Merged(old, changes))
    THEN [saved |-> ModelDump(Merged(old, changes)), status |-> 200]
    ELSE Refused(old)

Answered(call, args, outcome) ==
    /\ saved' = outcome.saved
    /\ event' = [call |-> call, args |-> args, status |-> outcome.status]

\* ProxyMock.configure_mock: an argument that is not passed is None.
ConfigureMock(args) == Answered("configure", args, Put(saved, MockPayload(args, FALSE)))

\* AsyncProxyMock.patch_mock: None is a value, an argument that is not passed is Unset.
PatchMock(args) == Answered("patch", args, Patch(saved, MockPayload(args, TRUE)))

\* Other HTTP clients send any document, nulls included.
Documents == {MockPayload(args, TRUE) : args \in Arguments(Unset)} \union {[f \in {"mock_data"} |-> Null]}
PutMock(document) == Answered("put", document, Put(saved, document))
PatchDocument(document) == Answered("patch document", document, Patch(saved, document))

DeleteMock == Answered("delete", << >>, [saved |-> Null, status |-> IF saved = Null THEN 404 ELSE 200])

Next ==
    \/ \E args \in Arguments(Null) : ConfigureMock(args)
    \/ \E args \in Arguments(Unset) : PatchMock(args)
    \/ \E document \in Documents : PutMock(document)
    \/ \E document \in Documents : PatchDocument(document)
    \/ DeleteMock

Spec == Init /\ [][Next]_vars

-------------------------------------------------------------------------------
(* Properties *)

\* No sequence of replacements and partial updates leaves a mock that a full replacement
\* would refuse, and what is stored is the representation of itself: reading a mock and
\* putting it back, or exporting and importing it, changes nothing (patch_mock validates
\* the merged document, validate_mock stores model_dump).
StoredIsLegal == saved # Null => Validates(saved) /\ ModelDump(saved) = saved

\* What a field reads as once it was written: null falls back to the default of a field
\* that has one.
ReadBack(f, value) ==
    CASE f = "headers" /\ value = Null -> NoHeaders
      [] f = "methods" /\ value \in {Null, {}} -> AllMethods
      [] OTHER -> value
FieldOf(value, f) == IF f \in DataFields THEN value.mock_data[f] ELSE value[f]

\* patch_mock(...) that succeeds sets exactly the fields whose arguments were passed, to
\* None where None was passed, and leaves every other field as it was, inside mock_data
\* as well.
PatchSetsOnlyWhatWasPassed ==
    [][event'.call = "patch" /\ event'.status = 200 =>
        \A f \in Fields : FieldOf(saved', f) = IF event'.args[f] = Unset THEN FieldOf(saved, f)
                                               ELSE ReadBack(f, event'.args[f])]_vars

\* configure_mock(...) starts from nothing: it succeeds, whatever was stored, exactly when
\* patching a default mock with the arguments that are not None would, with the same mock
\* as the result.
ConfigureIsPatchOfDefault ==
    [][event'.call = "configure" =>
        LET default == ModelDump(<< >>)
            passed == [f \in Fields |-> IF event'.args[f] = Null THEN Unset ELSE event'.args[f]]
            patched == Patch(default, MockPayload(passed, TRUE))
        IN  IF patched.status = 200 THEN event'.status # 422 /\ saved' = patched.saved
            ELSE event'.status = 422 /\ saved' = saved]_vars
===============================================================================
