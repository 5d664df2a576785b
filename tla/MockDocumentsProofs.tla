-------------------------- MODULE MockDocumentsProofs --------------------------
(***************************************************************************)
(* What is stored is legal and its own representation, a partial update    *)
(* sets what was passed and nothing else, and a configuration is a partial *)
(* update of a default mock, whatever the callers may pass.                *)
(***************************************************************************)
EXTENDS MockDocuments, TLAPS

DocumentFields == {"mock_data"} \union PathFields

-------------------------------------------------------------------------------
(* Representations *)

\* The fields of a representation.
LEMMA DumpFields ==
    ASSUME NEW document, NEW data, data = Pick(document, "mock_data", << >>)
    PROVE  LET dump == ModelDump(document) IN
           /\ DOMAIN dump = DocumentFields
           /\ DOMAIN dump.mock_data = DataFields
           /\ dump.mock_data.body = Pick(data, "body", Null)
           /\ dump.mock_data.status_code = Pick(data, "status_code", 200)
           /\ dump.mock_data.headers = IF Pick(data, "headers", Null) = Null THEN NoHeaders ELSE Pick(data, "headers", Null)
           /\ dump.methods = IF Pick(document, "methods", Null) \in {Null, {}} THEN AllMethods ELSE Pick(document, "methods", Null)
           /\ dump.proxy_host = Pick(document, "proxy_host", Null)
           /\ dump.rules = Pick(document, "rules", Null)
           /\ dump.sequence = Pick(document, "sequence", Null)
           /\ dump.recording = Pick(document, "recording", Null)
  BY DEF ModelDump, DocumentFields, DataFields, PathFields

\* A representation with the same fields is the same one.
LEMMA SameDump ==
    ASSUME NEW document, NEW other,
           LET dump == ModelDump(document)
               again == ModelDump(other)
           IN  /\ \A f \in DataFields : dump.mock_data[f] = again.mock_data[f]
               /\ \A f \in PathFields : dump[f] = again[f]
    PROVE  ModelDump(document) = ModelDump(other)
  BY DEF ModelDump, DataFields, PathFields

\* Completing what is complete changes nothing.
LEMMA DumpAgain == ASSUME NEW document PROVE ModelDump(ModelDump(document)) = ModelDump(document)
<1> DEFINE dump == ModelDump(document)
           data == dump.mock_data
<1>1. DOMAIN dump = DocumentFields /\ DOMAIN data = DataFields
  BY DumpFields
<1>2. /\ Pick(dump, "mock_data", << >>) = data
      /\ \A f \in PathFields : Pick(dump, f, Null) = dump[f]
      /\ Pick(data, "body", Null) = data.body
      /\ Pick(data, "headers", Null) = data.headers
      /\ Pick(data, "status_code", 200) = data.status_code
  BY <1>1 DEF Pick, DocumentFields, DataFields, PathFields
<1>3. /\ data.headers = Null => NoHeaders = data.headers
      /\ dump.methods \in {Null, {}} => dump.methods = AllMethods
  BY DumpFields
<1> HIDE DEF dump
<1>4. /\ ModelDump(dump).mock_data.body = data.body
      /\ ModelDump(dump).mock_data.status_code = data.status_code
      /\ ModelDump(dump).mock_data.headers = data.headers
      /\ ModelDump(dump).methods = dump.methods
      /\ ModelDump(dump).proxy_host = dump.proxy_host
      /\ ModelDump(dump).rules = dump.rules
      /\ ModelDump(dump).sequence = dump.sequence
      /\ ModelDump(dump).recording = dump.recording
  BY <1>2, <1>3, DumpFields DEF PathFields
<1>5. ModelDump(dump) = ModelDump(document)
  BY <1>4, SameDump DEF dump, DataFields, PathFields
<1> QED
  BY <1>5 DEF dump

\* A legal document has a legal representation.
LEMMA DumpLegal ==
    ASSUME NEW document, Validates(document), ModelDump(document).mock_data # Null
    PROVE  Validates(ModelDump(document))
<1> DEFINE dump == ModelDump(document)
           data == dump.mock_data
<1>1. DOMAIN dump = DocumentFields /\ DOMAIN data = DataFields
  BY DumpFields
<1>2. /\ Pick(dump, "mock_data", << >>) = data
      /\ \A f \in PathFields : Pick(dump, f, Null) = dump[f]
      /\ Pick(data, "status_code", 200) = data.status_code
  BY <1>1 DEF Pick, DocumentFields, DataFields, PathFields
<1>3. data.status_code # Null
  <2>1. data.status_code = Pick(Pick(document, "mock_data", << >>), "status_code", 200)
    BY DumpFields
  <2>2. CASE "mock_data" \in DOMAIN document
    BY <2>1, <2>2 DEF Validates, ValidFields, Pick
  <2>3. CASE "mock_data" \notin DOMAIN document
    BY <2>1, <2>3, NullAssumption DEF Pick
  <2> QED
    BY <2>2, <2>3
<1>4. dump.proxy_host = Pick(document, "proxy_host", Null) /\ dump.rules = Pick(document, "rules", Null)
  BY DumpFields
<1> HIDE DEF dump
<1>5. ValidFields(dump)
  BY <1>2, <1>3, <1>4 DEF Validates, ValidFields, PathFields, dump
<1>6. ModelDump(dump) = dump
  BY DumpAgain DEF dump
<1>7. ValidSequences(dump)
  BY DEF Validates, dump
<1> QED
  BY <1>5, <1>6, <1>7 DEF Validates, dump

-------------------------------------------------------------------------------
(* Null is no document *)

\* A document of fields of mock_data, each with a value it may have.
IsData(data) ==
    /\ DOMAIN data \subseteq DataFields
    /\ data = [f \in DOMAIN data |-> data[f]]
    /\ \A f \in DOMAIN data : data[f] \in ValuesOf(f)

LEMMA DataNotNull == ASSUME NEW data, IsData(data) PROVE data # Null
<1> DEFINE body == Pick(data, "body", Null)
           status_code == Pick(data, "status_code", Null)
           headers == Pick(data, "headers", Null)
<1>1. /\ body \in ValuesOf("body") /\ status_code \in ValuesOf("status_code") /\ headers \in ValuesOf("headers")
  BY DEF IsData, Pick, ValuesOf
<1>2. data = DataDocument(DOMAIN data, body, status_code, headers)
  BY DEF IsData, Pick, DataDocument, DataFields
<1> HIDE DEF body, status_code, headers
<1> QED
  BY <1>1, <1>2, NullAssumption DEF IsData

\* The data of a document is one, where it has any.
Typed(document) == "mock_data" \in DOMAIN document => IsData(document["mock_data"])

LEMMA TypedData == ASSUME NEW document, Typed(document) PROVE IsData(Pick(document, "mock_data", << >>))
<1>1. IsData(<< >>)
  BY DEF IsData
<1> QED
  BY <1>1 DEF Typed, Pick

\* The arguments a client library passes on.
LEMMA ArgumentValues ==
    ASSUME NEW default \in {Null, Unset}, NEW args \in Arguments(default)
    PROVE  /\ DOMAIN args = Fields
           /\ \A f \in Fields : args[f] # Unset => args[f] \in ValuesOf(f)
<1>1. PICK given \in Given : args = [f \in Fields |-> Pick(given, f, default)]
  BY DEF Arguments
<1>2. ASSUME NEW f \in Fields, args[f] # Unset PROVE args[f] \in ValuesOf(f)
  BY <1>1, <1>2 DEF Pick, ValuesOf
<1> QED
  BY <1>1, <1>2

Sent(args, include_none) == {f \in Fields : args[f] # Unset /\ (include_none \/ f = "body" \/ args[f] # Null)}

LEMMA PayloadFields ==
    ASSUME NEW args, NEW include_none \in BOOLEAN
    PROVE  LET payload == MockPayload(args, include_none)
               sent == Sent(args, include_none)
           IN  /\ DOMAIN payload = (sent \intersect PathFields)
                                   \union (IF sent \intersect DataFields = {} THEN {} ELSE {"mock_data"})
               /\ \A f \in sent \intersect PathFields : payload[f] = args[f]
               /\ sent \intersect DataFields # {} =>
                      payload["mock_data"] = [d \in sent \intersect DataFields |-> args[d]]
<1> DEFINE sent == Sent(args, include_none)
           data == sent \intersect DataFields
<1>1. MockPayload(args, include_none) =
        [f \in (sent \intersect PathFields) \union (IF data = {} THEN {} ELSE {"mock_data"}) |->
            IF f = "mock_data" THEN [d \in data |-> args[d]] ELSE args[f]]
  BY DEF MockPayload, Sent
<1>2. "mock_data" \notin PathFields
  BY DEF PathFields
<1> HIDE DEF sent
<1> QED
  BY <1>1, <1>2 DEF sent

LEMMA PayloadTyped ==
    ASSUME NEW args, \A f \in Fields : args[f] # Unset => args[f] \in ValuesOf(f), NEW include_none \in BOOLEAN
    PROVE  Typed(MockPayload(args, include_none))
<1> DEFINE payload == MockPayload(args, include_none)
           data == Sent(args, include_none) \intersect DataFields
<1>1. "mock_data" \in DOMAIN payload => payload["mock_data"] = [d \in data |-> args[d]]
  BY PayloadFields DEF PathFields
<1>2. \A d \in data : args[d] \in ValuesOf(d)
  BY DEF Sent
<1>3. IsData([d \in data |-> args[d]])
  <2> HIDE DEF data
  <2>1. data \subseteq DataFields
    BY DEF data
  <2> QED
    BY <1>2, <2>1 DEF IsData
<1> QED
  BY <1>1, <1>3 DEF Typed

LEMMA DumpTyped == ASSUME NEW document, Typed(document) PROVE IsData(ModelDump(document).mock_data)
<1> DEFINE data == Pick(document, "mock_data", << >>)
           dump == ModelDump(document).mock_data
<1>1. IsData(data)
  BY TypedData
<1>2. /\ DOMAIN dump = DataFields
      /\ dump.body = Pick(data, "body", Null)
      /\ dump.status_code = Pick(data, "status_code", 200)
      /\ dump.headers = IF Pick(data, "headers", Null) = Null THEN NoHeaders ELSE Pick(data, "headers", Null)
  BY DumpFields
<1>3. dump = [f \in DOMAIN dump |-> dump[f]]
  BY DEF ModelDump
<1> HIDE DEF data, dump
<1>4. Pick(data, "body", Null) \in ValuesOf("body")
  BY <1>1 DEF IsData, Pick, ValuesOf
<1>5. Pick(data, "status_code", 200) \in ValuesOf("status_code")
  BY <1>1 DEF IsData, Pick, ValuesOf
<1>6. Pick(data, "headers", Null) \in ValuesOf("headers") /\ NoHeaders \in ValuesOf("headers")
  BY <1>1 DEF IsData, Pick, ValuesOf
<1>7. \A f \in DataFields : dump[f] \in ValuesOf(f)
  BY <1>2, <1>4, <1>5, <1>6 DEF DataFields
<1> QED
  BY <1>2, <1>3, <1>7 DEF IsData, dump

-------------------------------------------------------------------------------
(* What is stored *)

Legal(value) == Validates(value) /\ ModelDump(value) = value /\ IsData(value.mock_data)

IInv == saved # Null => Legal(saved)

\* What passes validation is stored legal.
LEMMA StoreLegal ==
    ASSUME NEW document, Typed(document), Validates(document)
    PROVE  Legal(ModelDump(document))
<1>1. IsData(ModelDump(document).mock_data)
  BY DumpTyped
<1> QED
  BY <1>1, DataNotNull, DumpLegal, DumpAgain DEF Legal

\* A legal value is complete.
LEMMA LegalFields ==
    ASSUME NEW value, Legal(value)
    PROVE  /\ DOMAIN value = DocumentFields
           /\ DOMAIN value.mock_data = DataFields
           /\ value.mock_data = [d \in DataFields |-> value.mock_data[d]]
  BY DumpFields DEF Legal, IsData

LEMMA MergeData ==
    ASSUME NEW old, NEW new, IsData(old), IsData(new)
    PROVE  IsData(Merge(old, new))
<1>1. /\ DOMAIN Merge(old, new) = DOMAIN old \union DOMAIN new
      /\ \A f \in DOMAIN old \union DOMAIN new :
             Merge(old, new)[f] = IF f \in DOMAIN new THEN new[f] ELSE old[f]
      /\ Merge(old, new) = [f \in DOMAIN Merge(old, new) |-> Merge(old, new)[f]]
  BY DEF Merge
<1> QED
  BY <1>1 DEF IsData

\* The fields of a merged document.
LEMMA MergedFields ==
    ASSUME NEW old, NEW changes
    PROVE  /\ DOMAIN Merged(old, changes) = DOMAIN old \union DOMAIN changes
           /\ \A f \in DOMAIN old \union DOMAIN changes : f # "mock_data" =>
                  Merged(old, changes)[f] = IF f \in DOMAIN changes THEN changes[f] ELSE old[f]
           /\ "mock_data" \in DOMAIN changes =>
                  Merged(old, changes)["mock_data"] = Merge(old.mock_data, changes["mock_data"])
           /\ "mock_data" \in DOMAIN old \ DOMAIN changes => Merged(old, changes)["mock_data"] = old["mock_data"]
<1> DEFINE merged == [changes EXCEPT !["mock_data"] = Merge(old.mock_data, @)]
<1>1. CASE "mock_data" \in DOMAIN changes
  <2>1. Merged(old, changes) = Merge(old, merged)
    BY <1>1 DEF Merged
  <2>2. /\ DOMAIN merged = DOMAIN changes
        /\ merged["mock_data"] = Merge(old.mock_data, changes["mock_data"])
        /\ \A f \in DOMAIN changes : f # "mock_data" => merged[f] = changes[f]
    BY <1>1
  <2> HIDE DEF merged
  <2> QED
    BY <1>1, <2>1, <2>2 DEF Merge
<1>2. CASE "mock_data" \notin DOMAIN changes
  BY <1>2 DEF Merged, Merge
<1> QED
  BY <1>1, <1>2

LEMMA MergedTyped ==
    ASSUME NEW old, Legal(old), NEW changes, Typed(changes)
    PROVE  Typed(Merged(old, changes))
<1>1. DOMAIN old = DocumentFields /\ IsData(old.mock_data)
  BY LegalFields DEF Legal
<1>2. CASE "mock_data" \in DOMAIN changes
  <2>1. Merged(old, changes)["mock_data"] = Merge(old.mock_data, changes["mock_data"])
    BY <1>2, MergedFields
  <2> QED
    BY <1>1, <1>2, <2>1, MergeData DEF Typed
<1>3. CASE "mock_data" \notin DOMAIN changes
  <2>1. Merged(old, changes)["mock_data"] = old.mock_data
    BY <1>1, <1>3, MergedFields DEF DocumentFields
  <2> QED
    BY <1>1, <2>1 DEF Typed
<1> QED
  BY <1>2, <1>3

LEMMA PutLegal ==
    ASSUME NEW old, old # Null => Legal(old), NEW document, Typed(document), Put(old, document).saved # Null
    PROVE  Legal(Put(old, document).saved)
<1>1. CASE Validates(document)
  BY <1>1, StoreLegal DEF Put
<1>2. CASE ~Validates(document)
  BY <1>2 DEF Put, Refused
<1> QED
  BY <1>1, <1>2

LEMMA PatchLegal ==
    ASSUME NEW old, old # Null => Legal(old), NEW changes,
           Pick(changes, "mock_data", << >>) # Null => Typed(changes),
           Patch(old, changes).saved # Null
    PROVE  Legal(Patch(old, changes).saved)
<1>1. CASE old # Null /\ Pick(changes, "mock_data", << >>) # Null /\ Validates(Merged(old, changes))
  BY <1>1, MergedTyped, StoreLegal DEF Patch
<1>2. CASE ~(old # Null /\ Pick(changes, "mock_data", << >>) # Null /\ Validates(Merged(old, changes)))
  BY <1>2 DEF Patch, Refused
<1> QED
  BY <1>1, <1>2

\* The documents of other clients: payloads, and one whose mock_data is null.
LEMMA DocumentsTyped ==
    ASSUME NEW document \in Documents
    PROVE  \/ Typed(document)
           \/ "mock_data" \in DOMAIN document /\ document["mock_data"] = Null
<1>1. CASE document \in {MockPayload(args, TRUE) : args \in Arguments(Unset)}
  BY <1>1, PayloadTyped, ArgumentValues
<1>2. CASE document = [f \in {"mock_data"} |-> Null]
  BY <1>2
<1> QED
  BY <1>1, <1>2 DEF Documents

LEMMA InitEstablishes == Init => IInv
  BY DEF Init, IInv

LEMMA NextPreserves == ASSUME IInv, [Next]_vars PROVE IInv'
<1>1. ASSUME NEW args \in Arguments(Null), ConfigureMock(args) PROVE IInv'
  BY <1>1, PayloadTyped, ArgumentValues, PutLegal DEF ConfigureMock, Answered, IInv
<1>2. ASSUME NEW args \in Arguments(Unset), PatchMock(args) PROVE IInv'
  BY <1>2, PayloadTyped, ArgumentValues, PatchLegal DEF PatchMock, Answered, IInv
<1>3. ASSUME NEW document \in Documents, PutMock(document) PROVE IInv'
  <2>1. CASE Typed(document)
    BY <1>3, <2>1, PutLegal DEF PutMock, Answered, IInv
  <2>2. CASE "mock_data" \in DOMAIN document /\ document["mock_data"] = Null
    BY <1>3, <2>2 DEF PutMock, Answered, IInv, Put, Refused, Validates, ValidFields, Pick
  <2> QED
    BY <2>1, <2>2, DocumentsTyped
<1>4. ASSUME NEW document \in Documents, PatchDocument(document) PROVE IInv'
  <2>1. Pick(document, "mock_data", << >>) # Null => Typed(document)
    BY DocumentsTyped DEF Pick
  <2> QED
    BY <1>4, <2>1, PatchLegal DEF PatchDocument, Answered, IInv
<1>5. CASE DeleteMock
  BY <1>5 DEF DeleteMock, Answered, IInv
<1>6. CASE UNCHANGED vars
  BY <1>6 DEF vars, IInv
<1> QED
  BY <1>1, <1>2, <1>3, <1>4, <1>5, <1>6 DEF Next

\* The inductive invariant: what is stored is legal, complete, and has data.
THEOREM Inductive == Spec => []IInv
<1>1. IInv /\ [Next]_vars => IInv'
  BY NextPreserves
<1> QED
  BY <1>1, InitEstablishes, PTL DEF Spec

\* routes/admin.py, schemas.py: no sequence of replacements and partial updates leaves a mock
\* that a replacement would refuse or that is not its own representation.
THEOREM LegalStored == Spec => []StoredIsLegal
<1>1. IInv => StoredIsLegal
  BY DEF IInv, Legal, StoredIsLegal
<1> QED
  BY <1>1, Inductive, PTL

-------------------------------------------------------------------------------
(* Updates *)

\* What patch_mock sends.
Passed(args) == MockPayload(args, TRUE)

\* What the fields of a complete document read as once the payload of `args` is merged in.
LEMMA MergedReads ==
    ASSUME NEW old, DOMAIN old = DocumentFields, DOMAIN old.mock_data = DataFields,
           NEW args
    PROVE  LET merged == Merged(old, Passed(args)) IN
           /\ DOMAIN merged = DocumentFields
           /\ DOMAIN merged["mock_data"] = DataFields
           /\ \A f \in PathFields : merged[f] = IF args[f] = Unset THEN old[f] ELSE args[f]
           /\ \A d \in DataFields : merged["mock_data"][d] = IF args[d] = Unset THEN old.mock_data[d] ELSE args[d]
<1> DEFINE sent == Sent(args, TRUE)
           data == sent \intersect DataFields
           changes == Passed(args)
           merged == Merged(old, changes)
<1>1. /\ DOMAIN changes = (sent \intersect PathFields) \union (IF data = {} THEN {} ELSE {"mock_data"})
      /\ \A f \in sent \intersect PathFields : changes[f] = args[f]
      /\ data # {} => changes["mock_data"] = [d \in data |-> args[d]]
  BY PayloadFields DEF Passed
<1>2. \A f \in Fields : f \in sent <=> args[f] # Unset
  BY DEF Sent
<1>3. "mock_data" \notin PathFields /\ PathFields \subseteq Fields /\ DataFields \subseteq Fields
      /\ PathFields \subseteq DocumentFields /\ "mock_data" \in DocumentFields
  BY DEF PathFields, Fields, DocumentFields
<1> HIDE DEF sent, data, changes
<1>4. /\ DOMAIN merged = DOMAIN old \union DOMAIN changes
      /\ \A f \in DOMAIN old \union DOMAIN changes : f # "mock_data" =>
             merged[f] = IF f \in DOMAIN changes THEN changes[f] ELSE old[f]
      /\ "mock_data" \in DOMAIN changes => merged["mock_data"] = Merge(old.mock_data, changes["mock_data"])
      /\ "mock_data" \in DOMAIN old \ DOMAIN changes => merged["mock_data"] = old["mock_data"]
  BY MergedFields
<1> HIDE DEF merged
<1>5. DOMAIN merged = DocumentFields
  BY <1>1, <1>3, <1>4 DEF DocumentFields
<1>6. ASSUME NEW f \in PathFields PROVE merged[f] = IF args[f] = Unset THEN old[f] ELSE args[f]
  <2>1. f # "mock_data" /\ f \in Fields /\ f \in DOMAIN old
    BY <1>3
  <2>2. f \in DOMAIN changes <=> args[f] # Unset
    BY <1>1, <1>2, <2>1
  <2>3. f \in DOMAIN changes => changes[f] = args[f]
    BY <1>1, <1>2, <2>1, <2>2
  <2> QED
    BY <1>4, <2>1, <2>2, <2>3
<1>7. DOMAIN merged["mock_data"] = DataFields
      /\ \A d \in DataFields : merged["mock_data"][d] = IF args[d] = Unset THEN old.mock_data[d] ELSE args[d]
  <2>1. \A d \in DataFields : d \in data <=> args[d] # Unset
    BY <1>2, <1>3 DEF data
  <2>2. CASE data = {}
    <3>1. merged["mock_data"] = old["mock_data"]
      BY <1>1, <1>3, <1>4, <2>2
    <3> QED
      BY <2>1, <2>2, <3>1
  <2>3. CASE data # {}
    <3> DEFINE new == [d \in data |-> args[d]]
    <3>1. merged["mock_data"] = Merge(old.mock_data, new)
      BY <1>1, <1>4, <2>3
    <3>2. DOMAIN new = data /\ \A d \in data : new[d] = args[d]
      OBVIOUS
    <3>3. data \subseteq DataFields
      BY DEF data
    <3> HIDE DEF new
    <3>4. /\ DOMAIN Merge(old.mock_data, new) = DataFields
          /\ \A d \in DataFields : Merge(old.mock_data, new)[d] = IF d \in data THEN new[d] ELSE old.mock_data[d]
      BY <3>2, <3>3 DEF Merge
    <3> QED
      BY <2>1, <3>1, <3>2, <3>4
  <2> QED
    BY <2>2, <2>3
<1> QED
  BY <1>5, <1>6, <1>7 DEF merged, changes

\* What a complete document reads as once it is completed.
LEMMA CompleteReads ==
    ASSUME NEW document, DOMAIN document = DocumentFields, DOMAIN document["mock_data"] = DataFields
    PROVE  LET dump == ModelDump(document)
               data == document["mock_data"]
           IN  /\ dump.mock_data.body = data["body"]
               /\ dump.mock_data.status_code = data["status_code"]
               /\ dump.mock_data.headers = IF data["headers"] = Null THEN NoHeaders ELSE data["headers"]
               /\ dump.methods = IF document["methods"] \in {Null, {}} THEN AllMethods ELSE document["methods"]
               /\ \A f \in PathFields : f # "methods" => dump[f] = document[f]
<1> DEFINE data == document["mock_data"]
<1>1. /\ Pick(document, "mock_data", << >>) = data
      /\ \A f \in PathFields : Pick(document, f, Null) = document[f]
      /\ Pick(data, "body", Null) = data["body"]
      /\ Pick(data, "status_code", 200) = data["status_code"]
      /\ Pick(data, "headers", Null) = data["headers"]
  BY DEF Pick, DocumentFields, PathFields, DataFields
<1> HIDE DEF data
<1> QED
  BY <1>1, DumpFields DEF PathFields, data

\* A field that was passed reads back, and another as it did.
LEMMA PatchReads ==
    ASSUME NEW old, Legal(old), NEW args, NEW f \in Fields
    PROVE  FieldOf(ModelDump(Merged(old, Passed(args))), f) =
               IF args[f] = Unset THEN FieldOf(old, f) ELSE ReadBack(f, args[f])
<1> DEFINE merged == Merged(old, Passed(args))
           dump == ModelDump(merged)
<1>1. DOMAIN old = DocumentFields /\ DOMAIN old.mock_data = DataFields
  BY LegalFields
<1>2. /\ DOMAIN merged = DocumentFields
      /\ DOMAIN merged["mock_data"] = DataFields
      /\ \A g \in PathFields : merged[g] = IF args[g] = Unset THEN old[g] ELSE args[g]
      /\ \A d \in DataFields : merged["mock_data"][d] = IF args[d] = Unset THEN old.mock_data[d] ELSE args[d]
  BY <1>1, MergedReads
<1>3. /\ old.methods \in {Null, {}} => AllMethods = old.methods
      /\ old.mock_data.headers = Null => NoHeaders = old.mock_data.headers
  <2>1. ModelDump(old) = old
    BY DEF Legal
  <2> QED
    BY <1>1, <2>1, CompleteReads
<1> HIDE DEF merged
<1>4. /\ dump.mock_data.body = merged["mock_data"]["body"]
      /\ dump.mock_data.status_code = merged["mock_data"]["status_code"]
      /\ dump.mock_data.headers = IF merged["mock_data"]["headers"] = Null THEN NoHeaders ELSE merged["mock_data"]["headers"]
      /\ dump.methods = IF merged["methods"] \in {Null, {}} THEN AllMethods ELSE merged["methods"]
      /\ \A g \in PathFields : g # "methods" => dump[g] = merged[g]
  BY <1>2, CompleteReads
<1> HIDE DEF dump
<1> DEFINE Reads == FieldOf(dump, f) = IF args[f] = Unset THEN FieldOf(old, f) ELSE ReadBack(f, args[f])
<1>5. ASSUME f = "headers" PROVE Reads
  <2>1. FieldOf(dump, f) = dump.mock_data.headers /\ FieldOf(old, f) = old.mock_data.headers
    BY <1>5 DEF FieldOf, DataFields
  <2>2. ReadBack(f, args[f]) = IF args["headers"] = Null THEN NoHeaders ELSE args["headers"]
    BY <1>5 DEF ReadBack
  <2>3. merged["mock_data"]["headers"] = IF args["headers"] = Unset THEN old.mock_data["headers"] ELSE args["headers"]
    BY <1>2 DEF DataFields
  <2> QED
    BY <1>3, <1>4, <1>5, <2>1, <2>2, <2>3
<1>6. ASSUME f = "methods" PROVE Reads
  <2>1. FieldOf(dump, f) = dump.methods /\ FieldOf(old, f) = old.methods
    BY <1>6 DEF FieldOf, DataFields
  <2>2. ReadBack(f, args[f]) = IF args["methods"] \in {Null, {}} THEN AllMethods ELSE args["methods"]
    BY <1>6 DEF ReadBack
  <2>3. merged["methods"] = IF args["methods"] = Unset THEN old["methods"] ELSE args["methods"]
    BY <1>2 DEF PathFields
  <2> QED
    BY <1>3, <1>4, <1>6, <2>1, <2>2, <2>3
<1>7. ASSUME f \in {"body", "status_code"} PROVE Reads
  <2>1. FieldOf(dump, f) = dump.mock_data[f] /\ FieldOf(old, f) = old.mock_data[f] /\ f \in DataFields
    BY <1>7 DEF FieldOf, DataFields
  <2>2. ReadBack(f, args[f]) = args[f]
    BY <1>7 DEF ReadBack
  <2>3. dump.mock_data[f] = merged["mock_data"][f]
    BY <1>4, <1>7
  <2> QED
    BY <1>2, <2>1, <2>2, <2>3
<1>8. ASSUME f \in PathFields, f # "methods" PROVE Reads
  <2>1. FieldOf(dump, f) = dump[f] /\ FieldOf(old, f) = old[f]
    BY <1>8 DEF FieldOf, DataFields, PathFields
  <2>2. ReadBack(f, args[f]) = args[f]
    BY <1>8 DEF ReadBack, PathFields
  <2> QED
    BY <1>2, <1>4, <1>8, <2>1, <2>2
<1>9. f = "headers" \/ f = "methods" \/ f \in {"body", "status_code"} \/ (f \in PathFields /\ f # "methods")
  BY DEF Fields, DataFields
<1>10. Reads
  BY <1>5, <1>6, <1>7, <1>8, <1>9
<1> QED
  BY <1>10 DEF dump, merged

\* The call that a step answers.
LEMMA Calls ==
    /\ \A args : ConfigureMock(args) => event'.call = "configure"
    /\ \A args : PatchMock(args) => event'.call = "patch"
    /\ \A document : PutMock(document) => event'.call = "put"
    /\ \A document : PatchDocument(document) => event'.call = "patch document"
    /\ DeleteMock => event'.call = "delete"
<1>1. \A call, args, outcome : Answered(call, args, outcome) => event'.call = call
  BY DEF Answered
<1> QED
  BY <1>1 DEF ConfigureMock, PatchMock, PutMock, PatchDocument, DeleteMock

LEMMA PatchSucceeds ==
    ASSUME NEW old, NEW changes, Patch(old, changes).status = 200
    PROVE  old # Null /\ Patch(old, changes).saved = ModelDump(Merged(old, changes))
<1>1. CASE old = Null
  BY <1>1 DEF Patch
<1>2. CASE old # Null /\ ~(Pick(changes, "mock_data", << >>) # Null /\ Validates(Merged(old, changes)))
  BY <1>2 DEF Patch, Refused
<1>3. CASE old # Null /\ Pick(changes, "mock_data", << >>) # Null /\ Validates(Merged(old, changes))
  BY <1>3 DEF Patch
<1> QED
  BY <1>1, <1>2, <1>3

\* patch_mock: what was passed is set, null included, and the rest stays.
THEOREM PatchSetsPassed == Spec => PatchSetsOnlyWhatWasPassed
<1> DEFINE Sets ==
        event'.call = "patch" /\ event'.status = 200 =>
            \A f \in Fields : FieldOf(saved', f) = IF event'.args[f] = Unset THEN FieldOf(saved, f)
                                                   ELSE ReadBack(f, event'.args[f])
<1>1. IInv /\ [Next]_vars => [Sets]_vars
  <2> SUFFICES ASSUME IInv, Next, event'.call = "patch", event'.status = 200 PROVE Sets
    OBVIOUS
  <2>1. PICK args \in Arguments(Unset) : PatchMock(args)
    BY Calls DEF Next
  <2> DEFINE outcome == Patch(saved, Passed(args))
  <2>2. event'.args = args /\ outcome.status = 200 /\ saved' = outcome.saved
    BY <2>1 DEF PatchMock, Answered, Passed
  <2>3. saved # Null /\ outcome.saved = ModelDump(Merged(saved, Passed(args)))
    BY <2>2, PatchSucceeds
  <2>4. Legal(saved) /\ saved' = ModelDump(Merged(saved, Passed(args)))
    BY <2>2, <2>3 DEF IInv
  <2> HIDE DEF outcome
  <2>5. ASSUME NEW f \in Fields
        PROVE  FieldOf(saved', f) = IF args[f] = Unset THEN FieldOf(saved, f) ELSE ReadBack(f, args[f])
    BY <2>4, PatchReads
  <2> QED
    BY <2>2, <2>5
<1> QED
  BY <1>1, Inductive, PTL DEF Spec, PatchSetsOnlyWhatWasPassed

-------------------------------------------------------------------------------
(* Configurations *)

\* The payload of a configuration and the default mock patched with what was passed make
\* the same mock, and are legal together.
LEMMA ConfigureReads ==
    ASSUME NEW args \in Arguments(Null)
    PROVE  LET passed == [f \in Fields |-> IF args[f] = Null THEN Unset ELSE args[f]]
               payload == MockPayload(args, FALSE)
               merged == Merged(ModelDump(<< >>), Passed(passed))
           IN  /\ ModelDump(payload) = ModelDump(merged)
               /\ Validates(payload) <=> Validates(merged)
               /\ Pick(Passed(passed), "mock_data", << >>) # Null
<1> DEFINE passed == [f \in Fields |-> IF args[f] = Null THEN Unset ELSE args[f]]
           default == ModelDump(<< >>)
           payload == MockPayload(args, FALSE)
           changes == Passed(passed)
           merged == Merged(default, changes)
           data == Pick(payload, "mock_data", << >>)
           sent == Sent(args, FALSE)
<1>1. \A f \in Fields : args[f] # Unset => args[f] \in ValuesOf(f)
  BY ArgumentValues
<1>2. \A f \in Fields : passed[f] = IF args[f] = Null THEN Unset ELSE args[f]
  OBVIOUS
<1>3. \A f \in Fields : passed[f] # Unset => passed[f] \in ValuesOf(f)
  BY <1>1, <1>2
<1> HIDE DEF passed
<1>4. Typed(payload) /\ Typed(changes)
  BY <1>1, <1>3, PayloadTyped DEF Passed
<1>5. data # Null /\ Pick(changes, "mock_data", << >>) # Null
  BY <1>4, TypedData, DataNotNull
<1>6. /\ DOMAIN default = DocumentFields /\ DOMAIN default.mock_data = DataFields
      /\ default.mock_data.body = Null
      /\ default.mock_data.status_code = 200
      /\ default.mock_data.headers = NoHeaders
      /\ default.methods = AllMethods
      /\ default.proxy_host = Null /\ default.rules = Null /\ default.sequence = Null /\ default.recording = Null
      /\ IsData(default.mock_data)
  <2>1. \A f, value : Pick(<< >>, f, value) = value
    BY DEF Pick
  <2>2. Typed(<< >>)
    BY DEF Typed
  <2> QED
    BY <2>1, <2>2, DumpFields, DumpTyped
<1> HIDE DEF default
<1>7. /\ DOMAIN merged = DocumentFields
      /\ DOMAIN merged["mock_data"] = DataFields
      /\ \A f \in PathFields : merged[f] = IF passed[f] = Unset THEN default[f] ELSE passed[f]
      /\ \A d \in DataFields : merged["mock_data"][d] = IF passed[d] = Unset THEN default.mock_data[d] ELSE passed[d]
  <2>1. DOMAIN default = DocumentFields /\ DOMAIN default.mock_data = DataFields
    BY <1>6
  <2> QED
    BY <2>1, MergedReads
<1>8. /\ \A f \in PathFields : Pick(payload, f, Null) = IF f \in sent THEN args[f] ELSE Null
      /\ \A d \in DataFields : \A value : Pick(data, d, value) = IF d \in sent THEN args[d] ELSE value
  <2>1. "mock_data" \notin PathFields
    BY DEF PathFields
  <2>2. /\ DOMAIN payload = (sent \intersect PathFields)
                            \union (IF sent \intersect DataFields = {} THEN {} ELSE {"mock_data"})
        /\ \A f \in sent \intersect PathFields : payload[f] = args[f]
        /\ sent \intersect DataFields # {} => payload["mock_data"] = [d \in sent \intersect DataFields |-> args[d]]
    BY PayloadFields
  <2> HIDE DEF payload, sent
  <2>3. ASSUME NEW f \in PathFields PROVE Pick(payload, f, Null) = IF f \in sent THEN args[f] ELSE Null
    BY <2>1, <2>2 DEF Pick
  <2>4. ASSUME NEW d \in DataFields, NEW value PROVE Pick(data, d, value) = IF d \in sent THEN args[d] ELSE value
    <3>1. CASE sent \intersect DataFields = {}
      <4>1. data = << >>
        BY <2>1, <2>2, <3>1 DEF Pick
      <4> HIDE DEF data
      <4> QED
        BY <3>1, <4>1 DEF Pick
    <3>2. CASE sent \intersect DataFields # {}
      <4>1. data = [e \in sent \intersect DataFields |-> args[e]]
        BY <2>2, <3>2 DEF Pick
      <4> HIDE DEF data
      <4> QED
        BY <4>1 DEF Pick
    <3> QED
      BY <3>1, <3>2
  <2> QED
    BY <2>3, <2>4
<1>9. \A f \in Fields : f \in sent <=> args[f] # Unset /\ (f = "body" \/ args[f] # Null)
  BY DEF Sent
<1>10. DataFields \subseteq Fields /\ PathFields \subseteq Fields
  BY DEF Fields
<1> HIDE DEF data, sent, payload, merged, changes
<1>11. /\ Pick(payload, "proxy_host", Null) = merged["proxy_host"]
       /\ Pick(payload, "rules", Null) = merged["rules"]
       /\ Pick(payload, "sequence", Null) = merged["sequence"]
       /\ Pick(payload, "recording", Null) = merged["recording"]
       /\ \/ Pick(payload, "methods", Null) = merged["methods"]
          \/ Pick(payload, "methods", Null) = Null /\ merged["methods"] = AllMethods
  BY <1>2, <1>6, <1>7, <1>8, <1>9 DEF PathFields, Fields
<1>12. /\ Pick(data, "body", Null) = merged["mock_data"]["body"]
       /\ Pick(data, "status_code", 200) = merged["mock_data"]["status_code"]
       /\ merged["mock_data"]["status_code"] # Null
       /\ \/ Pick(data, "headers", Null) = merged["mock_data"]["headers"]
          \/ Pick(data, "headers", Null) = Null /\ merged["mock_data"]["headers"] = NoHeaders
  BY <1>2, <1>6, <1>7, <1>8, <1>9, NullAssumption DEF DataFields, Fields
<1>13. ModelDump(payload) = ModelDump(merged)
  <2>1. /\ ModelDump(payload).mock_data.body = ModelDump(merged).mock_data.body
        /\ ModelDump(payload).mock_data.status_code = ModelDump(merged).mock_data.status_code
        /\ ModelDump(payload).mock_data.headers = ModelDump(merged).mock_data.headers
        /\ ModelDump(payload).methods = ModelDump(merged).methods
    BY <1>7, <1>11, <1>12, CompleteReads, DumpFields DEF data
  <2>2. \A f \in PathFields : f # "methods" => ModelDump(payload)[f] = ModelDump(merged)[f]
    BY <1>7, <1>11, CompleteReads, DumpFields DEF PathFields
  <2> QED
    BY <2>1, <2>2, SameDump DEF DataFields, PathFields
<1>14. ValidFields(payload) <=> ValidFields(merged)
  <2>1. "mock_data" \in DOMAIN payload => payload["mock_data"] = data
    BY DEF data, Pick
  <2>2. /\ Pick(merged, "mock_data", << >>) = merged["mock_data"]
        /\ Pick(merged["mock_data"], "status_code", 200) = merged["mock_data"]["status_code"]
        /\ \A f \in PathFields : Pick(merged, f, Null) = merged[f]
    BY <1>7 DEF Pick, DocumentFields, DataFields
  <2>3. merged["mock_data"] # Null
    <3>2. CASE "mock_data" \in DOMAIN changes
      <4>1. merged["mock_data"] = Merge(default.mock_data, changes["mock_data"])
        BY <3>2, MergedFields DEF merged
      <4>2. IsData(changes["mock_data"])
        BY <1>4, <3>2 DEF Typed
      <4> QED
        BY <1>6, <4>1, <4>2, MergeData, DataNotNull
    <3>3. CASE "mock_data" \notin DOMAIN changes
      <4>1. merged["mock_data"] = default.mock_data
        <5>1. "mock_data" \in DOMAIN default \ DOMAIN changes
          BY <1>6, <3>3 DEF DocumentFields
        <5> QED
          BY <5>1, MergedFields DEF merged
      <4> QED
        BY <1>6, <4>1, DataNotNull
    <3> QED
      BY <3>2, <3>3
  <2>4. Pick(payload, "mock_data", << >>) # Null
    BY <1>5 DEF data
  <2> QED
    BY <1>11, <1>12, <2>1, <2>2, <2>3, <2>4 DEF ValidFields, PathFields
<1> QED
  BY <1>5, <1>13, <1>14 DEF Validates, passed, default, payload, merged, changes

\* configure_mock: with the arguments that are not None, the result is that of patching a
\* default mock, whatever was stored.
THEOREM ConfigureFromDefault == Spec => ConfigureIsPatchOfDefault
<1> DEFINE Configures ==
        event'.call = "configure" =>
            LET default == ModelDump(<< >>)
                passed == [f \in Fields |-> IF event'.args[f] = Null THEN Unset ELSE event'.args[f]]
                patched == Patch(default, MockPayload(passed, TRUE))
            IN  IF patched.status = 200 THEN event'.status # 422 /\ saved' = patched.saved
                ELSE event'.status = 422 /\ saved' = saved
<1>1. [Next]_vars => [Configures]_vars
  <2> SUFFICES ASSUME Next, event'.call = "configure" PROVE Configures
    OBVIOUS
  <2>1. PICK args \in Arguments(Null) : ConfigureMock(args)
    BY Calls DEF Next
  <2> DEFINE default == ModelDump(<< >>)
             passed == [f \in Fields |-> IF args[f] = Null THEN Unset ELSE args[f]]
             changes == Passed(passed)
             merged == Merged(default, changes)
             payload == MockPayload(args, FALSE)
             outcome == Put(saved, payload)
  <2>2. event'.args = args /\ event'.status = outcome.status /\ saved' = outcome.saved
    BY <2>1 DEF ConfigureMock, Answered
  <2>3. /\ ModelDump(payload) = ModelDump(merged)
        /\ Validates(payload) <=> Validates(merged)
        /\ Pick(changes, "mock_data", << >>) # Null
    BY ConfigureReads
  <2>4. default # Null
    BY DefaultAssumption
  <2> HIDE DEF payload, merged, changes, default
  <2>5. Patch(default, changes) = IF Validates(payload) THEN [saved |-> ModelDump(payload), status |-> 200]
                                  ELSE [saved |-> default, status |-> 422]
    BY <2>3, <2>4 DEF Patch, Refused, merged
  <2>6. IF Validates(payload) THEN outcome.saved = ModelDump(payload) /\ outcome.status # 422
        ELSE outcome.saved = saved /\ outcome.status = 422
    BY DEF Put, Refused
  <2>7. IF Patch(default, changes).status = 200
        THEN event'.status # 422 /\ saved' = Patch(default, changes).saved
        ELSE event'.status = 422 /\ saved' = saved
    BY <2>2, <2>5, <2>6
  <2>8. [f \in Fields |-> IF event'.args[f] = Null THEN Unset ELSE event'.args[f]] = passed
    BY <2>2
  <2> HIDE DEF passed
  <2> QED
    BY <2>7, <2>8 DEF default, changes, Passed
<1> QED
  BY <1>1, PTL DEF Spec, ConfigureIsPatchOfDefault
===============================================================================
