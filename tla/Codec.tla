-------------------------------- MODULE Codec --------------------------------
(***************************************************************************)
(* The two implementations of the QSGP wire format: protocol.py, which the *)
(* gateway uses, and qsgp_encode.c / qsgp_decode.c, which the native       *)
(* client uses.  Each operator is one function of one of them; names that  *)
(* begin with Py or C say which.                                           *)
(*                                                                         *)
(* A message is its kind, the fields it carries (a function whose domain   *)
(* is what is present) and its repeated items, which are such functions    *)
(* too.  A frame is a header and a sequence of TLVs.  Bytes are kept only  *)
(* as far as a decoder asks about them: a value is its length, the number  *)
(* and the text it reads as, and the TLVs it contains.  Decoders are       *)
(* indifferent to the order of fields, so one order stands for all.        *)
(***************************************************************************)
EXTENDS Naturals, Sequences, FiniteSets

CONSTANTS
  U32,   \* stands for 2^32: numbers are scaled down, lengths are not
  U64    \* stands for 2^64

ASSUME WidthAssumption == U32 \in Nat /\ U64 \in Nat /\ 11 < U32 /\ U32 < U64

MAX_FRAME_SIZE      == 256 * 1024
MAX_CREDENTIAL_SIZE == 512 * 1024
MAX_CLUSTER_NAME    == 128
MAX_SERVICE_ID      == 256
MAX_DIAGNOSTIC      == 4096
MAX_SERVICES        == 32
HEADER_SIZE         == 32

Requests  == {"RESERVE_REQUEST", "RELEASE_REQUEST", "EVALUATE_REQUEST",
              "GET_RESERVATIONS_REQUEST"}
Responses == {"RESERVE_RESPONSE", "RELEASE_RESPONSE", "EVALUATE_RESPONSE",
              "GET_RESERVATIONS_RESPONSE", "ERROR_RESPONSE"}
MessageType == Requests \cup Responses

\* The fields, in an order that agrees with every encoder.
FieldOrder ==
  <<"REQUEST_ID", "CLUSTER_NAME", "CANONICAL_JOB_ID", "OBSERVED_JOB_ID",
    "HETERO_JOB_ID", "HETERO_COMPONENT", "JOB_UID", "JOB_GID", "WORKLOAD_KIND",
    "WALLTIME_NS", "CIRCUIT_COUNT", "MAX_QUBITS", "MAX_DEPTH", "MAX_SHOTS",
    "MAX_ONE_Q_GATES", "MAX_TWO_Q_GATES", "MAX_MEASUREMENTS", "RELEASE_REASON",
    "SERVICE_ID", "ADMISSION_DECISION", "REASON_CODE", "RESERVATION_ID",
    "RESERVATION_STATE", "RETRY_AFTER_NS", "ESTIMATED_START_NS",
    "ESTIMATED_FINISH_NS", "QPM_RUNTIME_ID", "QPM_GENERATION",
    "GATEWAY_ERROR_CODE", "DIAGNOSTIC",
    "SERVICE_REQUEST", "SERVICE_RESULT", "RELEASE_RESULT", "RESERVATION">>
Field == {FieldOrder[i] : i \in DOMAIN FieldOrder}

Accepted == 1
Delayed  == 2
Rejected == 3

\* A text is known by its length, its content, and whether it holds a NUL or
\* bytes that are not UTF-8.
Text(id, len) == [id |-> id, len |-> len, nul |-> FALSE, utf8 |-> TRUE]
NoText == Text(0, 0)
TextValue == [id: Nat, len: Nat, nul: BOOLEAN, utf8: BOOLEAN]

Texts == {"CLUSTER_NAME", "SERVICE_ID", "QPM_RUNTIME_ID", "DIAGNOSTIC"}

Distinct(items) ==
  \A i, j \in DOMAIN items :
    items[i]["SERVICE_ID"] = items[j]["SERVICE_ID"] => i = j

\* The elements of s at the places in I, in their order, and the sum of the
\* numbers w.  Both recur over the length, so that they can be reasoned about.
Chosen(s, I) ==
  LET upTo[n \in 0..Len(s)] ==
        IF n = 0 THEN <<>>
        ELSE IF n \in I THEN Append(upTo[n - 1], s[n]) ELSE upTo[n - 1]
  IN  upTo[Len(s)]
Total(w) ==
  LET upTo[n \in 0..Len(w)] == IF n = 0 THEN 0 ELSE upTo[n - 1] + w[n]
  IN  upTo[Len(w)]

-----------------------------------------------------------------------------
(* Writing.                                                                *)

Tlv(field, value) ==
  [field |-> field, required |-> TRUE, form |-> "whole", value |-> value]
NumberBytes(n, len) == [len |-> len, num |-> n, text |-> NoText, sub |-> <<>>]
TextBytes(t) == [len |-> t.len, num |-> 0, text |-> t, sub |-> <<>>]

\* Fields that each encoder writes with four bytes.
PyPuts32 == {"HETERO_COMPONENT", "JOB_UID", "JOB_GID", "WORKLOAD_KIND",
             "MAX_QUBITS", "RELEASE_REASON", "ADMISSION_DECISION",
             "RESERVATION_STATE", "GATEWAY_ERROR_CODE"}
CPuts32 == {"HETERO_COMPONENT", "JOB_UID", "JOB_GID", "WORKLOAD_KIND",
            "MAX_QUBITS", "RELEASE_REASON", "ADMISSION_DECISION",
            "RESERVATION_STATE", "GATEWAY_ERROR_CODE"}

\* The TLVs of a set of fields, when fields in S take four bytes.
Written(f, S) ==
  LET present == Chosen(FieldOrder, {i \in DOMAIN FieldOrder : FieldOrder[i] \in DOMAIN f})
  IN  [i \in DOMAIN present |->
         LET x == present[i]
         IN  Tlv(x, IF x \in Texts THEN TextBytes(f[x])
                    ELSE NumberBytes(f[x], IF x \in S THEN 4 ELSE 8))]

\* The repeated items, each in a TLV of its own.
WrittenItems(group, items, S) ==
  [i \in DOMAIN items |->
     Tlv(group, [len |-> 0, num |-> 0, text |-> NoText,
                 sub |-> Written(items[i], S)])]

GroupOf(kind) ==
  CASE kind \in {"RESERVE_REQUEST", "EVALUATE_REQUEST"}   -> "SERVICE_REQUEST"
    [] kind \in {"RESERVE_RESPONSE", "EVALUATE_RESPONSE"} -> "SERVICE_RESULT"
    [] kind = "RELEASE_RESPONSE"                          -> "RELEASE_RESULT"
    [] kind = "GET_RESERVATIONS_RESPONSE"                 -> "RESERVATION"
    [] OTHER                                              -> "none"

\* _frame and qsgp_builder_finish write the same header.
Header(kind, correlation) ==
  [magic |-> TRUE, major |-> 1, minor |-> 0, kind |-> kind, clean |-> TRUE,
   correlation |-> correlation, fits |-> TRUE]

FrameOf(m, correlation, S) ==
  [header |-> Header(m.kind, correlation),
   payload |-> Written(m.fields, S) \o WrittenItems(GroupOf(m.kind), m.items, S)]

\* The bytes of a frame: a TLV has a header of eight and is padded to four.
TlvSize(len) == 8 + len + ((4 - (len % 4)) % 4)
FieldsSize(f) ==
  Total([i \in DOMAIN FieldOrder |->
           LET x == FieldOrder[i]
           IN  IF x \notin DOMAIN f THEN 0
               ELSE TlvSize(IF x \in Texts THEN f[x].len
                            ELSE IF x \in PyPuts32 THEN 4 ELSE 8)])
FrameSize(m) ==
  HEADER_SIZE + FieldsSize(m.fields)
    + Total([i \in DOMAIN m.items |-> TlvSize(FieldsSize(m.items[i]))])

-----------------------------------------------------------------------------
(* The Python encoders: what each refuses to write.                        *)

PyTextMax(x) == CASE x = "CLUSTER_NAME" -> MAX_CLUSTER_NAME
                  [] x = "DIAGNOSTIC"   -> MAX_DIAGNOSTIC
                  [] OTHER              -> MAX_SERVICE_ID

\* _uint and _string, for every field of f.
PyWritable(f) ==
  \A x \in DOMAIN f :
    IF x \in Texts
    THEN f[x].len > 0 /\ f[x].len <= PyTextMax(x) /\ ~ f[x].nul /\ f[x].utf8
    ELSE f[x] \in 0..((IF x \in PyPuts32 THEN U32 ELSE U64) - 1)

NonZero(f, S) == \A x \in S : f[x] # 0

Envelope == {"WORKLOAD_KIND", "WALLTIME_NS", "CIRCUIT_COUNT", "MAX_QUBITS",
             "MAX_DEPTH", "MAX_SHOTS"}
Optional == {"MAX_ONE_Q_GATES", "MAX_TWO_Q_GATES", "MAX_MEASUREMENTS"}

\* _validate_reserve_request.
PyValidRequest(f, items) ==
  /\ NonZero(f, {"REQUEST_ID", "CANONICAL_JOB_ID"})
  /\ Len(items) \in 1..MAX_SERVICES
  /\ Distinct(items)
  /\ ("HETERO_JOB_ID" \in DOMAIN f) = ("HETERO_COMPONENT" \in DOMAIN f)
  /\ "HETERO_JOB_ID" \in DOMAIN f => f["HETERO_JOB_ID"] # 0
  /\ "WORKLOAD_KIND" \in DOMAIN f =>
       /\ f["WORKLOAD_KIND"] \in {1, 2}
       /\ NonZero(f, Envelope)

PyEncodesAdmissionRequest(m) ==
  "WORKLOAD_KIND" \in DOMAIN m.fields /\ PyValidRequest(m.fields, m.items)

PyEncodesReleaseRequest(m) ==
  NonZero(m.fields, {"REQUEST_ID", "CANONICAL_JOB_ID"})

PyEncodesLookupRequest(m) ==
  NonZero(m.fields, {"REQUEST_ID", "OBSERVED_JOB_ID"})

\* The decision of a response agrees with those of its results.
PyConsistent(decision, decisions) ==
  /\ decision = Accepted => decisions = {Accepted}
  /\ decision = Rejected => Rejected \in decisions
  /\ decision = Delayed => Delayed \in decisions /\ Rejected \notin decisions

Decisions(items) == {items[i]["ADMISSION_DECISION"] : i \in DOMAIN items}

\* _encode_service_result: an accepted reserve names its reservation, no other
\* result does.
PyEncodesResult(item, reserve) ==
  IF reserve /\ item["ADMISSION_DECISION"] = Accepted
  THEN "RESERVATION_ID" \in DOMAIN item /\ item["RESERVATION_ID"] # 0
  ELSE "RESERVATION_ID" \notin DOMAIN item

\* _validate_admission_response and _encode_admission_response.
PyEncodesAdmissionResponse(m) ==
  /\ m.fields["REQUEST_ID"] # 0
  /\ Len(m.items) \in 1..MAX_SERVICES
  /\ Distinct(m.items)
  /\ Decisions(m.items) \subseteq {Accepted, Delayed, Rejected}
  /\ PyConsistent(m.fields["ADMISSION_DECISION"], Decisions(m.items))
  /\ \A i \in DOMAIN m.items :
       PyEncodesResult(m.items[i], m.kind = "RESERVE_RESPONSE")

PyEncodesReleaseResponse(m) ==
  /\ m.fields["REQUEST_ID"] # 0
  /\ Len(m.items) <= MAX_SERVICES
  /\ Distinct(m.items)
  /\ \A i \in DOMAIN m.items :
       /\ m.items[i]["RESERVATION_ID"] # 0
       /\ m.items[i]["RESERVATION_STATE"] \in 1..7
       /\ "GATEWAY_ERROR_CODE" \in DOMAIN m.items[i] =>
            m.items[i]["GATEWAY_ERROR_CODE"] \in 1..11

PyEncodesLookupResponse(m) ==
  /\ NonZero(m.fields, {"REQUEST_ID", "CANONICAL_JOB_ID"})
  /\ Len(m.items) \in 1..MAX_SERVICES
  /\ Distinct(m.items)
  /\ \A i \in DOMAIN m.items : m.items[i]["RESERVATION_ID"] # 0

PyEncodesError(m) == m.fields["GATEWAY_ERROR_CODE"] \in 1..11

\* encode_response and the request encoders.
PyEncodes(m) ==
  /\ PyWritable(m.fields)
  /\ FrameSize(m) <= MAX_FRAME_SIZE
  /\ \A i \in DOMAIN m.items : PyWritable(m.items[i])
  /\ CASE GroupOf(m.kind) = "SERVICE_REQUEST"      -> PyEncodesAdmissionRequest(m)
       [] m.kind = "RELEASE_REQUEST"               -> PyEncodesReleaseRequest(m)
       [] m.kind = "GET_RESERVATIONS_REQUEST"      -> PyEncodesLookupRequest(m)
       [] GroupOf(m.kind) = "SERVICE_RESULT"       -> PyEncodesAdmissionResponse(m)
       [] m.kind = "RELEASE_RESPONSE"              -> PyEncodesReleaseResponse(m)
       [] m.kind = "GET_RESERVATIONS_RESPONSE"     -> PyEncodesLookupResponse(m)
       [] m.kind = "ERROR_RESPONSE"                -> PyEncodesError(m)

-----------------------------------------------------------------------------
(* The C encoders.  A C string ends at its first NUL and a C number has    *)
(* the width of its field, so only messages that a struct can hold get     *)
(* here (CHolds).                                                          *)

CTextMax(x) == CASE x = "CLUSTER_NAME" -> MAX_CLUSTER_NAME
                 [] x = "DIAGNOSTIC"   -> MAX_DIAGNOSTIC
                 [] OTHER              -> MAX_SERVICE_ID

CHolds(f) ==
  \A x \in DOMAIN f :
    IF x \in Texts THEN ~ f[x].nul
                   ELSE f[x] < IF x \in CPuts32 THEN U32 ELSE U64

\* qsgp_builder_add_string.
CWritable(f) ==
  \A x \in DOMAIN f \cap Texts : f[x].len # 0 /\ f[x].len <= CTextMax(x)

CEncodesAdmissionRequest(m) ==
  /\ "WORKLOAD_KIND" \in DOMAIN m.fields
  /\ NonZero(m.fields, {"REQUEST_ID", "CANONICAL_JOB_ID"})
  /\ Len(m.items) \in 1..MAX_SERVICES
  /\ ("HETERO_JOB_ID" \in DOMAIN m.fields) = ("HETERO_COMPONENT" \in DOMAIN m.fields)
  /\ Distinct(m.items)
  /\ m.fields["WORKLOAD_KIND"] \in {1, 2}
  /\ NonZero(m.fields, Envelope)

CEncodesReleaseRequest(m) ==
  NonZero(m.fields, {"REQUEST_ID", "CANONICAL_JOB_ID"})

CEncodesLookupRequest(m) ==
  NonZero(m.fields, {"REQUEST_ID", "OBSERVED_JOB_ID"})

\* The client writes only requests.
CEncodes(m) ==
  /\ CHolds(m.fields) /\ CWritable(m.fields)
  /\ \A i \in DOMAIN m.items : CHolds(m.items[i]) /\ CWritable(m.items[i])
  /\ FrameSize(m) <= MAX_FRAME_SIZE
  /\ CASE GroupOf(m.kind) = "SERVICE_REQUEST" -> CEncodesAdmissionRequest(m)
       [] m.kind = "RELEASE_REQUEST"          -> CEncodesReleaseRequest(m)
       [] m.kind = "GET_RESERVATIONS_REQUEST" -> CEncodesLookupRequest(m)
       [] OTHER                               -> FALSE

-----------------------------------------------------------------------------
(* Reading.  A decoder returns the set of messages a frame decodes to: one *)
(* or, where the code refuses the frame, none.                             *)

Scalars(tlvs, group) ==
  [i \in {j \in DOMAIN tlvs : tlvs[j].field \notin {"unknown", group}} |-> tlvs[i]]
Known(tlvs) == Scalars(tlvs, "none")
Groups(tlvs, group) == Chosen(tlvs, {i \in DOMAIN tlvs : tlvs[i].field = group})
Names(tlvs) == {tlvs[i].field : i \in DOMAIN tlvs}

\* The values of distinct scalars, as the type of each field reads them.
Read(scalars) ==
  [x \in Names(scalars) |->
     LET t == CHOOSE i \in DOMAIN scalars : scalars[i].field = x
     IN  IF x \in Texts THEN scalars[t].value.text ELSE scalars[t].value.num]

\* What the items of a frame read as.
ReadItems(groups) ==
  [i \in DOMAIN groups |-> Read(Known(groups[i].value.sub))]

-----------------------------------------------------------------------------
(* The Python decoders.                                                    *)

\* decode_header.
PyHeader(h) ==
  /\ h.magic
  /\ h.major = 1 /\ h.minor = 0
  /\ h.clean
  /\ h.correlation # 0
  /\ h.fits
  /\ h.kind \in MessageType

\* Mutant of PyCollects: a repeated scalar overwrites the first.
MutPyCollects(tlvs, group) ==
  \A i \in DOMAIN tlvs :
    /\ tlvs[i].form = "whole"
    /\ tlvs[i].field = "unknown" => ~ tlvs[i].required

\* _tlvs and _collect: every TLV is whole, an unknown one is optional, a
\* scalar comes once.
PyCollects(tlvs, group) ==
  LET scalars == Scalars(tlvs, group)
  IN  /\ \A i \in DOMAIN tlvs :
           /\ tlvs[i].form = "whole"
           /\ tlvs[i].field = "unknown" => ~ tlvs[i].required
      /\ \A i, j \in DOMAIN scalars : scalars[i].field = scalars[j].field => i = j

\* _decode_u32, _decode_u64 and _decode_text.
PyTakes32 == {"HETERO_COMPONENT", "JOB_UID", "JOB_GID", "WORKLOAD_KIND",
              "MAX_QUBITS", "RELEASE_REASON"}
PyReads(scalars) ==
  \A i \in DOMAIN scalars :
    LET x == scalars[i].field
        v == scalars[i].value
    IN  IF x \in Texts
        THEN v.len > 0 /\ v.len <= PyTextMax(x) /\ ~ v.text.nul /\ v.text.utf8
        ELSE v.len = IF x \in PyTakes32 THEN 4 ELSE 8

\* _decode_service_request.
PyServiceRequest(t) ==
  /\ PyCollects(t.value.sub, "none")
  /\ Names(Known(t.value.sub)) = {"SERVICE_ID"}
  /\ PyReads(Known(t.value.sub))

PyDecodeAdmissionRequest(fr) ==
  LET scalars == Scalars(fr.payload, "SERVICE_REQUEST")
      groups  == Groups(fr.payload, "SERVICE_REQUEST")
      f       == Read(scalars)
      items   == ReadItems(groups)
      present == Envelope \cap DOMAIN f
      needed  == {"REQUEST_ID", "CLUSTER_NAME", "CANONICAL_JOB_ID", "JOB_UID",
                  "JOB_GID"}
      allowed == needed \cup Envelope \cup Optional
                   \cup {"HETERO_JOB_ID", "HETERO_COMPONENT"}
  IN  IF /\ PyCollects(fr.payload, "SERVICE_REQUEST")
         /\ DOMAIN f \subseteq allowed
         /\ \A i \in DOMAIN groups : PyServiceRequest(groups[i])
         /\ present \in {{}, Envelope}
         /\ present = {} => Optional \cap DOMAIN f = {}
         /\ needed \subseteq DOMAIN f
         /\ PyReads(scalars)
         /\ PyValidRequest(f, items)
         /\ present = Envelope
      THEN {[kind |-> fr.header.kind, fields |-> f, items |-> items]}
      ELSE {}

\* decode_release_request.
PyDecodeReleaseRequest(fr) ==
  LET f == Read(Known(fr.payload))
  IN  IF /\ PyCollects(fr.payload, "none")
         /\ DOMAIN f = {"REQUEST_ID", "CLUSTER_NAME", "CANONICAL_JOB_ID",
                        "RELEASE_REASON"}
         /\ PyReads(Known(fr.payload))
         /\ NonZero(f, {"REQUEST_ID", "CANONICAL_JOB_ID"})
      THEN {[kind |-> fr.header.kind, fields |-> f, items |-> <<>>]}
      ELSE {}

\* decode_get_reservations_request.
PyDecodeLookupRequest(fr) ==
  LET f == Read(Known(fr.payload))
  IN  IF /\ PyCollects(fr.payload, "none")
         /\ DOMAIN f = {"REQUEST_ID", "CLUSTER_NAME", "OBSERVED_JOB_ID",
                        "JOB_UID", "JOB_GID"}
         /\ PyReads(Known(fr.payload))
         /\ NonZero(f, {"REQUEST_ID", "OBSERVED_JOB_ID"})
      THEN {[kind |-> fr.header.kind, fields |-> f, items |-> <<>>]}
      ELSE {}

\* _decode_reservation.
PyReservation(t) ==
  /\ PyCollects(t.value.sub, "none")
  /\ Names(Known(t.value.sub)) = {"SERVICE_ID", "RESERVATION_ID"}
  /\ PyReads(Known(t.value.sub))
  /\ Read(Known(t.value.sub))["RESERVATION_ID"] # 0

\* decode_get_reservations_response, the one response Python reads.
PyDecodeLookupResponse(fr) ==
  LET scalars == Scalars(fr.payload, "RESERVATION")
      groups  == Groups(fr.payload, "RESERVATION")
      f       == Read(scalars)
      items   == ReadItems(groups)
  IN  IF /\ PyCollects(fr.payload, "RESERVATION")
         /\ DOMAIN f = {"REQUEST_ID", "CANONICAL_JOB_ID"}
         /\ \A i \in DOMAIN groups : PyReservation(groups[i])
         /\ Len(items) \in 1..MAX_SERVICES
         /\ Distinct(items)
         /\ PyReads(scalars)
         /\ NonZero(f, {"REQUEST_ID", "CANONICAL_JOB_ID"})
      THEN {[kind |-> fr.header.kind, fields |-> f, items |-> items]}
      ELSE {}

\* decode_request, and the decoder of the one response that Python reads.
PyDecode(fr) ==
  IF ~ PyHeader(fr.header) THEN {} ELSE
  CASE fr.header.kind \in {"EVALUATE_REQUEST", "RESERVE_REQUEST"} ->
         PyDecodeAdmissionRequest(fr)
    [] fr.header.kind = "RELEASE_REQUEST"           -> PyDecodeReleaseRequest(fr)
    [] fr.header.kind = "GET_RESERVATIONS_REQUEST"  -> PyDecodeLookupRequest(fr)
    [] fr.header.kind = "GET_RESERVATIONS_RESPONSE" -> PyDecodeLookupResponse(fr)
    [] OTHER                                        -> {}

PyDecodable == Requests \cup {"GET_RESERVATIONS_RESPONSE"}

-----------------------------------------------------------------------------
(* The C decoders.  Each is called for the kind its caller expects.        *)

\* qsgp_decode_header.
CHeader(h) ==
  /\ h.magic
  /\ h.major = 1 /\ h.minor <= 0
  /\ h.clean /\ h.correlation # 0
  /\ h.fits

\* qsgp_cursor_next and mark_once.
CCollects(tlvs, group) ==
  LET scalars == Scalars(tlvs, group)
  IN  /\ \A i \in DOMAIN tlvs :
           /\ tlvs[i].form = "whole"
           /\ tlvs[i].field = "unknown" => ~ tlvs[i].required
      /\ \A i, j \in DOMAIN scalars : scalars[i].field = scalars[j].field => i = j

\* qsgp_tlv_u32, qsgp_tlv_u64 and qsgp_tlv_string.
CTakes32 == {"HETERO_COMPONENT", "JOB_UID", "JOB_GID", "WORKLOAD_KIND",
             "MAX_QUBITS", "RELEASE_REASON", "ADMISSION_DECISION",
             "RESERVATION_STATE", "GATEWAY_ERROR_CODE"}
\* Mutant of CReads: the terminating NUL is counted twice.
MutCReads(scalars) ==
  \A i \in DOMAIN scalars :
    LET x == scalars[i].field
        v == scalars[i].value
    IN  IF x \in Texts
        THEN v.len # 0 /\ v.len < CTextMax(x) /\ ~ v.text.nul
        ELSE v.len = IF x \in CTakes32 THEN 4 ELSE 8
CReads(scalars) ==
  \A i \in DOMAIN scalars :
    LET x == scalars[i].field
        v == scalars[i].value
    IN  IF x \in Texts
        THEN v.len # 0 /\ v.len < CTextMax(x) + 1 /\ ~ v.text.nul
        ELSE v.len = IF x \in CTakes32 THEN 4 ELSE 8

\* The loop every C decoder runs over its fields.
CScans(tlvs, group, needed, optional) ==
  /\ CCollects(tlvs, group)
  /\ Names(Scalars(tlvs, group)) \subseteq needed \cup optional
  /\ CReads(Scalars(tlvs, group))
  /\ needed \subseteq Names(Scalars(tlvs, group))

\* decode_service_request.
CServiceRequest(t) == CScans(t.value.sub, "none", {"SERVICE_ID"}, {})

\* decode_service_result.
CServiceResult(t, reserve) ==
  LET item == Read(Known(t.value.sub))
  IN  /\ CScans(t.value.sub, "none",
                {"SERVICE_ID", "ADMISSION_DECISION", "REASON_CODE"},
                {"RESERVATION_ID", "RETRY_AFTER_NS", "ESTIMATED_START_NS",
                 "ESTIMATED_FINISH_NS", "QPM_RUNTIME_ID", "QPM_GENERATION",
                 "DIAGNOSTIC"})
      /\ item["ADMISSION_DECISION"] \in 1..3
      /\ IF reserve /\ item["ADMISSION_DECISION"] = Accepted
         THEN "RESERVATION_ID" \in DOMAIN item /\ item["RESERVATION_ID"] # 0
         ELSE "RESERVATION_ID" \notin DOMAIN item

\* decode_release_result.
CReleaseResult(t) ==
  LET item == Read(Known(t.value.sub))
  IN  /\ CScans(t.value.sub, "none",
                {"SERVICE_ID", "RESERVATION_ID", "RESERVATION_STATE"},
                {"GATEWAY_ERROR_CODE", "DIAGNOSTIC"})
      /\ item["RESERVATION_ID"] # 0
      /\ item["RESERVATION_STATE"] \in 1..7

\* decode_reservation.
CReservation(t) ==
  /\ CScans(t.value.sub, "none", {"SERVICE_ID", "RESERVATION_ID"}, {})
  /\ Read(Known(t.value.sub))["RESERVATION_ID"] # 0

CDecodeAdmissionRequest(f, groups) ==
  /\ Len(groups) <= MAX_SERVICES
  /\ \A i \in DOMAIN groups : CServiceRequest(groups[i])
  /\ Envelope \cap DOMAIN f \in {{}, Envelope}
  /\ "WORKLOAD_KIND" \notin DOMAIN f => Optional \cap DOMAIN f = {}
  /\ ("HETERO_JOB_ID" \in DOMAIN f) = ("HETERO_COMPONENT" \in DOMAIN f)
  /\ Distinct(ReadItems(groups))
  /\ NonZero(f, {"REQUEST_ID", "CANONICAL_JOB_ID"})
  /\ groups # <<>>
  /\ "WORKLOAD_KIND" \in DOMAIN f
  /\ f["WORKLOAD_KIND"] \in 1..2 /\ NonZero(f, Envelope)

\* Mutant of CDecodeAdmissionResponse: the decisions of the results are not looked at.
MutCDecodeAdmissionResponse(f, groups, reserve) ==
  /\ Len(groups) <= MAX_SERVICES
  /\ \A i \in DOMAIN groups : CServiceResult(groups[i], reserve)
  /\ f["REQUEST_ID"] # 0 /\ groups # <<>>
  /\ f["ADMISSION_DECISION"] \in 1..3
  /\ Distinct(ReadItems(groups))

CDecodeAdmissionResponse(f, groups, reserve) ==
  LET items == ReadItems(groups)
  IN  /\ Len(groups) <= MAX_SERVICES
      /\ \A i \in DOMAIN groups : CServiceResult(groups[i], reserve)
      /\ f["REQUEST_ID"] # 0 /\ groups # <<>>
      /\ f["ADMISSION_DECISION"] \in 1..3
      /\ Distinct(items)
      /\ CASE f["ADMISSION_DECISION"] = Accepted -> Decisions(items) = {Accepted}
           [] f["ADMISSION_DECISION"] = Rejected -> Rejected \in Decisions(items)
           [] OTHER -> Rejected \notin Decisions(items) /\ Delayed \in Decisions(items)

\* qsgp_decode_release_response: two results may name one service.
CDecodeReleaseResponse(f, groups) ==
  /\ Len(groups) <= MAX_SERVICES
  /\ \A i \in DOMAIN groups : CReleaseResult(groups[i])
  /\ f["REQUEST_ID"] # 0

CDecodeLookupResponse(f, groups) ==
  /\ Len(groups) <= MAX_SERVICES
  /\ \A i \in DOMAIN groups : CReservation(groups[i])
  /\ NonZero(f, {"REQUEST_ID", "CANONICAL_JOB_ID"}) /\ groups # <<>>
  /\ Distinct(ReadItems(groups))

\* The fields each decoder must find and those it may find.
CNeeds(kind) ==
  CASE GroupOf(kind) = "SERVICE_REQUEST" ->
         {"REQUEST_ID", "CLUSTER_NAME", "CANONICAL_JOB_ID", "JOB_UID", "JOB_GID"}
    [] GroupOf(kind) = "SERVICE_RESULT" -> {"REQUEST_ID", "ADMISSION_DECISION"}
    [] kind = "RELEASE_REQUEST" ->
         {"REQUEST_ID", "CLUSTER_NAME", "CANONICAL_JOB_ID", "RELEASE_REASON"}
    [] kind = "RELEASE_RESPONSE" -> {"REQUEST_ID"}
    [] kind = "GET_RESERVATIONS_REQUEST" ->
         {"REQUEST_ID", "CLUSTER_NAME", "OBSERVED_JOB_ID", "JOB_UID", "JOB_GID"}
    [] kind = "GET_RESERVATIONS_RESPONSE" -> {"REQUEST_ID", "CANONICAL_JOB_ID"}
    [] kind = "ERROR_RESPONSE" -> {"GATEWAY_ERROR_CODE"}
CAllows(kind) ==
  CASE GroupOf(kind) = "SERVICE_REQUEST" ->
         Envelope \cup Optional \cup {"HETERO_JOB_ID", "HETERO_COMPONENT"}
    [] kind = "ERROR_RESPONSE" -> {"REQUEST_ID", "DIAGNOSTIC"}
    [] OTHER -> {}

CDecode(fr) ==
  LET kind   == fr.header.kind
      group  == GroupOf(kind)
      f      == Read(Scalars(fr.payload, group))
      groups == Groups(fr.payload, group)
  IN  IF /\ CHeader(fr.header) /\ kind \in MessageType
         /\ CScans(fr.payload, group, CNeeds(kind), CAllows(kind))
         /\ CASE group = "SERVICE_REQUEST" -> CDecodeAdmissionRequest(f, groups)
              [] group = "SERVICE_RESULT" ->
                   CDecodeAdmissionResponse(f, groups, kind = "RESERVE_RESPONSE")
              [] kind = "RELEASE_RESPONSE" -> CDecodeReleaseResponse(f, groups)
              [] kind = "GET_RESERVATIONS_RESPONSE" ->
                   CDecodeLookupResponse(f, groups)
              [] kind = "RELEASE_REQUEST" ->
                   NonZero(f, {"REQUEST_ID", "CANONICAL_JOB_ID"})
              [] kind = "GET_RESERVATIONS_REQUEST" ->
                   NonZero(f, {"REQUEST_ID", "OBSERVED_JOB_ID"})
              [] OTHER -> f["GATEWAY_ERROR_CODE"] # 0
      THEN {[kind |-> kind, fields |-> f, items |-> ReadItems(groups)]}
      ELSE {}

-----------------------------------------------------------------------------
(* The journal keeps an answer as a dictionary and rebuilds it to replay   *)
(* it: response_to_dict and response_from_dict.                            *)

\* Enumerations become plain numbers; what is absent is stored as null.
response_to_dict(m) == [type |-> m.kind, fields |-> m.fields, items |-> m.items]

Keep(f, S) == [x \in DOMAIN f \cap S |-> f[x]]
\* Mutant of KeepItems: one attribute is not read back.
MutKeepItems(items, S) ==
  [i \in DOMAIN items |-> Keep(items[i], S \ {"QPM_GENERATION"})]
KeepItems(items, S) == [i \in DOMAIN items |-> Keep(items[i], S)]

\* A set with the message; it is empty where an enumeration has no such member.
response_from_dict(d) ==
  CASE d.type \in {"EVALUATE_RESPONSE", "RESERVE_RESPONSE"} ->
         IF {d.fields["ADMISSION_DECISION"]} \cup Decisions(d.items) \subseteq 1..3
         THEN {[kind |-> d.type,
                fields |-> Keep(d.fields, {"REQUEST_ID", "ADMISSION_DECISION"}),
                items |-> KeepItems(d.items,
                  {"SERVICE_ID", "ADMISSION_DECISION", "REASON_CODE",
                   "RESERVATION_ID", "RETRY_AFTER_NS", "ESTIMATED_START_NS",
                   "ESTIMATED_FINISH_NS", "QPM_RUNTIME_ID", "QPM_GENERATION",
                   "DIAGNOSTIC"})]}
         ELSE {}
    [] d.type = "RELEASE_RESPONSE" ->
         IF \A i \in DOMAIN d.items :
              /\ d.items[i]["RESERVATION_STATE"] \in 1..7
              /\ "GATEWAY_ERROR_CODE" \in DOMAIN d.items[i] =>
                   d.items[i]["GATEWAY_ERROR_CODE"] \in 1..11
         THEN {[kind |-> d.type,
                fields |-> Keep(d.fields, {"REQUEST_ID"}),
                items |-> KeepItems(d.items,
                  {"SERVICE_ID", "RESERVATION_ID", "RESERVATION_STATE",
                   "GATEWAY_ERROR_CODE", "DIAGNOSTIC"})]}
         ELSE {}
    [] d.type = "GET_RESERVATIONS_RESPONSE" ->
         {[kind |-> d.type,
           fields |-> Keep(d.fields, {"REQUEST_ID", "CANONICAL_JOB_ID"}),
           items |-> KeepItems(d.items, {"SERVICE_ID", "RESERVATION_ID"})]}
    [] d.type = "ERROR_RESPONSE" ->
         IF d.fields["GATEWAY_ERROR_CODE"] \in 1..11
         THEN {[kind |-> d.type, items |-> <<>>,
                fields |-> Keep(d.fields, {"GATEWAY_ERROR_CODE", "REQUEST_ID",
                                           "DIAGNOSTIC"})]}
         ELSE {}
    [] OTHER -> {}
=============================================================================
