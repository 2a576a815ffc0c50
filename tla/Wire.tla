-------------------------------- MODULE Wire ---------------------------------
(***************************************************************************)
(* A QSGP message on its way between the two implementations of the wire   *)
(* format: it is composed (by hand, field by field, or by the gateway from *)
(* the replies of the QPMs), encoded, perhaps altered, and decoded.        *)
(*                                                                         *)
(* The replies are handled as QFwAdapter does (defw_client.py) and put     *)
(* together as GatewayService does (service.py); the native client reads   *)
(* the answer as operations.c does.                                        *)
(***************************************************************************)
EXTENDS Codec, Integers

CONSTANTS
  Samples,   \* well-formed messages to start from, one or more of a kind
  MaxEdits   \* bound on the changes made to a sample

VARIABLES
  stage,     \* "compose", "ask", "answered" or "sent"
  msg,       \* the message
  replies,   \* what the QPMs answered, one reply per requested service
  frame,     \* the frame that was sent
  edits      \* changes made so far

vars == <<stage, msg, replies, frame, edits>>

CorrelationId == 1
PyFrame(m) == FrameOf(m, CorrelationId, PyPuts32)
CFrame(m)  == FrameOf(m, CorrelationId, CPuts32)

-----------------------------------------------------------------------------
(* The dataclasses of protocol.py.                                         *)

Workload == Envelope \cup Optional

\* The attributes of a message of each kind, and of its items.
Attributes(kind) ==
  CASE GroupOf(kind) = "SERVICE_REQUEST" ->
         {"REQUEST_ID", "CLUSTER_NAME", "CANONICAL_JOB_ID", "JOB_UID", "JOB_GID",
          "HETERO_JOB_ID", "HETERO_COMPONENT"} \cup Workload
    [] GroupOf(kind) = "SERVICE_RESULT" -> {"REQUEST_ID", "ADMISSION_DECISION"}
    [] kind = "RELEASE_REQUEST" ->
         {"REQUEST_ID", "CLUSTER_NAME", "CANONICAL_JOB_ID", "RELEASE_REASON"}
    [] kind = "RELEASE_RESPONSE" -> {"REQUEST_ID"}
    [] kind = "GET_RESERVATIONS_REQUEST" ->
         {"REQUEST_ID", "CLUSTER_NAME", "OBSERVED_JOB_ID", "JOB_UID", "JOB_GID"}
    [] kind = "GET_RESERVATIONS_RESPONSE" -> {"REQUEST_ID", "CANONICAL_JOB_ID"}
    [] kind = "ERROR_RESPONSE" -> {"GATEWAY_ERROR_CODE", "REQUEST_ID", "DIAGNOSTIC"}
ItemAttributes(kind) ==
  CASE GroupOf(kind) = "SERVICE_REQUEST" -> {"SERVICE_ID"}
    [] GroupOf(kind) = "SERVICE_RESULT" ->
         {"SERVICE_ID", "ADMISSION_DECISION", "REASON_CODE", "RESERVATION_ID",
          "RETRY_AFTER_NS", "ESTIMATED_START_NS", "ESTIMATED_FINISH_NS",
          "QPM_RUNTIME_ID", "QPM_GENERATION", "DIAGNOSTIC"}
    [] kind = "RELEASE_RESPONSE" ->
         {"SERVICE_ID", "RESERVATION_ID", "RESERVATION_STATE", "GATEWAY_ERROR_CODE",
          "DIAGNOSTIC"}
    [] kind = "GET_RESERVATIONS_RESPONSE" -> {"SERVICE_ID", "RESERVATION_ID"}
    [] OTHER -> {}

\* Those that may be None; a request without workload has none of its fields.
MayBeNone(kind) ==
  CASE GroupOf(kind) = "SERVICE_REQUEST" ->
         Optional \cup {"HETERO_JOB_ID", "HETERO_COMPONENT"}
    [] GroupOf(kind) = "SERVICE_RESULT" ->
         {"RESERVATION_ID", "RETRY_AFTER_NS", "ESTIMATED_START_NS",
          "ESTIMATED_FINISH_NS", "QPM_RUNTIME_ID", "QPM_GENERATION", "DIAGNOSTIC"}
    [] kind = "RELEASE_RESPONSE" -> {"GATEWAY_ERROR_CODE", "DIAGNOSTIC"}
    [] kind = "ERROR_RESPONSE" -> {"REQUEST_ID", "DIAGNOSTIC"}
    [] OTHER -> {}

\* f has values for attributes S of a message or an item.
Carries(f, S, kind) ==
  /\ f = [x \in DOMAIN f |-> f[x]]
  /\ DOMAIN f \subseteq S
  /\ S \ (MayBeNone(kind) \cup Workload) \subseteq DOMAIN f
  /\ Envelope \subseteq DOMAIN f \/ Workload \cap DOMAIN f = {}
  /\ \A x \in DOMAIN f : f[x] \in IF x \in Texts THEN TextValue ELSE Nat
IsMessage(m) ==
  /\ m = [kind |-> m.kind, fields |-> m.fields, items |-> m.items]
  /\ m.kind \in MessageType
  /\ Carries(m.fields, Attributes(m.kind), m.kind)
  /\ m.items = [i \in 1..Len(m.items) |-> m.items[i]]
  /\ ItemAttributes(m.kind) = {} => m.items = <<>>
  /\ \A i \in DOMAIN m.items : Carries(m.items[i], ItemAttributes(m.kind), m.kind)

ASSUME WireAssumption == MaxEdits \in Nat /\ \A m \in Samples : IsMessage(m)

-----------------------------------------------------------------------------
(* The values a field is tried with: the ends of its range and beyond.     *)

Numbers == {0, 1, 3, 8, 12, U32 - 1, U32, U64 - 1, U64}
TextsOf(x) ==
  {NoText, Text(2, 1), Text(8, PyTextMax(x)), Text(9, PyTextMax(x) + 1),
   [Text(10, 1) EXCEPT !.nul = TRUE], [Text(11, 1) EXCEPT !.utf8 = FALSE]}
ValuesOf(x) == IF x \in Texts THEN TextsOf(x) ELSE Numbers

Put(f, x, v) == [y \in DOMAIN f \cup {x} |-> IF y = x THEN v ELSE f[y]]
Without(f, S) == [y \in DOMAIN f \ S |-> f[y]]

\* n items like the first, each for a service of its own.
Repeat(item, n) ==
  [i \in 1..n |-> [item EXCEPT !["SERVICE_ID"] = [@ EXCEPT !.id = 100 + i]]]

-----------------------------------------------------------------------------
(* The QPMs' replies.                                                      *)

NotInt == -2   \* a value that int() refuses

\* A reply, with the binding it came through.  A number the reply may leave
\* out is a set.
GoodReply ==
  [status |-> Accepted, id |-> {1}, reason |-> 0, time |-> {},
   message |-> NoText, runtime |-> Text(5, 8), generation |-> 1]

ReplyEdits(r) ==
  {[r EXCEPT !.status = s] : s \in {0, Delayed, Rejected}}
    \cup {[r EXCEPT !.id = n] : n \in {{}, {NotInt}, {-1}, {0}, {U64 - 1}, {U64}}}
    \cup {[r EXCEPT !.reason = n] : n \in {-1, U32 - 1, U32}}
    \cup {[r EXCEPT !.time = n] : n \in {{NotInt}, {-1}, {0}, {U64 - 1}, {U64}}}
    \cup {[r EXCEPT !.message = t] : t \in TextsOf("DIAGNOSTIC")}
    \cup {[r EXCEPT !.runtime = t] :
            t \in {Text(8, MAX_SERVICE_ID), Text(9, MAX_SERVICE_ID + 1)}}
    \cup {[r EXCEPT !.generation = n] : n \in {-1, U64 - 1, U64}}

\* Mutant of bounded_diagnostic: the text is not cut.
MutBounded(t) == [t EXCEPT !.utf8 = TRUE]

\* bounded_diagnostic: valid UTF-8 that fits the field.
bounded_diagnostic(t) ==
  [t EXCEPT !.utf8 = TRUE, !.len = IF @ <= MAX_DIAGNOSTIC THEN @ ELSE MAX_DIAGNOSTIC]

\* _normalize_admission: a set with the result, empty where it raises.
Normalised(r, service, reserve) ==
  LET id   == IF r.id = {0} THEN {} ELSE r.id
      held == reserve /\ r.status = Accepted
      base == [x \in {"SERVICE_ID", "ADMISSION_DECISION", "REASON_CODE",
                      "QPM_RUNTIME_ID", "QPM_GENERATION"} |->
                 CASE x = "SERVICE_ID" -> service
                   [] x = "ADMISSION_DECISION" -> r.status
                   [] x = "REASON_CODE" -> r.reason
                   [] x = "QPM_RUNTIME_ID" -> r.runtime
                   [] x = "QPM_GENERATION" -> r.generation]
      times == IF r.time = {} THEN {}
               ELSE {"RETRY_AFTER_NS", "ESTIMATED_START_NS", "ESTIMATED_FINISH_NS"}
      more == (IF held THEN {"RESERVATION_ID"} ELSE {}) \cup times
                \cup (IF r.message.len > 0 THEN {"DIAGNOSTIC"} ELSE {})
  IN  IF /\ r.status \in {Accepted, Delayed, Rejected}
         /\ id # {NotInt}
         /\ r.reason \in 0..(U32 - 1)
         /\ held => id # {} /\ id \subseteq 1..(U64 - 1)
         /\ ~ reserve => id = {}
         /\ r.time \subseteq 0..(U64 - 1)
      THEN {[x \in DOMAIN base \cup more |->
               CASE x \in DOMAIN base -> base[x]
                 [] x = "RESERVATION_ID" -> CHOOSE n \in id : TRUE
                 [] x \in times -> CHOOSE n \in r.time : TRUE
                 [] x = "DIAGNOSTIC" -> bounded_diagnostic(r.message)]}
      ELSE {}

Service(i) == Text(100 + i, MAX_SERVICE_ID)
ResultOf(i, reserve) == CHOOSE x \in Normalised(replies[i], Service(i), reserve) : TRUE
Malformed(i, reserve) == Normalised(replies[i], Service(i), reserve) = {}

AdmissionResponse(kind, decision, items) ==
  [kind |-> kind, items |-> items,
   fields |-> [x \in {"REQUEST_ID", "ADMISSION_DECISION"} |->
                 IF x = "REQUEST_ID" THEN 1 ELSE decision]]

\* _error, for the QFwAdapterError that a malformed reply raises: the adapter
\* words its text itself, and quotes what it repeats of the reply.  (A call that
\* raises is no reply: its text is the QPM's, and one with a NUL is refused by
\* _string just as that of a reply is; see Printable.)
QpmError ==
  [kind |-> "ERROR_RESPONSE", items |-> <<>>,
   fields |-> [x \in {"REQUEST_ID", "GATEWAY_ERROR_CODE", "DIAGNOSTIC"} |->
                 CASE x = "REQUEST_ID" -> 1
                   [] x = "GATEWAY_ERROR_CODE" -> 4
                   [] x = "DIAGNOSTIC" -> Text(12, MAX_DIAGNOSTIC)]]

\* _evaluate: every service is asked.
EvaluateAnswer ==
  IF \E i \in DOMAIN replies : Malformed(i, FALSE)
  THEN QpmError
  ELSE LET items == [i \in DOMAIN replies |-> ResultOf(i, FALSE)]
           decision == IF Rejected \in Decisions(items) THEN Rejected
                       ELSE IF Delayed \in Decisions(items) THEN Delayed
                       ELSE Accepted
       IN  AdmissionResponse("EVALUATE_RESPONSE", decision, items)

\* _reserve_services: services are asked in turn; the first that does not
\* accept ends the loop, and the accepted ones before it are rolled back and
\* reported with its decision.
Stops == {i \in DOMAIN replies : Malformed(i, TRUE) \/ replies[i].status # Accepted}
Last  == CHOOSE i \in Stops : \A j \in Stops : i <= j
RolledBack(result, final) ==
  [Put(Without(result, {"RESERVATION_ID"}), "DIAGNOSTIC", Text(13, 42))
     EXCEPT !["ADMISSION_DECISION"] = final["ADMISSION_DECISION"],
            !["REASON_CODE"] = final["REASON_CODE"]]
ReserveAnswer ==
  IF Stops = {}
  THEN AdmissionResponse("RESERVE_RESPONSE", Accepted,
                         [i \in DOMAIN replies |-> ResultOf(i, TRUE)])
  ELSE IF Malformed(Last, TRUE) THEN QpmError
  ELSE LET final == ResultOf(Last, TRUE)
       IN  AdmissionResponse("RESERVE_RESPONSE", final["ADMISSION_DECISION"],
             [i \in 1..Last |-> IF i = Last THEN final
                                ELSE RolledBack(ResultOf(i, TRUE), final)])

-----------------------------------------------------------------------------
(* The client's reading of an answer: admission_response_process.          *)

QFW_RESERVATIONS_ENV_SIZE == 16384

\* qfw_reservations_json writes ["name","id"] for each item, between brackets and
\* with commas, for names that need no escapes in JSON; an id has at most twenty
\* digits.
JsonSize(items) == 2 + Total([i \in DOMAIN items |-> items[i]["SERVICE_ID"].len + 28])
JsonFits(items) == JsonSize(items) < QFW_RESERVATIONS_ENV_SIZE

ClientOutcome(m, asked, reserve) ==
  LET got == CDecode(PyFrame(m))
  IN  IF got = {} THEN "client_error"
      ELSE IF m.kind = "ERROR_RESPONSE" THEN "gateway_error"
      ELSE LET r == CHOOSE x \in got : TRUE
               decision == r.fields["ADMISSION_DECISION"]
               ok(i) == "RESERVATION_ID" \in DOMAIN r.items[i]
               foreign == \/ r.fields["REQUEST_ID"] # 1
                          \/ \E i \in DOMAIN r.items :
                               r.items[i]["SERVICE_ID"] \notin asked
                          \/ ~ Distinct(r.items)
           IN  IF foreign THEN "response_error"
               ELSE IF decision = Accepted
               THEN IF /\ Len(r.items) = Cardinality(asked)
                       /\ Decisions(r.items) = {Accepted}
                       /\ \A i \in DOMAIN r.items : ok(i) = reserve
                       /\ reserve => JsonFits(r.items)
                    THEN "accepted" ELSE "response_error"
               ELSE IF decision \notin Decisions(r.items) THEN "response_error"
               ELSE IF decision = Delayed THEN "delayed" ELSE "rejected"

-----------------------------------------------------------------------------
Init ==
  /\ \/ stage = "compose" /\ msg \in Samples /\ replies = <<>>
     \/ stage = "ask" /\ msg = QpmError
        /\ replies \in {<<GoodReply>>, <<GoodReply, GoodReply>>}
  /\ frame = PyFrame(msg)
  /\ edits = 0

Edited == edits < MaxEdits /\ edits' = edits + 1

\* A field of the message takes another value, or becomes None.
SetField ==
  /\ stage = "compose" /\ Edited
  /\ \E x \in DOMAIN msg.fields :
       \/ \E v \in ValuesOf(x) : msg' = [msg EXCEPT !.fields[x] = v]
       \/ x \in MayBeNone(msg.kind) /\ msg' = [msg EXCEPT !.fields = Without(@, {x})]
       \/ x = "WORKLOAD_KIND" /\ msg' = [msg EXCEPT !.fields = Without(@, Workload)]
  /\ UNCHANGED <<stage, replies, frame>>

\* So does a field of the first item.
SetItem ==
  /\ stage = "compose" /\ Edited
  /\ Len(msg.items) \in 1..2
  /\ \E x \in DOMAIN msg.items[1] :
       \/ \E v \in ValuesOf(x) : msg' = [msg EXCEPT !.items[1][x] = v]
       \/ /\ x \in MayBeNone(msg.kind)
          /\ msg' = [msg EXCEPT !.items[1] = Without(@, {x})]
  /\ UNCHANGED <<stage, replies, frame>>

\* The message has no items, one, as many as the format allows, or one more.
Resize ==
  /\ stage = "compose" /\ Edited
  /\ Len(msg.items) = 2
  /\ \E n \in {0, 1, MAX_SERVICES, MAX_SERVICES + 1} :
       msg' = [msg EXCEPT !.items = Repeat(@[1], n)]
  /\ UNCHANGED <<stage, replies, frame>>

\* A QPM replies otherwise, or as many services are asked as there can be.
SetReply ==
  /\ stage = "ask" /\ Edited
  /\ \/ \E i \in DOMAIN replies \cap 1..2 :
          \E r \in ReplyEdits(replies[i]) : replies' = [replies EXCEPT ![i] = r]
     \/ /\ Len(replies) = 1
        /\ replies' = [i \in 1..MAX_SERVICES |-> replies[1]]
  /\ UNCHANGED <<stage, msg, frame>>

\* GatewayService puts its response together.
Answer ==
  /\ stage = "ask"
  /\ msg' \in {EvaluateAnswer, ReserveAnswer}
  /\ stage' = "answered"
  /\ UNCHANGED <<replies, frame, edits>>

\* Either side writes the message, if its encoder lets it.
Send ==
  /\ stage = "compose"
  /\ frame' \in (IF PyEncodes(msg) THEN {PyFrame(msg)} ELSE {})
                  \cup (IF CEncodes(msg) THEN {CFrame(msg)} ELSE {})
  /\ stage' = "sent"
  /\ UNCHANGED <<msg, replies, edits>>

-----------------------------------------------------------------------------
(* Frames that no encoder writes.                                          *)

Stray(required) ==
  [field |-> "unknown", required |-> required, form |-> "whole",
   value |-> NumberBytes(0, 4)]

\* The values that fit the bytes of a TLV.
Fitting(t) ==
  IF t.field \in Texts THEN TextsOf(t.field)
  ELSE {n \in Numbers : n < IF t.value.len = 4 THEN U32 ELSE U64}

AlteredTlvs(tlvs) ==
  {Chosen(tlvs, DOMAIN tlvs \ {i}) : i \in DOMAIN tlvs}
    \cup {Append(tlvs, tlvs[i]) : i \in DOMAIN tlvs}
    \cup {Append(tlvs, Stray(r)) : r \in BOOLEAN}
    \cup {Append(tlvs, Tlv(x, NumberBytes(1, 8))) :
            x \in {"CANONICAL_JOB_ID", "RESERVATION_ID", "RESERVATION"}}
    \cup {[tlvs EXCEPT ![i].form = b] :
            i \in DOMAIN tlvs, b \in {"flags", "padding", "cut"}}
    \cup (UNION {{[tlvs EXCEPT ![i].value =
                     IF tlvs[i].field \in Texts THEN TextBytes(v)
                                                ELSE NumberBytes(v, @.len)] :
                    v \in Fitting(tlvs[i])} :
                 i \in {j \in DOMAIN tlvs : tlvs[j].value.sub = <<>>}})
    \cup {[tlvs EXCEPT ![i].value = NumberBytes(@.num % U32, 12 - @.len)] :
            i \in {j \in DOMAIN tlvs : /\ tlvs[j].field \notin Texts
                                       /\ tlvs[j].value.len \in {4, 8}}}

AlteredHeaders(h) ==
  {[h EXCEPT !.magic = FALSE], [h EXCEPT !.major = 2], [h EXCEPT !.minor = 1],
   [h EXCEPT !.clean = FALSE], [h EXCEPT !.correlation = 0],
   [h EXCEPT !.fits = FALSE], [h EXCEPT !.kind = "unknown"]}
    \cup {[h EXCEPT !.kind = k] : k \in MessageType}

\* Something changes the frame between the two.
Alter ==
  /\ stage = "sent" /\ Edited
  /\ \/ frame' \in {[frame EXCEPT !.payload = p] : p \in AlteredTlvs(frame.payload)}
     \/ frame' \in {[frame EXCEPT !.header = h] : h \in AlteredHeaders(frame.header)}
     \/ \E i \in {j \in DOMAIN frame.payload : frame.payload[j].value.sub # <<>>} :
          /\ \A j \in 1..(i - 1) : frame.payload[j].value.sub = <<>>
          /\ frame' \in {[frame EXCEPT !.payload[i].value.sub = p] :
                           p \in AlteredTlvs(frame.payload[i].value.sub)}
  /\ UNCHANGED <<stage, msg, replies>>

Next == \/ SetField \/ SetItem \/ Resize \/ SetReply \/ Answer \/ Send \/ Alter

Spec == Init /\ [][Next]_vars

-----------------------------------------------------------------------------
(* Properties.                                                             *)

ItemFields(m) == UNION {DOMAIN m.items[i] : i \in DOMAIN m.items}
AllTexts(m) == {m.fields[x] : x \in DOMAIN m.fields \cap Texts} \cup
  UNION {{m.items[i][x] : x \in DOMAIN m.items[i] \cap Texts} : i \in DOMAIN m.items}

\* Two things C lets through and Python does not: text that is not UTF-8 (no
\* configured name is such), and job 0 as the leader of a heterogeneous job
\* (the driver refuses it when it parses its arguments).
OnlyC(m) ==
  \/ \E t \in AllTexts(m) : ~ t.utf8
  \/ "HETERO_JOB_ID" \in DOMAIN m.fields /\ m.fields["HETERO_JOB_ID"] = 0

\* The decision of a response object is a member of its enumeration.
Decided(m) ==
  GroupOf(m.kind) = "SERVICE_RESULT" =>
    m.fields["ADMISSION_DECISION"] \in {Accepted, Delayed, Rejected}

\* What either encoder writes, the other side (and, where there is one, its
\* own decoder) reads back as the same message: no field is lost, narrowed or
\* refused, at any end of any range and with any number of items.
RoundTrip ==
  stage = "compose" =>
    /\ PyEncodes(msg) /\ Decided(msg) =>
         /\ CDecode(PyFrame(msg)) = {msg}
         /\ msg.kind \in PyDecodable => PyDecode(PyFrame(msg)) = {msg}
    /\ CEncodes(msg) /\ ~ OnlyC(msg) => PyDecode(CFrame(msg)) = {msg}

\* On a frame that was altered on the way, truncated, padded, repeated or given
\* unknown fields included, the two decoders agree: both refuse it, or both
\* read the same message.
DecodersAgree ==
  (stage = "sent" /\ frame.header.kind \in PyDecodable) =>
    LET c == CDecode(frame)
    IN  PyDecode(frame) = {m \in c : ~ OnlyC(m)}

\* The gateway acts only on requests that the client could have written, and
\* the client only on answers that the gateway could have written.  The client
\* is more lenient in two places: it does not know the gateway's list of error
\* codes, and it lets two release results name one service.
AcceptedIsWritable ==
  stage = "sent" =>
    /\ \A m \in PyDecode(frame) : m.kind \in Requests => CEncodes(m)
    /\ \A m \in CDecode(frame) :
         m.kind \in Responses =>
           \/ PyEncodes(m)
           \/ OnlyC(m)
           \/ m.kind = "ERROR_RESPONSE" /\ m.fields["GATEWAY_ERROR_CODE"] > 11
           \/ m.kind = "RELEASE_RESPONSE" /\
                \/ ~ Distinct(m.items)
                \/ \E i \in DOMAIN m.items :
                     /\ "GATEWAY_ERROR_CODE" \in DOMAIN m.items[i]
                     /\ m.items[i]["GATEWAY_ERROR_CODE"] \notin 1..11

\* A response that is stored in the journal and read back for a retry of the
\* request goes out as the same frame, optional fields included.
ReplayIdentical ==
  (msg.kind \in Responses /\ PyEncodes(msg) /\ Decided(msg)) =>
    {PyFrame(m) : m \in response_from_dict(response_to_dict(msg))} = {PyFrame(msg)}

\* What the replies amount to, said of the replies themselves.
Honest(r, reserve) ==
  /\ r.status \in {Accepted, Delayed, Rejected}
  /\ r.reason \in 0..(U32 - 1) /\ r.time \subseteq 0..(U64 - 1) /\ r.id # {NotInt}
  /\ IF reserve THEN r.status = Accepted => r.id # {} /\ r.id \subseteq 1..(U64 - 1)
                ELSE r.id \in {{}, {0}}
Verdict(reserve) ==
  LET n == Len(replies)
      first == {i \in 1..n : /\ replies[i].status # Accepted \/ ~ Honest(replies[i], reserve)
                             /\ \A j \in 1..(i - 1) : /\ replies[j].status = Accepted
                                                      /\ Honest(replies[j], reserve)}
      seen == IF reserve THEN first ELSE 1..n
      some(s) == \E i \in seen : replies[i].status = s
  IN  IF \E i \in seen : ~ Honest(replies[i], reserve) THEN "gateway_error"
      ELSE IF some(Rejected) THEN "rejected"
      ELSE IF some(Delayed) THEN "delayed" ELSE "accepted"

\* The limits the gateway leaves to the QPM: a message without NUL, and a
\* runtime identity and generation that fit their fields.
Printable(r) ==
  /\ ~ r.message.nul
  /\ r.runtime.len <= MAX_SERVICE_ID
  /\ r.generation \in 0..(U64 - 1)

\* Whatever the QPMs reply to up to thirty-two services, within those limits,
\* the gateway has an answer that it can encode, that fits a frame, and that
\* the client takes for what the replies amount to: never for a broken answer,
\* and never for an acceptance that is not one.
AnswerIsUnderstood ==
  (stage = "answered" /\ \A i \in DOMAIN replies : Printable(replies[i])) =>
    \E reserve \in BOOLEAN :
      /\ msg = IF reserve THEN ReserveAnswer ELSE EvaluateAnswer
      /\ PyEncodes(msg)
      /\ ClientOutcome(msg, {Service(i) : i \in DOMAIN replies}, reserve)
           = Verdict(reserve)

=============================================================================
