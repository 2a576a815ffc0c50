------------------------ MODULE GatewayServiceProofs ------------------------
(***************************************************************************)
(* Proofs about GatewayService, for every set of services and requests and *)
(* every bound.                                                            *)
(***************************************************************************)
EXTENDS GatewayService, TLAPS

\* When the operator does not act, what begin_allocation read is still the row.
ReadCurrent ==
  "admin" \notin Events =>
    /\ pc["admin"] = "idle"
    /\ pc["serve"] = "allocate" => read = alloc

TypeInv == TypeOK /\ Control /\ ReadCurrent

\* The parts of a reserve request have the types of the tables they go to.
LEMMA ReserveParts ==
  ASSUME NEW r \in Reserves
  PROVE  /\ r \in Requests
         /\ r.services \subseteq Services
         /\ r.owner \in {q.owner : q \in Reserves}
         /\ AllocationFingerprint(r) \in Fingerprints
         /\ ReservationFingerprint(r) \in RowFingerprints
<1>1. r.services \subseteq Services
  BY RequestAssumption
<1> QED
  BY <1>1 DEF Requests, Fingerprints, RowFingerprints

\* A response without ids is a response.
LEMMA ReplyType ==
  ASSUME NEW k \in Kinds
  PROVE  Reply(k) \in Response
BY DEF Reply, Response, NoIds

\* The absent response is a response.
LEMMA NoResponseType == NoResponse \in Response
BY ReplyType DEF NoResponse, Kinds

\* The absent allocation is an allocation.
LEMMA NoAllocationType == NoAllocation \in Allocation
BY NoResponseType DEF NoAllocation, Allocation, AllocationStates, Fingerprints

\* The absent rows are rows.
LEMMA NoRowsType == NoRows \in [Services -> Row]
BY DEF NoRows, NoRow, Row, RowStates, RowFingerprints

\* The operations table keeps its type under the writes of the journal.
LEMMA StartOperationType ==
  ASSUME NEW o \in [OperationKeys -> Operation], NEW r \in Requests
  PROVE  StartOperation(o, r) \in [OperationKeys -> Operation]
BY NoResponseType DEF StartOperation, Operation, OperationKeys

\* complete_operation keeps the table of operations typed.
LEMMA CompleteOperationType ==
  ASSUME NEW o \in [OperationKeys -> Operation], NEW r \in Requests,
         NEW a \in Response, NEW st \in {"complete", "retryable"}
  PROVE  CompleteOperation(o, r, a, st) \in [OperationKeys -> Operation]
BY DEF CompleteOperation, Operation, OperationKeys

\* So do the allocation and the rows.
LEMMA CompleteAllocationType ==
  ASSUME NEW al \in Allocation, NEW a \in Response, NEW st \in AllocationStates
  PROVE  CompleteAllocation(al, st, a) \in Allocation
BY DEF CompleteAllocation, Allocation

\* begin_allocation writes a typed allocation when it reserves anew.
LEMMA ReserveAllocationType ==
  ASSUME NEW al \in Allocation, NEW r \in Reserves
  PROVE  /\ ReserveAllocation(al, r) \in Allocation
         /\ \A rd \in Allocation : ExtendAllocation(al, rd, r) \in Allocation
BY ReserveParts, NoResponseType
   DEF ReserveAllocation, ExtendAllocation, Allocation, AllocationStates

\* restore_accepted_allocation writes a typed allocation.
LEMMA RestoreType ==
  ASSUME NEW al \in Allocation, NEW a \in Response, NEW S \in SUBSET Services
  PROVE  RestoreAcceptedAllocation(al, S, a) \in Allocation
BY DEF RestoreAcceptedAllocation, Allocation, AllocationStates

\* set_allocation_state writes a typed allocation.
LEMMA SetStateType ==
  ASSUME NEW al \in Allocation
  PROVE  SetAllocationState(al, "rolling-back") \in Allocation
BY DEF SetAllocationState, Allocation, AllocationStates

\* record_reservation keeps the table of reservations typed.
LEMMA RecordType ==
  ASSUME NEW w \in [Services -> Row], NEW s \in Services, NEW row \in Row
  PROVE  RecordReservation(w, s, row) \in [Services -> Row]
BY DEF RecordReservation

\* What returning from a handler does to the types of the locals.
LEMMA ReturnType ==
  ASSUME TypeOK, NEW p \in Proc, Return(p)
  PROVE  /\ pc' \in [Proc -> Labels]
         /\ req' \in [Proc -> Requests \cup {NoRequest}]
         /\ todo' \in [Proc -> SUBSET Services]
         /\ snap' \in [Proc -> [Services -> Row]]
         /\ outcome' \in [Proc -> Outcomes]
         /\ failed' \in [Proc -> BOOLEAN]
         /\ plan' \in Plan
         /\ acc' \in [Services -> Accepted]
         /\ bind' \in Nat
         /\ answer' \in Response
         /\ read' \in Allocation
         /\ pc'[p] = "idle"
         /\ \A q \in Proc \ {p} : /\ pc'[q] = pc[q]
                                  /\ req'[q] = req[q]
                                  /\ outcome'[q] = outcome[q]
         /\ p = "admin" => answer' = answer
<1>1. /\ pc' \in [Proc -> Labels]
      /\ pc'[p] = "idle"
      /\ req' \in [Proc -> Requests \cup {NoRequest}]
      /\ todo' \in [Proc -> SUBSET Services]
      /\ outcome' \in [Proc -> Outcomes]
      /\ failed' \in [Proc -> BOOLEAN]
      /\ \A q \in Proc \ {p} : /\ pc'[q] = pc[q]
                               /\ req'[q] = req[q]
                               /\ outcome'[q] = outcome[q]
  BY DEF TypeOK, Return, Labels, Outcomes
<1>2. snap' \in [Proc -> [Services -> Row]]
  BY NoRowsType DEF TypeOK, Return
<1>3. /\ plan' \in Plan
      /\ acc' \in [Services -> Accepted]
      /\ bind' \in Nat
      /\ answer' \in Response
      /\ read' \in Allocation
      /\ p = "admin" => answer' = answer
  <2>1. CASE p = "serve"
    <3>1. NoPlan \in Plan
      BY NoResponseType DEF Plan, NoPlan
    <3>2. NoneAccepted \in [Services -> Accepted]
      BY DEF Accepted, NoneAccepted
    <3> QED
      BY <2>1, <3>1, <3>2, NoResponseType, NoAllocationType DEF Return
  <2>2. CASE p = "admin"
    BY <2>2 DEF TypeOK, Return, attempt
  <2> QED
    BY <2>1, <2>2 DEF Proc
<1> QED
  BY <1>1, <1>2, <1>3

\* Control after the daemon has returned.
LEMMA ReturnControl ==
  ASSUME TypeInv, NEW p \in Proc, Return(p)
  PROVE  Control'
BY ReturnType DEF TypeInv, Control, Proc, Labels

\* A reserve call keeps the QPMs typed.
LEMMA QpmReserveType ==
  ASSUME TypeOK, NEW s \in Services, NEW b, NEW x, QpmReserve(s, b, x)
  PROVE  /\ held' \in [Services -> SUBSET Nat]
         /\ runtime' \in [Services -> Nat]
         /\ nextId' \in Nat
BY DEF TypeOK, QpmReserve, QpmCreates, qpm

\* A release call keeps the QPMs typed.
LEMMA QpmReleaseType ==
  ASSUME TypeOK, NEW s \in Services, NEW i, NEW b, NEW x, QpmRelease(s, i, b, x)
  PROVE  /\ held' \in [Services -> SUBSET Nat]
         /\ runtime' \in [Services -> Nat]
         /\ nextId' \in Nat
BY DEF TypeOK, QpmRelease, QpmDrops, qpm

\* The daemon starts a reserve.
LEMMA BeginReserveType ==
  ASSUME TypeInv, NEW r \in Reserves, BeginReserve(r)
  PROVE  TypeOK' /\ Control'
<1>1. ops' \in [OperationKeys -> Operation]
  BY StartOperationType, ReserveParts DEF TypeInv, TypeOK, BeginReserve
<1>2. /\ pc' \in [Proc -> Labels]
      /\ pc'["serve"] = "allocate"
      /\ pc'["admin"] = pc["admin"]
      /\ req' \in [Proc -> Requests \cup {NoRequest}]
      /\ req'["serve"] = r
  BY ReserveParts DEF TypeInv, TypeOK, BeginReserve, Goto, Proc, Labels
<1> QED
  BY <1>1, <1>2
     DEF TypeInv, TypeOK, Control, BeginReserve, qpm, loop, attempt

\* begin_allocation, in each of its cases.
LEMMA BeginAllocationType ==
  ASSUME TypeInv, BeginAllocation
  PROVE  TypeOK' /\ Control'
<1> DEFINE r == req["serve"]
<1>0. r \in Reserves /\ pc["serve"] = "allocate"
  BY DEF TypeInv, Control, BeginAllocation
<1>1. /\ ops' = ops /\ rows' = rows /\ held' = held /\ runtime' = runtime
      /\ nextId' = nextId /\ stray' = stray /\ read' \in Allocation
  BY NoAllocationType DEF BeginAllocation, qpm
<1>2. CASE Return("serve") /\ UNCHANGED alloc
  BY <1>1, <1>2, ReturnType, ReturnControl DEF TypeInv, TypeOK, Proc
<1>3. CASE /\ answer' = read.response
           /\ Goto("serve", "finish")
           /\ UNCHANGED <<alloc, req, loop, plan, acc, bind>>
  <2>1. answer' \in Response
    BY <1>3 DEF TypeInv, TypeOK, Allocation
  <2>2. /\ pc' \in [Proc -> Labels]
        /\ pc'["serve"] = "finish"
        /\ pc'["admin"] = pc["admin"]
    BY <1>3 DEF TypeInv, TypeOK, Goto, Proc, Labels
  <2> QED
    BY <1>0, <1>1, <1>3, <2>1, <2>2, ReserveParts
       DEF TypeInv, TypeOK, Control, loop
<1>4. CASE /\ plan' = [extends |-> TRUE, services |-> read.services,
                       response |-> read.response]
           /\ todo' = [todo EXCEPT !["serve"] = Missing(read, r)]
           /\ alloc' = ExtendAllocation(alloc, read, r)
           /\ Goto("serve", "resolve")
           /\ UNCHANGED <<req, snap, outcome, failed, acc, bind, answer>>
  <2>1. plan' \in Plan
    BY <1>4 DEF TypeInv, TypeOK, Allocation, Plan
  <2>2. todo' \in [Proc -> SUBSET Services]
    BY <1>0, <1>4, ReserveParts DEF TypeInv, TypeOK, Missing
  <2>3. alloc' \in Allocation
    BY <1>0, <1>4, ReserveAllocationType DEF TypeInv, TypeOK
  <2>4. /\ pc' \in [Proc -> Labels]
        /\ pc'["serve"] = "resolve"
        /\ pc'["admin"] = pc["admin"]
    BY <1>4 DEF TypeInv, TypeOK, Goto, Proc, Labels
  <2> QED
    BY <1>0, <1>1, <1>4, <2>1, <2>2, <2>3, <2>4
       DEF TypeInv, TypeOK, Control
<1>5. CASE /\ todo' = [todo EXCEPT !["serve"] = r.services]
           /\ alloc' = ReserveAllocation(alloc, r)
           /\ Goto("serve", "resolve")
           /\ UNCHANGED <<req, snap, outcome, failed, plan, acc, bind, answer>>
  <2>2. todo' \in [Proc -> SUBSET Services]
    BY <1>0, <1>5, ReserveParts DEF TypeInv, TypeOK
  <2>3. alloc' \in Allocation
    BY <1>0, <1>5, ReserveAllocationType DEF TypeInv, TypeOK
  <2>4. /\ pc' \in [Proc -> Labels]
        /\ pc'["serve"] = "resolve"
        /\ pc'["admin"] = pc["admin"]
    BY <1>5 DEF TypeInv, TypeOK, Goto, Proc, Labels
  <2> QED
    BY <1>0, <1>1, <1>5, <2>2, <2>3, <2>4
       DEF TypeInv, TypeOK, Control
<1> QED
  BY <1>2, <1>3, <1>4, <1>5 DEF BeginAllocation

\* Moving the daemon to another label leaves the operator's process alone.
LEMMA GotoServe ==
  ASSUME TypeOK, NEW l \in Labels, Goto("serve", l)
  PROVE  /\ pc' \in [Proc -> Labels]
         /\ pc'["serve"] = l
         /\ pc'["admin"] = pc["admin"]
BY DEF TypeOK, Goto, Proc

\* The rows that a handler writes are rows, and the id each names.
LEMMA RowsWritten ==
  ASSUME TypeInv, NEW s \in Services
  PROVE  /\ pc["serve"] = "resolve" => PendingRow(s) \in Row
         /\ pc["serve"] = "record" => ResultRow(s) \in Row
         /\ pc["serve"] = "undone" => UndoRow(s) \in Row
         /\ PendingRow(s).rid = 0
         /\ ResultRow(s).rid = acc[s].rid
         /\ UndoRow(s).rid = acc[s].rid
<1>1. pc["serve"] \in {"resolve", "record", "undone"}
        => ReservationFingerprint(req["serve"]) \in RowFingerprints
  BY ReserveParts DEF TypeInv, Control
<1>2. /\ runtime[s] \in Nat /\ bind \in Nat
      /\ acc[s].rid \in Nat /\ acc[s].runtime \in Nat
  BY DEF TypeInv, TypeOK, Accepted
<1>3. pc["serve"] = "resolve" => PendingRow(s) \in Row
  BY <1>1, <1>2 DEF PendingRow, Row, RowStates
<1>4. pc["serve"] = "record" => ResultRow(s) \in Row
  <2>1. pc["serve"] = "record" => outcome["serve"] \in RowStates
    BY DEF TypeInv, Control, RowStates
  <2> QED
    BY <1>1, <1>2, <2>1 DEF ResultRow, Row
<1>5. pc["serve"] = "undone" => UndoRow(s) \in Row
  BY <1>1, <1>2 DEF UndoRow, Row, RowStates
<1>6. /\ PendingRow(s).rid = 0
      /\ ResultRow(s).rid = acc[s].rid
      /\ UndoRow(s).rid = acc[s].rid
  BY DEF PendingRow, ResultRow, UndoRow
<1> QED
  BY <1>3, <1>4, <1>5, <1>6

\* A row with another state is a row, and names what it named.
LEMMA RowStateType ==
  ASSUME NEW row \in Row, NEW st \in RowStates
  PROVE  /\ [row EXCEPT !.state = st] \in Row
         /\ [row EXCEPT !.state = st].rid = row.rid
         /\ [row EXCEPT !.state = st].runtime = row.runtime
         /\ [row EXCEPT !.state = st].state = st
BY DEF Row

\* The row that a release writes back is a row, and names what was read.
LEMMA ReleasedRowWritten ==
  ASSUME TypeInv, NEW p \in Proc, NEW s \in Services
  PROVE  /\ ReleasedRow(p, s) \in Row
         /\ ReleasedRow(p, s).rid = snap[p][s].rid
         /\ ReleasedRow(p, s).runtime = snap[p][s].runtime
         /\ ReleasedRow(p, s).state = ReleasedState(outcome[p])
<1>1. ReleasedState(outcome[p]) \in RowStates
  BY DEF ReleasedState, RowStates
<1>2. snap[p][s] \in Row
  BY DEF TypeInv, TypeOK
<1> QED
  BY <1>1, <1>2, RowStateType DEF ReleasedRow

\* The pending row, or a failure before it.
LEMMA ResolveType ==
  ASSUME TypeInv, Resolve
  PROVE  TypeOK' /\ Control'
<1>0. req["serve"] \in Reserves
  BY DEF TypeInv, Control, Resolve
<1>1. PICK s \in Services :
        /\ UNCHANGED <<ops, alloc, qpm, stray, req, loop, plan, acc, read>>
        /\ \/ /\ bind' = runtime[s]
              /\ rows' = RecordReservation(rows, s, PendingRow(s))
              /\ Goto("serve", "call")
              /\ UNCHANGED answer
           \/ StartRollback("failed") /\ UNCHANGED <<rows, bind>>
  BY DEF Resolve
<1>2. CASE /\ bind' = runtime[s]
           /\ rows' = RecordReservation(rows, s, PendingRow(s))
           /\ Goto("serve", "call")
           /\ UNCHANGED answer
  <2>1. PendingRow(s) \in Row
    BY RowsWritten DEF Resolve
  <2>2. rows' \in [Services -> Row]
    BY <1>2, <2>1, RecordType DEF TypeInv, TypeOK
  <2>3. bind' \in Nat
    BY <1>2 DEF TypeInv, TypeOK
  <2>4. /\ pc' \in [Proc -> Labels]
        /\ pc'["serve"] = "call"
        /\ pc'["admin"] = pc["admin"]
    BY <1>2, GotoServe DEF TypeInv, Labels
  <2> QED
    BY <1>0, <1>1, <1>2, <2>2, <2>3, <2>4
       DEF TypeInv, TypeOK, Control, qpm, loop
<1>3. CASE StartRollback("failed") /\ UNCHANGED <<rows, bind>>
  <2>1. answer' \in Response /\ answer'.kind = "failed"
    BY <1>3, ReplyType DEF StartRollback, Kinds, Reply
  <2>2. /\ pc' \in [Proc -> Labels]
        /\ pc'["serve"] = "rollback"
        /\ pc'["admin"] = pc["admin"]
    BY <1>3, GotoServe DEF TypeInv, Labels, StartRollback
  <2> QED
    BY <1>0, <1>1, <1>3, <2>1, <2>2 DEF TypeInv, TypeOK, Control, qpm, loop
<1> QED
  BY <1>1, <1>2, <1>3

\* The reserve call returns or raises.
LEMMA ReserveCallType ==
  ASSUME TypeInv, ReserveCall
  PROVE  TypeOK' /\ Control'
<1>0. req["serve"] \in Reserves
  BY DEF TypeInv, Control, ReserveCall
<1>1. PICK s \in Services, result \in {"accepted", "delayed", "rejected", "failed"} :
        /\ QpmReserve(s, bind, result)
        /\ outcome' = [outcome EXCEPT !["serve"] = result]
        /\ IF result = "failed"
           THEN StartRollback("failed") /\ UNCHANGED acc
           ELSE /\ acc' = IF result = "accepted"
                          THEN [acc EXCEPT ![s] = [rid |-> nextId, runtime |-> bind]]
                          ELSE acc
                /\ Goto("serve", "record")
                /\ UNCHANGED answer
        /\ UNCHANGED <<journal, stray, req, todo, snap, failed, plan, bind, read>>
  BY DEF ReserveCall
<1>2. /\ held' \in [Services -> SUBSET Nat]
      /\ runtime' \in [Services -> Nat]
      /\ nextId' \in Nat
  BY <1>1, QpmReserveType DEF TypeInv
<1>3. /\ outcome' \in [Proc -> Outcomes]
      /\ outcome'["serve"] = result
  BY <1>1 DEF TypeInv, TypeOK, Proc, Outcomes
<1>4. CASE result = "failed"
  <2>1. answer' \in Response /\ answer'.kind = "failed"
    BY <1>1, <1>4, ReplyType DEF StartRollback, Kinds, Reply
  <2>2. /\ pc' \in [Proc -> Labels]
        /\ pc'["serve"] = "rollback"
        /\ pc'["admin"] = pc["admin"]
    BY <1>1, <1>4, GotoServe DEF TypeInv, Labels, StartRollback
  <2> QED
    BY <1>0, <1>1, <1>2, <1>3, <1>4, <2>1, <2>2
       DEF TypeInv, TypeOK, Control, journal
<1>5. CASE result # "failed"
  <2>0. [rid |-> nextId, runtime |-> bind] \in Accepted
    BY DEF TypeInv, TypeOK, Accepted
  <2>1. acc' \in [Services -> Accepted]
    BY <1>1, <1>5, <2>0 DEF TypeInv, TypeOK
  <2>2. /\ pc' \in [Proc -> Labels]
        /\ pc'["serve"] = "record"
        /\ pc'["admin"] = pc["admin"]
    BY <1>1, <1>5, GotoServe DEF TypeInv, Labels
  <2> QED
    BY <1>0, <1>1, <1>2, <1>3, <1>5, <2>1, <2>2
       DEF TypeInv, TypeOK, Control, journal
<1> QED
  BY <1>4, <1>5

\* The result of the reserve call is recorded, or cannot be.
LEMMA RecordResultType ==
  ASSUME TypeInv, RecordResult
  PROVE  TypeOK' /\ Control'
<1>0. /\ req["serve"] \in Reserves
      /\ outcome["serve"] \in {"accepted", "delayed", "rejected"}
  BY DEF TypeInv, Control, RecordResult
<1>1. PICK s \in Services :
        /\ UNCHANGED <<ops, alloc, qpm, stray, req, snap, failed, plan, acc, bind, read>>
        /\ \/ /\ rows' = RecordReservation(rows, s, ResultRow(s))
              /\ todo' = [todo EXCEPT !["serve"] = @ \ {s}]
              /\ outcome' = [outcome EXCEPT !["serve"] = "none"]
              /\ IF outcome["serve"] # "accepted"
                 THEN StartRollback(outcome["serve"])
                 ELSE /\ Goto("serve", IF todo["serve"] = {s} THEN "accept"
                                                              ELSE "resolve")
                      /\ UNCHANGED answer
           \/ /\ StartRollback("failed")
              /\ UNCHANGED <<rows, todo, outcome>>
  BY DEF RecordResult
<1>2. CASE /\ rows' = RecordReservation(rows, s, ResultRow(s))
           /\ todo' = [todo EXCEPT !["serve"] = @ \ {s}]
           /\ outcome' = [outcome EXCEPT !["serve"] = "none"]
           /\ IF outcome["serve"] # "accepted"
              THEN StartRollback(outcome["serve"])
              ELSE /\ Goto("serve", IF todo["serve"] = {s} THEN "accept"
                                                           ELSE "resolve")
                   /\ UNCHANGED answer
  <2>1. ResultRow(s) \in Row
    BY RowsWritten DEF RecordResult
  <2>2. rows' \in [Services -> Row]
    BY <1>2, <2>1, RecordType DEF TypeInv, TypeOK
  <2>3. /\ todo' \in [Proc -> SUBSET Services]
        /\ outcome' \in [Proc -> Outcomes]
    BY <1>2 DEF TypeInv, TypeOK, Outcomes
  <2>4. CASE outcome["serve"] # "accepted"
    <3>1. answer' \in Response /\ answer'.kind \in {"delayed", "rejected"}
      BY <1>0, <1>2, <2>4, ReplyType DEF StartRollback, Kinds, Reply
    <3>2. /\ pc' \in [Proc -> Labels]
          /\ pc'["serve"] = "rollback"
          /\ pc'["admin"] = pc["admin"]
      BY <1>2, <2>4, GotoServe DEF TypeInv, Labels, StartRollback
    <3> QED
      BY <1>0, <1>1, <2>2, <2>3, <3>1, <3>2 DEF TypeInv, TypeOK, Control, qpm
  <2>5. CASE outcome["serve"] = "accepted"
    <3>2. /\ pc' \in [Proc -> Labels]
          /\ pc'["serve"] \in {"accept", "resolve"}
          /\ pc'["admin"] = pc["admin"]
      BY <1>2, <2>5, GotoServe DEF TypeInv, Labels
    <3> QED
      BY <1>0, <1>1, <1>2, <2>2, <2>3, <2>5, <3>2
         DEF TypeInv, TypeOK, Control, qpm
  <2> QED
    BY <2>4, <2>5
<1>3. CASE StartRollback("failed") /\ UNCHANGED <<rows, todo, outcome>>
  <2>1. answer' \in Response /\ answer'.kind = "failed"
    BY <1>3, ReplyType DEF StartRollback, Kinds, Reply
  <2>2. /\ pc' \in [Proc -> Labels]
        /\ pc'["serve"] = "rollback"
        /\ pc'["admin"] = pc["admin"]
    BY <1>3, GotoServe DEF TypeInv, Labels, StartRollback
  <2> QED
    BY <1>0, <1>1, <1>3, <2>1, <2>2 DEF TypeInv, TypeOK, Control, qpm
<1> QED
  BY <1>1, <1>2, <1>3

\* The accepted set is completed.
LEMMA AcceptType ==
  ASSUME TypeInv, Accept
  PROVE  TypeOK' /\ Control'
<1>0. req["serve"] \in Reserves
  BY DEF TypeInv, Control, Accept
<1>1. AcceptedIds \in [Services -> Nat]
  BY DEF TypeInv, TypeOK, AcceptedIds, Accepted, Plan, Response
<1>2. answer' \in Response
  BY <1>1 DEF Accept, Response, Kinds
<1>3. alloc' \in Allocation
  BY <1>2, CompleteAllocationType DEF TypeInv, TypeOK, Accept, AllocationStates
<1>4. /\ pc' \in [Proc -> Labels]
      /\ pc'["serve"] = "finish"
      /\ pc'["admin"] = pc["admin"]
  BY GotoServe DEF TypeInv, Labels, Accept
<1> QED
  BY <1>0, <1>2, <1>3, <1>4, ReserveParts
     DEF TypeInv, TypeOK, Control, Accept, qpm, loop

\* The rollback starts.
LEMMA BeginRollbackType ==
  ASSUME TypeInv, BeginRollback
  PROVE  TypeOK' /\ Control'
<1>0. /\ req["serve"] \in Reserves
      /\ answer.kind \in {"delayed", "rejected", "failed"}
  BY DEF TypeInv, Control, BeginRollback
<1>1. alloc' \in Allocation
  BY SetStateType DEF TypeInv, TypeOK, BeginRollback
<1>2. failed' \in [Proc -> BOOLEAN]
  BY DEF TypeInv, TypeOK, BeginRollback
<1>3. /\ pc' \in [Proc -> Labels]
      /\ pc'["serve"] \in {"settle", "undo"}
      /\ pc'["admin"] = pc["admin"]
  BY GotoServe DEF TypeInv, Labels, BeginRollback
<1> QED
  BY <1>0, <1>1, <1>2, <1>3
     DEF TypeInv, TypeOK, Control, BeginRollback, qpm, attempt

\* The rollback's release call.
LEMMA UndoCallType ==
  ASSUME TypeInv, UndoCall
  PROVE  TypeOK' /\ Control'
<1>0. /\ req["serve"] \in Reserves
      /\ answer.kind \in {"delayed", "rejected", "failed"}
  BY DEF TypeInv, Control, UndoCall
<1>1. PICK s \in Services, result \in {"ok", "failed", "refused"} :
        /\ QpmRelease(s, acc[s].rid, acc[s].runtime, result)
        /\ outcome' = [outcome EXCEPT !["serve"] =
                         IF result = "failed" THEN "failed" ELSE "ok"]
        /\ failed' = [failed EXCEPT !["serve"] = @ \/ result = "failed"]
        /\ Goto("serve", "undone")
        /\ UNCHANGED <<journal, stray, req, todo, snap, attempt>>
  BY DEF UndoCall
<1>2. /\ held' \in [Services -> SUBSET Nat]
      /\ runtime' \in [Services -> Nat]
      /\ nextId' \in Nat
  BY <1>1, QpmReleaseType DEF TypeInv
<1>3. outcome' \in [Proc -> Outcomes]
  BY <1>1 DEF TypeInv, TypeOK, Outcomes
<1>4. failed' \in [Proc -> BOOLEAN]
  BY <1>1 DEF TypeInv, TypeOK
<1>5. /\ pc' \in [Proc -> Labels]
      /\ pc'["serve"] = "undone"
      /\ pc'["admin"] = pc["admin"]
  BY <1>1, GotoServe DEF TypeInv, Labels
<1> QED
  BY <1>0, <1>1, <1>2, <1>3, <1>4, <1>5
     DEF TypeInv, TypeOK, Control, journal, attempt

\* Its row.
LEMMA RecordUndoType ==
  ASSUME TypeInv, RecordUndo
  PROVE  TypeOK' /\ Control'
<1>0. /\ req["serve"] \in Reserves
      /\ answer.kind \in {"delayed", "rejected", "failed"}
  BY DEF TypeInv, Control, RecordUndo
<1>1. PICK s \in Services :
        /\ \/ rows' = RecordReservation(rows, s, UndoRow(s)) /\ UNCHANGED failed
           \/ /\ failed' = [failed EXCEPT !["serve"] = TRUE]
              /\ UNCHANGED rows
        /\ acc' = [acc EXCEPT ![s] = [rid |-> 0, runtime |-> 0]]
        /\ outcome' = [outcome EXCEPT !["serve"] = "none"]
        /\ Goto("serve", IF AcceptedServices = {s} THEN "settle" ELSE "undo")
        /\ UNCHANGED <<ops, alloc, qpm, stray, req, todo, snap, plan, bind, answer, read>>
  BY DEF RecordUndo
<1>2. UndoRow(s) \in Row
  BY RowsWritten DEF RecordUndo
<1>3. rows' \in [Services -> Row]
  BY <1>1, <1>2, RecordType DEF TypeInv, TypeOK
<1>4. [rid |-> 0, runtime |-> 0] \in Accepted
  BY DEF Accepted
<1>5. /\ acc' \in [Services -> Accepted]
      /\ outcome' \in [Proc -> Outcomes]
  BY <1>1, <1>4 DEF TypeInv, TypeOK, Outcomes
<1>6. failed' \in [Proc -> BOOLEAN]
  BY <1>1 DEF TypeInv, TypeOK
<1>7. /\ pc' \in [Proc -> Labels]
      /\ pc'["serve"] \in {"settle", "undo"}
      /\ pc'["admin"] = pc["admin"]
  BY <1>1, GotoServe DEF TypeInv, Labels
<1> QED
  BY <1>0, <1>1, <1>3, <1>5, <1>6, <1>7 DEF TypeInv, TypeOK, Control, qpm

\* The allocation after the rollback.
LEMMA SettleType ==
  ASSUME TypeInv, Settle
  PROVE  TypeOK' /\ Control'
<1>0. /\ req["serve"] \in Reserves
      /\ answer.kind \in {"delayed", "rejected", "failed"}
  BY DEF TypeInv, Control, Settle
<1>1. SettledState(answer.kind) \in AllocationStates
  BY <1>0 DEF SettledState, AllocationStates
<1>2. alloc' \in Allocation
  BY <1>1, RestoreType, CompleteAllocationType
     DEF TypeInv, TypeOK, Settle, Plan
<1>3. CASE failed["serve"]
  BY <1>2, <1>3, ReturnType, ReturnControl
     DEF TypeInv, TypeOK, Settle, Proc, qpm
<1>4. CASE ~ failed["serve"]
  <2>1. /\ pc' \in [Proc -> Labels]
        /\ pc'["serve"] = "finish"
        /\ pc'["admin"] = pc["admin"]
    BY <1>4, GotoServe DEF TypeInv, Labels, Settle
  <2> QED
    BY <1>0, <1>2, <1>4, <2>1, ReserveParts
       DEF TypeInv, TypeOK, Control, Settle, qpm, loop, attempt
<1> QED
  BY <1>3, <1>4

\* The operation is completed.
LEMMA FinishType ==
  ASSUME TypeInv, Finish
  PROVE  TypeOK' /\ Control'
<1>1. req["serve"] \in Requests
  BY DEF TypeInv, Control, Finish
<1>2. ops' \in [OperationKeys -> Operation]
  BY <1>1, CompleteOperationType DEF TypeInv, TypeOK, Finish, CompletionState
<1> QED
  BY <1>2, ReturnType, ReturnControl DEF TypeInv, TypeOK, Finish, Proc, qpm

\* The daemon starts a release.
LEMMA BeginReleaseType ==
  ASSUME TypeInv, NEW r \in Releases, BeginRelease(r)
  PROVE  TypeOK' /\ Control'
<1>0. r \in Requests
  BY DEF Requests
<1>1. ops' \in [OperationKeys -> Operation]
  BY <1>0, StartOperationType DEF TypeInv, TypeOK, BeginRelease
<1>2. /\ req' \in [Proc -> Requests \cup {NoRequest}]
      /\ req'["serve"] = r
  BY <1>0 DEF TypeInv, TypeOK, BeginRelease, Proc
<1>3. /\ pc' \in [Proc -> Labels]
      /\ pc'["serve"] = "verify"
      /\ pc'["admin"] = pc["admin"]
  BY GotoServe DEF TypeInv, Labels, BeginRelease
<1> QED
  BY <1>1, <1>2, <1>3
     DEF TypeInv, TypeOK, Control, BeginRelease, qpm, loop, attempt

\* Moving process p leaves the other process alone.
LEMMA GotoProc ==
  ASSUME TypeOK, NEW p \in Proc, NEW l \in Labels, Goto(p, l)
  PROVE  /\ pc' \in [Proc -> Labels]
         /\ pc'[p] = l
         /\ \A q \in Proc \ {p} : pc'[q] = pc[q]
BY DEF TypeOK, Goto

\* A release reads the rows of the job.
LEMMA ReadRowsType ==
  ASSUME TypeOK, NEW p \in Proc, ReadRows(p)
  PROVE  /\ snap' \in [Proc -> [Services -> Row]]
         /\ todo' \in [Proc -> SUBSET Services]
         /\ pc' \in [Proc -> Labels]
         /\ pc'[p] \in {"tidy", "release"}
         /\ \A q \in Proc \ {p} : pc'[q] = pc[q]
<1>1. /\ snap' \in [Proc -> [Services -> Row]]
      /\ todo' \in [Proc -> SUBSET Services]
  BY DEF TypeOK, ReadRows
<1> QED
  BY <1>1, GotoProc DEF ReadRows, Labels

\* Slurm verifies the release, or does not.
LEMMA VerifyReleaseType ==
  ASSUME TypeInv, VerifyRelease
  PROVE  TypeOK' /\ Control'
<1>0. req["serve"] \in Releases
  BY DEF TypeInv, Control, VerifyRelease
<1>1. CASE ReadRows("serve") /\ UNCHANGED <<req, outcome, failed, attempt>>
  BY <1>0, <1>1, ReadRowsType
     DEF TypeInv, TypeOK, Control, VerifyRelease, Proc, journal, qpm, attempt
<1>2. CASE Return("serve")
  BY <1>2, ReturnType, ReturnControl
     DEF TypeInv, TypeOK, VerifyRelease, Proc, journal, qpm
<1> QED
  BY <1>1, <1>2 DEF VerifyRelease

\* The operator's command starts.
LEMMA RetryReleaseType ==
  ASSUME TypeInv, RetryRelease
  PROVE  TypeOK' /\ Control'
BY ReadRowsType
   DEF TypeInv, TypeOK, Control, RetryRelease, Proc, journal, qpm, attempt

\* The loop of a release goes on.
LEMMA NextRowType ==
  ASSUME TypeOK, NEW p \in Proc, NEW s \in Services, NextRow(p, s)
  PROVE  /\ todo' \in [Proc -> SUBSET Services]
         /\ pc' \in [Proc -> Labels]
         /\ pc'[p] \in {"tidy", "release"}
         /\ \A q \in Proc \ {p} : pc'[q] = pc[q]
<1>1. todo' \in [Proc -> SUBSET Services]
  BY DEF TypeOK, NextRow
<1> QED
  BY <1>1, GotoProc DEF NextRow, Labels

\* A terminal row is passed.
LEMMA SkipTerminalType ==
  ASSUME TypeInv, NEW p \in Proc, SkipTerminal(p)
  PROVE  TypeOK' /\ Control'
<1>1. PICK s \in Services :
        /\ pc[p] = "release"
        /\ NextRow(p, s)
        /\ UNCHANGED <<journal, qpm, stray, req, snap, outcome, failed, attempt>>
  BY DEF SkipTerminal
<1>2. TypeOK'
  BY <1>1, NextRowType DEF TypeInv, TypeOK, journal, qpm, attempt
<1>3. Control'
  BY <1>1, NextRowType DEF TypeInv, Control, Proc, attempt
<1> QED
  BY <1>2, <1>3 DEF TypeInv

\* The release call of a row, or the stale incarnation.
LEMMA ReleaseCallType ==
  ASSUME TypeInv, NEW p \in Proc, ReleaseCall(p)
  PROVE  TypeOK' /\ Control'
<1>1. PICK s \in Services :
        /\ pc[p] = "release"
        /\ \/ outcome' = [outcome EXCEPT ![p] = "stale"] /\ UNCHANGED qpm
           \/ outcome' = [outcome EXCEPT ![p] = "failed"] /\ UNCHANGED qpm
           \/ \E result \in {"ok", "failed", "refused"} :
                /\ QpmRelease(s, snap[p][s].rid, snap[p][s].runtime, result)
                /\ outcome' = [outcome EXCEPT ![p] =
                                 IF result = "ok" THEN "ok" ELSE "failed"]
        /\ Goto(p, "released")
        /\ UNCHANGED <<journal, stray, req, todo, snap, failed, attempt>>
  BY DEF ReleaseCall
<1>2. /\ outcome' \in [Proc -> Outcomes]
      /\ \A q \in Proc \ {p} : outcome'[q] = outcome[q]
  BY <1>1 DEF TypeInv, TypeOK, Outcomes
<1>3. /\ held' \in [Services -> SUBSET Nat]
      /\ runtime' \in [Services -> Nat]
      /\ nextId' \in Nat
  BY <1>1, QpmReleaseType DEF TypeInv, TypeOK, qpm
<1>4. /\ pc' \in [Proc -> Labels]
      /\ pc'[p] = "released"
      /\ \A q \in Proc \ {p} : pc'[q] = pc[q]
  BY <1>1, GotoProc DEF TypeInv, Labels
<1>5. TypeOK'
  BY <1>1, <1>2, <1>3, <1>4 DEF TypeInv, TypeOK, journal, attempt
<1>6. Control'
  BY <1>1, <1>2, <1>4 DEF TypeInv, Control, Proc, attempt
<1> QED
  BY <1>5, <1>6 DEF TypeInv

\* The row after its release.
LEMMA RecordReleaseType ==
  ASSUME TypeInv, NEW p \in Proc, RecordRelease(p)
  PROVE  TypeOK' /\ Control'
<1>1. PICK s \in Services :
        /\ pc[p] = "released"
        /\ rows' = RecordReservation(rows, s, ReleasedRow(p, s))
        /\ failed' = [failed EXCEPT ![p] = @ \/ Unresolved(p, outcome[p])]
        /\ outcome' = [outcome EXCEPT ![p] = "none"]
        /\ NextRow(p, s)
        /\ UNCHANGED <<ops, alloc, qpm, stray, req, snap, attempt>>
  BY DEF RecordRelease
<1>3. ReleasedRow(p, s) \in Row
  BY ReleasedRowWritten
<1>4. rows' \in [Services -> Row]
  BY <1>1, <1>3, RecordType DEF TypeInv, TypeOK
<1>5. failed' \in [Proc -> BOOLEAN]
  BY <1>1 DEF TypeInv, TypeOK
<1>6. /\ outcome' \in [Proc -> Outcomes]
      /\ \A q \in Proc \ {p} : outcome'[q] = outcome[q]
  BY <1>1 DEF TypeInv, TypeOK, Outcomes
<1>7. TypeOK'
  BY <1>1, <1>4, <1>5, <1>6, NextRowType DEF TypeInv, TypeOK, qpm, attempt
<1>8. Control'
  BY <1>1, <1>6, NextRowType DEF TypeInv, Control, Proc, attempt
<1> QED
  BY <1>7, <1>8 DEF TypeInv

\* The allocation after the release.
LEMMA CompleteReleaseType ==
  ASSUME TypeInv, NEW p \in Proc, CompleteRelease(p)
  PROVE  TypeOK' /\ Control'
<1> DEFINE kind == IF failed[p] THEN "unresolved" ELSE "released"
           state == IF failed[p] THEN "release-incomplete" ELSE "released"
<1>1. /\ Reply(kind) \in Response
      /\ state \in AllocationStates
  BY ReplyType DEF Kinds, AllocationStates
<1>2. alloc' \in Allocation
  BY <1>1, CompleteAllocationType DEF TypeInv, TypeOK, CompleteRelease
<1>3. CASE p = "serve" /\ alloc.state # "none"
  <2>1. req["serve"] \in Releases
    BY <1>3 DEF TypeInv, Control, CompleteRelease
  <2>2. /\ pc' \in [Proc -> Labels]
        /\ pc'["serve"] = "finish"
        /\ pc'["admin"] = pc["admin"]
    BY <1>3, GotoServe DEF TypeInv, Labels, CompleteRelease
  <2> QED
    BY <1>1, <1>2, <1>3, <2>1, <2>2
       DEF TypeInv, TypeOK, Control, CompleteRelease, Requests, qpm, loop
<1>4. CASE ~ (p = "serve" /\ alloc.state # "none")
  <2>1. Return(p) /\ UNCHANGED <<ops, rows, qpm, stray>>
    BY <1>4 DEF CompleteRelease
  <2> QED
    BY <1>2, <2>1, ReturnType, ReturnControl DEF TypeInv, TypeOK, qpm
<1> QED
  BY <1>3, <1>4

\* A journal write raises.
LEMMA JournalFailsType ==
  ASSUME TypeInv, NEW p \in Proc, JournalFails(p)
  PROVE  TypeOK' /\ Control'
BY ReturnType, ReturnControl DEF TypeInv, TypeOK, JournalFails, journal, qpm

\* A handler is cancelled or its process dies; its call is typed.
LEMMA AbandonType ==
  ASSUME TypeInv, NEW p \in Proc, Abandon(p)
  PROVE  TypeOK' /\ Control'
<1>1. PendingCalls(p) \subseteq Call
  <2>1. CASE pc[p] = "call"
    BY <2>1 DEF PendingCalls, Call, TypeInv, TypeOK
  <2>2. CASE pc[p] = "undo"
    BY <2>2 DEF PendingCalls, Call, TypeInv, TypeOK, Accepted
  <2>3. CASE pc[p] = "release"
    BY <2>3 DEF PendingCalls, Call, TypeInv, TypeOK, Row
  <2>4. CASE pc[p] \notin {"call", "undo", "release"}
    BY <2>4 DEF PendingCalls
  <2> QED
    BY <2>1, <2>2, <2>3, <2>4
<1>2. stray' \subseteq Call
  BY <1>1 DEF TypeInv, TypeOK, Abandon
<1> QED
  BY <1>2, ReturnType, ReturnControl DEF TypeInv, TypeOK, Abandon, journal, qpm

\* A call without its handler executes.
LEMMA StrayRunsType ==
  ASSUME TypeInv, NEW c \in stray, StrayRuns(c)
  PROVE  TypeOK' /\ Control'
<1>1. c.service \in Services
  BY DEF TypeInv, TypeOK, Call
<1>2. /\ held' \in [Services -> SUBSET Nat]
      /\ runtime' \in [Services -> Nat]
      /\ nextId' \in Nat
  BY <1>1 DEF TypeInv, TypeOK, StrayRuns, QpmCreates, QpmDrops, qpm
<1>3. stray' \subseteq Call
  BY DEF TypeInv, TypeOK, StrayRuns
<1> QED
  BY <1>2, <1>3 DEF TypeInv, TypeOK, Control, StrayRuns, journal, loop, attempt

\* A QPM restarts.
LEMMA QpmRestartType ==
  ASSUME TypeInv, NEW s \in Services, QpmRestart(s)
  PROVE  TypeOK' /\ Control'
BY DEF TypeInv, TypeOK, Control, QpmRestart, journal, loop, attempt

\* The first state is typed.
LEMMA InitType == Init => TypeInv
<1> SUFFICES ASSUME Init PROVE TypeInv
  OBVIOUS
<1>1. NoOperation \in Operation
  BY NoResponseType DEF NoOperation, Operation
<1>2. NoAllocation \in Allocation
  BY NoAllocationType
<1>3. NoPlan \in Plan
  BY NoResponseType DEF Plan, NoPlan
<1>4. NoneAccepted \in [Services -> Accepted]
  BY DEF Accepted, NoneAccepted
<1>5. TypeOK
  BY <1>1, <1>2, <1>3, <1>4, NoRowsType, NoResponseType
     DEF Init, TypeOK, Labels, Outcomes
<1>6. Control
  BY DEF Init, Control, Proc
<1>7. ReadCurrent
  BY DEF Init, ReadCurrent, Proc
<1> QED
  BY <1>5, <1>6, <1>7 DEF TypeInv

\* Only the daemon writes the allocation then, and not between its read and its
\* decision.
LEMMA ReadStep ==
  ASSUME TypeInv, [Next]_vars
  PROVE  ReadCurrent'
<1> SUFFICES ASSUME "admin" \notin Events
             PROVE  /\ pc'["admin"] = "idle"
                    /\ pc'["serve"] = "allocate" => read' = alloc'
  BY DEF ReadCurrent
<1>1. /\ pc["admin"] = "idle"
      /\ pc["serve"] = "allocate" => read = alloc
      /\ pc \in [Proc -> Labels]
  BY DEF TypeInv, TypeOK, ReadCurrent
<1>2. \A l : Goto("serve", l) => pc'["admin"] = "idle" /\ pc'["serve"] = l
  BY <1>1 DEF Goto, Proc
<1>3. \A p \in Proc : Return(p) => pc'["admin"] = "idle" /\ pc'[p] = "idle"
  BY <1>1 DEF Return, Proc
<1>4. CASE \E r \in Reserves : BeginReserve(r)
  BY <1>2, <1>4 DEF BeginReserve
<1>5. CASE \/ BeginAllocation \/ Resolve \/ ReserveCall \/ RecordResult \/ Accept
           \/ BeginRollback \/ UndoCall \/ RecordUndo \/ Settle \/ Finish
  BY <1>2, <1>3, <1>5
     DEF BeginAllocation, Resolve, ReserveCall, RecordResult, Accept, BeginRollback,
         UndoCall, RecordUndo, Settle, Finish, StartRollback, Proc
<1>6. CASE (\E r \in Releases : BeginRelease(r)) \/ VerifyRelease \/ RetryRelease
  BY <1>2, <1>3, <1>6 DEF BeginRelease, VerifyRelease, ReadRows, RetryRelease, Proc
<1>7. CASE \E p \in Proc : ReleaseStep(p)
  BY <1>1, <1>2, <1>3, <1>7
     DEF ReleaseStep, SkipTerminal, ReleaseCall, RecordRelease, CompleteRelease,
         NextRow, Proc
<1>8. CASE Cancel \/ \E p \in Proc : JournalFails(p) \/ Crash(p)
  BY <1>1, <1>3, <1>8 DEF Cancel, JournalFails, Crash, Abandon, Proc
<1>9. CASE \/ \E c \in stray : StrayRuns(c)
           \/ \E s \in Services : QpmRestart(s)
           \/ UNCHANGED vars
  BY <1>1, <1>9 DEF StrayRuns, QpmRestart, vars, journal, attempt
<1> QED
  BY <1>4, <1>5, <1>6, <1>7, <1>8, <1>9 DEF Next, ReserveStep, Fault

\* The type invariant, with what the labels say of the locals, is inductive.
LEMMA NextType == TypeInv /\ [Next]_vars => TypeInv'
<1> SUFFICES ASSUME TypeInv, [Next]_vars PROVE TypeOK' /\ Control'
  BY ReadStep DEF TypeInv
<1>1. CASE ReserveStep
  BY <1>1, BeginReserveType, BeginAllocationType, ResolveType, ReserveCallType,
     RecordResultType, AcceptType, BeginRollbackType, UndoCallType,
     RecordUndoType, SettleType, FinishType DEF ReserveStep
<1>2. CASE (\E r \in Releases : BeginRelease(r)) \/ VerifyRelease \/ RetryRelease
  BY <1>2, BeginReleaseType, VerifyReleaseType, RetryReleaseType
<1>3. CASE \E p \in Proc : ReleaseStep(p)
  BY <1>3, SkipTerminalType, ReleaseCallType, RecordReleaseType,
     CompleteReleaseType DEF ReleaseStep
<1>4. CASE Fault
  BY <1>4, JournalFailsType, AbandonType, StrayRunsType, QpmRestartType
     DEF Fault, Cancel, Crash, Proc
<1>5. CASE UNCHANGED vars
  BY <1>5 DEF TypeInv, TypeOK, Control, vars, journal, qpm, loop, attempt
<1> QED
  BY <1>1, <1>2, <1>3, <1>4, <1>5 DEF Next

\* Every journal table, QPM and local of service.py keeps its type, and a
\* handler is in a label only with the locals that label needs.
THEOREM TypeCorrect == Spec => []TypeInv
BY InitType, NextType, PTL DEF Spec

\* The type invariant that the runs check.
THEOREM TypeOKCorrect == Spec => []TypeOK
BY TypeCorrect, PTL DEF TypeInv

-----------------------------------------------------------------------------
(* Reservation ids are never reused.                                       *)

\* A step in which no id that was handed out and dropped is held again, and in
\* which a QPM that changes its incarnation holds nothing afterwards.
NoRevival ==
  /\ nextId <= nextId'
  /\ \A s \in Services :
       /\ \A i \in held'[s] : /\ 1 <= i /\ i < nextId'
                              /\ i < nextId => i \in held[s]
       /\ runtime'[s] = runtime[s] \/ held'[s] = {}

\* A QPM that makes a reservation revives no old id.
LEMMA QpmCreatesEffect ==
  ASSUME TypeOK, FreshIds, NEW s \in Services, QpmCreates(s)
  PROVE  NoRevival /\ nextId' = nextId + 1
BY DEF TypeOK, FreshIds, QpmCreates, NoRevival

\* Nor does one that drops a reservation.
LEMMA QpmDropsEffect ==
  ASSUME TypeOK, FreshIds, NEW s \in Services, NEW i \in Nat, QpmDrops(s, i)
  PROVE  NoRevival /\ nextId' = nextId /\ i \notin held'[s]
BY DEF TypeOK, FreshIds, QpmDrops, NoRevival

\* Nor one that does nothing.
LEMMA QpmSameEffect ==
  ASSUME TypeOK, FreshIds, UNCHANGED qpm
  PROVE  NoRevival /\ nextId' = nextId
BY DEF TypeOK, FreshIds, qpm, NoRevival

\* Whatever a reserve call returns, it revives no old id.
LEMMA QpmReserveEffect ==
  ASSUME TypeOK, FreshIds, NEW s \in Services, NEW b, NEW x,
         QpmReserve(s, b, x)
  PROVE  /\ NoRevival
         /\ x = "accepted" => nextId' = nextId + 1 /\ runtime[s] = b
         /\ runtime' = runtime
BY QpmCreatesEffect, QpmSameEffect DEF QpmReserve, QpmCreates, qpm

\* Whatever a release call returns, it revives no old id.
LEMMA QpmReleaseEffect ==
  ASSUME TypeOK, FreshIds, NEW s \in Services, NEW i \in Nat, NEW b, NEW x,
         QpmRelease(s, i, b, x)
  PROVE  /\ NoRevival
         /\ nextId' = nextId
         /\ x = "ok" => i \notin held'[s]
         /\ x = "refused" => "refuse" \in Events
         /\ runtime' = runtime
BY QpmDropsEffect, QpmSameEffect DEF QpmRelease, QpmDrops, qpm

\* No step revives an id.
LEMMA StepRevivesNone ==
  ASSUME TypeInv, FreshIds, [Next]_vars
  PROVE  NoRevival
<1>0. TypeOK
  BY DEF TypeInv
<1>1. CASE UNCHANGED qpm
  BY <1>0, <1>1, QpmSameEffect
<1>2. CASE ReserveCall
  BY <1>0, <1>2, QpmReserveEffect DEF ReserveCall
<1>3. CASE UndoCall
  <2>1. \A s \in Services : acc[s].rid \in Nat
    BY <1>0 DEF TypeOK, Accepted
  <2> QED
    BY <1>0, <1>3, <2>1, QpmReleaseEffect DEF UndoCall
<1>4. CASE \E p \in Proc : ReleaseCall(p)
  <2>1. PICK p \in Proc : ReleaseCall(p)
    BY <1>4
  <2>2. \A s \in Services : snap[p][s].rid \in Nat
    BY <1>0 DEF TypeOK, Row
  <2> QED
    BY <1>0, <2>1, <2>2, QpmReleaseEffect, QpmSameEffect DEF ReleaseCall
<1>5. CASE \E c \in stray : StrayRuns(c)
  <2>1. PICK c \in stray : StrayRuns(c)
    BY <1>5
  <2>2. c.service \in Services /\ c.rid \in Nat
    BY <1>0, <2>1 DEF TypeOK, Call
  <2> QED
    BY <1>0, <2>1, <2>2, QpmCreatesEffect, QpmDropsEffect, QpmSameEffect
       DEF StrayRuns
<1>6. CASE \E s \in Services : QpmRestart(s)
  BY <1>0, <1>6 DEF QpmRestart, NoRevival, TypeOK, FreshIds
<1>7. CASE UNCHANGED vars
  BY <1>1, <1>7 DEF vars
<1> QED
  BY <1>1, <1>2, <1>3, <1>4, <1>5, <1>6, <1>7
     DEF Next, ReserveStep, ReleaseStep, Fault, BeginReserve, BeginAllocation,
         Resolve, RecordResult, Accept, BeginRollback, RecordUndo, Settle,
         Finish, BeginRelease, VerifyRelease, RetryRelease, SkipTerminal,
         RecordRelease, CompleteRelease, JournalFails, Cancel, Crash, Abandon

\* The rows, the attempt and the rows read by a release name old ids only.
NamesOld ==
  \A s \in Services :
    /\ rows[s].rid < nextId
    /\ acc[s].rid < nextId
    /\ \A p \in Proc : snap[p][s].rid < nextId

\* FreshIds after a step, from the ids that the QPMs hold and those that are named.
LEMMA FreshParts ==
  ASSUME TypeInv, FreshIds, NoRevival, TypeInv', NamesOld'
  PROVE  FreshIds'
BY DEF TypeInv, TypeOK, FreshIds, NoRevival, NamesOld

\* A step that writes no name keeps the names old.
LEMMA NamesStayOld ==
  ASSUME TypeInv, TypeInv', FreshIds, NoRevival, UNCHANGED <<rows, acc, snap>>
  PROVE  NamesOld'
BY DEF TypeInv, TypeOK, FreshIds, NoRevival, NamesOld, Row, Accepted

\* A handler that returns names fewer ids.
LEMMA ReturnForgets ==
  ASSUME TypeInv, TypeInv', FreshIds, NoRevival, NEW p \in Proc, Return(p),
         UNCHANGED rows
  PROVE  NamesOld'
<1>1. \A s \in Services : rows'[s].rid < nextId'
  BY DEF TypeInv, TypeOK, FreshIds, NoRevival, Row
<1>2. \A s \in Services : acc'[s].rid < nextId'
  BY DEF TypeInv, TypeOK, FreshIds, NoRevival, Return, NoneAccepted, Accepted,
         attempt
<1>3. \A s \in Services, q \in Proc : snap'[q][s].rid < nextId'
  BY DEF TypeInv, TypeOK, FreshIds, NoRevival, Return, NoRows, NoRow, Row
<1> QED
  BY <1>1, <1>2, <1>3 DEF NamesOld

\* What RecordReservation leaves in the table.
LEMMA RecordedRow ==
  ASSUME TypeOK, NEW s \in Services, NEW row \in Row,
         rows' = RecordReservation(rows, s, row)
  PROVE  rows'[s] = row /\ \A t \in Services \ {s} : rows'[t] = rows[t]
BY DEF RecordReservation, TypeOK

\* One row is written, with an id that is old or 0.
LEMMA RowStaysOld ==
  ASSUME TypeInv, TypeInv', FreshIds, NoRevival, NEW s \in Services,
         NEW row \in Row, rows' = RecordReservation(rows, s, row),
         row.rid < nextId
  PROVE  \A t \in Services : rows'[t].rid < nextId'
<1>1. rows'[s] = row /\ \A t \in Services \ {s} : rows'[t] = rows[t]
  BY RecordedRow DEF TypeInv
<1>2. nextId \in Nat /\ nextId' \in Nat /\ nextId <= nextId'
  BY DEF TypeInv, TypeOK, NoRevival
<1>3. row.rid < nextId'
  BY <1>2 DEF Row
<1>4. \A t \in Services : rows[t].rid < nextId'
  BY <1>2 DEF TypeInv, TypeOK, FreshIds, Row
<1> QED
  BY <1>1, <1>3, <1>4

\* A step of a reserve names only ids that were handed out.
LEMMA ServeNames ==
  ASSUME TypeInv, TypeInv', FreshIds, NoRevival, ReserveStep
  PROVE  NamesOld'
<1>0. \A s \in Services : acc[s].rid \in Nat /\ acc[s].rid < nextId
  BY DEF TypeInv, TypeOK, Accepted, FreshIds
<1>1. CASE (\E r \in Reserves : BeginReserve(r)) \/ Accept \/ BeginRollback \/ UndoCall
  BY <1>1, NamesStayOld DEF BeginReserve, Accept, BeginRollback, UndoCall, loop,
     attempt, journal
<1>2. CASE BeginAllocation
  BY <1>2, NamesStayOld, ReturnForgets DEF BeginAllocation, loop, attempt, Proc
<1>3. CASE Settle
  BY <1>3, NamesStayOld, ReturnForgets DEF Settle, loop, attempt, Proc
<1>4. CASE Finish
  BY <1>4, ReturnForgets DEF Finish, Proc
<1>5. CASE Resolve
  <2>1. PICK s \in Services :
          \/ rows' = rows
          \/ rows' = RecordReservation(rows, s, PendingRow(s))
    BY <1>5 DEF Resolve
  <2>2. UNCHANGED <<acc, snap>>
    BY <1>5 DEF Resolve, loop
  <2>3. 0 < nextId
    BY DEF FreshIds, TypeInv, TypeOK
  <2>4. CASE rows' = rows
    BY <2>2, <2>4, NamesStayOld
  <2>5. CASE rows' # rows
    <3>1. \A t \in Services : rows'[t].rid < nextId'
      BY <1>5, <2>1, <2>3, <2>5, RowStaysOld, RowsWritten DEF Resolve
    <3> QED
      BY <2>2, <3>1
         DEF NamesOld, TypeInv, TypeOK, FreshIds, NoRevival, Accepted, Row
  <2> QED
    BY <2>4, <2>5
<1>6. CASE ReserveCall
  <2>1. UNCHANGED <<rows, snap>>
    BY <1>6 DEF ReserveCall, journal
  <2>2. PICK s \in Services, x \in {"accepted", "delayed", "rejected", "failed"} :
          /\ QpmReserve(s, bind, x)
          /\ acc' = IF x = "accepted"
                    THEN [acc EXCEPT ![s] = [rid |-> nextId, runtime |-> bind]]
                    ELSE acc
    BY <1>6 DEF ReserveCall
  <2>3. x = "accepted" => nextId' = nextId + 1
    BY <2>2, QpmReserveEffect DEF TypeInv
  <2>4. \A t \in Services : acc'[t].rid < nextId'
    BY <2>2, <2>3 DEF TypeInv, TypeOK, FreshIds, NoRevival, Accepted
  <2> QED
    BY <2>1, <2>4 DEF NamesOld, TypeInv, TypeOK, FreshIds, NoRevival, Row
<1>7. CASE RecordResult
  <2>1. PICK s \in Services :
          \/ rows' = rows
          \/ rows' = RecordReservation(rows, s, ResultRow(s))
    BY <1>7 DEF RecordResult
  <2>2. UNCHANGED <<acc, snap>>
    BY <1>7 DEF RecordResult
  <2>4. CASE rows' = rows
    BY <2>2, <2>4, NamesStayOld
  <2>5. CASE rows' # rows
    <3>1. \A t \in Services : rows'[t].rid < nextId'
      BY <1>0, <1>7, <2>1, <2>5, RowStaysOld, RowsWritten DEF RecordResult
    <3> QED
      BY <2>2, <3>1
         DEF NamesOld, TypeInv, TypeOK, FreshIds, NoRevival, Accepted, Row
  <2> QED
    BY <2>4, <2>5
<1>8. CASE RecordUndo
  <2>1. PICK s \in Services :
          /\ acc' = [acc EXCEPT ![s] = [rid |-> 0, runtime |-> 0]]
          /\ \/ rows' = rows
             \/ rows' = RecordReservation(rows, s, UndoRow(s))
    BY <1>8 DEF RecordUndo
  <2>2. UNCHANGED snap
    BY <1>8 DEF RecordUndo
  <2>3. \A t \in Services : rows'[t].rid < nextId'
    <3>1. CASE rows' = rows
      BY <3>1 DEF TypeInv, TypeOK, FreshIds, NoRevival, Row
    <3>2. CASE rows' # rows
      BY <1>0, <1>8, <2>1, <3>2, RowStaysOld, RowsWritten DEF RecordUndo
    <3> QED
      BY <3>1, <3>2
  <2>4. \A t \in Services : acc'[t].rid < nextId'
    BY <2>1 DEF TypeInv, TypeOK, FreshIds, NoRevival, Accepted
  <2> QED
    BY <2>2, <2>3, <2>4 DEF NamesOld, TypeInv, TypeOK, FreshIds, NoRevival, Row
<1> QED
  BY <1>1, <1>2, <1>3, <1>4, <1>5, <1>6, <1>7, <1>8 DEF ReserveStep

\* So does a release that reads the rows,
LEMMA ReadRowsNames ==
  ASSUME TypeInv, TypeInv', FreshIds, NoRevival, NEW p \in Proc, ReadRows(p),
         UNCHANGED <<rows, acc>>
  PROVE  NamesOld'
BY DEF ReadRows, TypeInv, TypeOK, FreshIds, NoRevival, NamesOld, Row, Accepted

\* and each of its steps.
LEMMA ReleaseNames ==
  ASSUME TypeInv, TypeInv', FreshIds, NoRevival, NEW p \in Proc, ReleaseStep(p)
  PROVE  NamesOld'
<1>1. CASE SkipTerminal(p) \/ ReleaseCall(p)
  BY <1>1, NamesStayOld DEF SkipTerminal, ReleaseCall, journal, attempt
<1>2. CASE CompleteRelease(p)
  BY <1>2, NamesStayOld, ReturnForgets DEF CompleteRelease, loop
<1>3. CASE RecordRelease(p)
  <2>1. PICK s \in Services :
          rows' = RecordReservation(rows, s, ReleasedRow(p, s))
    BY <1>3 DEF RecordRelease
  <2>2. UNCHANGED <<acc, snap>>
    BY <1>3 DEF RecordRelease, attempt
  <2>3. snap[p][s].rid < nextId
    BY DEF FreshIds
  <2>6. \A t \in Services : rows'[t].rid < nextId'
    BY <2>1, <2>3, ReleasedRowWritten, RowStaysOld
  <2> QED
    BY <2>2, <2>6 DEF NamesOld, TypeInv, TypeOK, FreshIds, NoRevival, Row, Accepted
<1> QED
  BY <1>1, <1>2, <1>3 DEF ReleaseStep

\* FreshIds is preserved by every step.
LEMMA FreshStep ==
  ASSUME TypeInv, TypeInv', FreshIds, [Next]_vars
  PROVE  FreshIds'
<1>0. NoRevival
  BY StepRevivesNone
<1>1. CASE ReserveStep
  BY <1>0, <1>1, ServeNames, FreshParts
<1>2. CASE \E p \in Proc : ReleaseStep(p)
  BY <1>0, <1>2, ReleaseNames, FreshParts
<1>3. CASE \E r \in Releases : BeginRelease(r)
  BY <1>0, <1>3, NamesStayOld, FreshParts DEF BeginRelease, loop, attempt
<1>4. CASE VerifyRelease
  BY <1>0, <1>4, ReadRowsNames, ReturnForgets, FreshParts
     DEF VerifyRelease, journal, attempt, Proc
<1>5. CASE RetryRelease
  BY <1>0, <1>5, ReadRowsNames, FreshParts
     DEF RetryRelease, journal, attempt, Proc
<1>6. CASE Fault
  <2>1. CASE (\E c \in stray : StrayRuns(c)) \/ (\E s \in Services : QpmRestart(s))
    BY <1>0, <2>1, NamesStayOld, FreshParts
       DEF StrayRuns, QpmRestart, journal, loop, attempt
  <2>2. CASE Cancel \/ \E p \in Proc : JournalFails(p) \/ Crash(p)
    BY <1>0, <2>2, ReturnForgets, FreshParts
       DEF Cancel, JournalFails, Crash, Abandon, journal, Proc
  <2> QED
    BY <1>6, <2>1, <2>2 DEF Fault
<1>7. CASE UNCHANGED vars
  BY <1>0, <1>7, NamesStayOld, FreshParts DEF vars, journal, loop, attempt
<1> QED
  BY <1>1, <1>2, <1>3, <1>4, <1>5, <1>6, <1>7 DEF Next

-----------------------------------------------------------------------------
(* A row that says rolled back names a reservation its QPM has dropped.    *)

\* UndoneIsFree is preserved by every step when no release is refused.
LEMMA UndoneStep ==
  ASSUME "refuse" \notin Events, TypeInv, TypeInv', FreshIds, UndoneIsFree,
         [Next]_vars
  PROVE  UndoneIsFree'
<1>0. NoRevival
  BY StepRevivesNone
<1>1. CASE UndoCall
  <2>1. PICK s \in Services, x \in {"ok", "failed", "refused"} :
          /\ Greatest(s, AcceptedServices)
          /\ QpmRelease(s, acc[s].rid, acc[s].runtime, x)
          /\ outcome' = [outcome EXCEPT !["serve"] =
                           IF x = "failed" THEN "failed" ELSE "ok"]
          /\ UNCHANGED attempt
    BY <1>1 DEF UndoCall
  <2>2. acc[s].rid \in Nat
    BY DEF TypeInv, TypeOK, Accepted
  <2>3. x = "ok" => acc[s].rid \notin held'[s]
    BY <2>1, <2>2, QpmReleaseEffect DEF TypeInv
  <2>4. x # "refused"
    BY <2>1, <2>2, QpmReleaseEffect DEF TypeInv
  <2>5. outcome'["serve"] = "ok" => x = "ok"
    BY <2>1, <2>4 DEF TypeInv, TypeOK, Proc
  <2>6. \A t \in Services : Greatest(t, AcceptedServices)' => t = s
    BY <2>1, RequestAssumption DEF Greatest, AcceptedServices, attempt
  <2> QED
    BY <2>1, <2>3, <2>5, <2>6 DEF UndoneIsFree, attempt
<1>2. CASE pc'["serve"] # "undone"
  BY <1>2 DEF UndoneIsFree
<1>3. CASE /\ pc'["serve"] = pc["serve"]
           /\ outcome'["serve"] = outcome["serve"]
           /\ acc' = acc
  <2>1. \A t \in Services : acc[t].rid \in Nat /\ acc[t].rid < nextId
    BY DEF TypeInv, TypeOK, Accepted, FreshIds
  <2>2. AcceptedServices' = AcceptedServices
    BY <1>3 DEF AcceptedServices
  <2>3. \A t \in Services : acc[t].rid \notin held[t] => acc[t].rid \notin held'[t]
    BY <1>0, <2>1 DEF NoRevival
  <2> QED
    BY <1>3, <2>2, <2>3 DEF UndoneIsFree, Greatest
<1>4. CASE ReserveStep
  <2>1. pc' \in [Proc -> Labels] /\ pc \in [Proc -> Labels]
    BY DEF TypeInv, TypeOK
  <2> QED
    BY <1>1, <1>2, <1>4, <2>1
       DEF ReserveStep, BeginReserve, BeginAllocation, Resolve, ReserveCall,
           RecordResult, Accept, BeginRollback, RecordUndo, Settle, Finish,
           StartRollback, Goto, Return, Proc
<1>5. CASE (\E r \in Releases : BeginRelease(r)) \/ VerifyRelease
  <2>1. pc \in [Proc -> Labels]
    BY DEF TypeInv, TypeOK
  <2> QED
    BY <1>2, <1>5, <2>1
       DEF BeginRelease, VerifyRelease, ReadRows, Goto, Return, Proc
<1>6. CASE RetryRelease
  BY <1>3, <1>6
     DEF RetryRelease, ReadRows, Goto, attempt, TypeInv, TypeOK, Proc
<1>7. CASE \E p \in Proc : ReleaseStep(p)
  <2>1. CASE ReleaseStep("serve")
    <3>1. pc \in [Proc -> Labels]
      BY DEF TypeInv, TypeOK
    <3> QED
      BY <1>2, <2>1, <3>1
         DEF ReleaseStep, SkipTerminal, ReleaseCall, RecordRelease,
             CompleteRelease, NextRow, Goto, Return, Proc
  <2>2. CASE ReleaseStep("admin")
    <3>1. pc \in [Proc -> Labels] /\ outcome \in [Proc -> Outcomes]
      BY DEF TypeInv, TypeOK
    <3>2. /\ pc'["serve"] = pc["serve"]
          /\ outcome'["serve"] = outcome["serve"]
          /\ acc' = acc
      BY <2>2, <3>1
         DEF ReleaseStep, SkipTerminal, ReleaseCall, RecordRelease,
             CompleteRelease, NextRow, Goto, Return, attempt, Proc
    <3> QED
      BY <1>3, <3>2
  <2> QED
    BY <1>7, <2>1, <2>2 DEF Proc
<1>8. CASE Fault
  <2>1. CASE (\E c \in stray : StrayRuns(c)) \/ (\E s \in Services : QpmRestart(s))
    BY <1>3, <2>1 DEF StrayRuns, QpmRestart, loop, attempt
  <2>2. CASE Cancel \/ \E p \in Proc : JournalFails(p) \/ Crash(p)
    <3>1. PICK p \in Proc : Return(p)
      BY <2>2 DEF Cancel, JournalFails, Crash, Abandon, Proc
    <3>2. CASE p = "serve"
      BY <1>2, <3>1, <3>2, ReturnType DEF TypeInv
    <3>3. CASE p = "admin"
      BY <1>3, <3>1, <3>3, ReturnType DEF TypeInv, Return, attempt, Proc
    <3> QED
      BY <3>2, <3>3 DEF Proc
  <2> QED
    BY <1>8, <2>1, <2>2 DEF Fault
<1>9. CASE UNCHANGED vars
  BY <1>3, <1>9 DEF vars, loop, attempt
<1> QED
  BY <1>4, <1>5, <1>6, <1>7, <1>8, <1>9 DEF Next

\* The rows that a step writes.
LEMMA StepWritesRow ==
  ASSUME TypeInv, [Next]_vars
  PROVE  \/ rows' = rows
         \/ /\ pc["serve"] = "resolve"
            /\ \E s \in Services : /\ Least(s, todo["serve"])
                                   /\ rows' = RecordReservation(rows, s, PendingRow(s))
         \/ /\ pc["serve"] = "record"
            /\ \E s \in Services : /\ Least(s, todo["serve"])
                                   /\ rows' = RecordReservation(rows, s, ResultRow(s))
         \/ /\ pc["serve"] = "undone"
            /\ \E s \in Services : /\ Greatest(s, AcceptedServices)
                                   /\ rows' = RecordReservation(rows, s, UndoRow(s))
         \/ \E p \in Proc :
              /\ pc[p] = "released"
              /\ \E s \in Services : /\ Least(s, todo[p])
                                     /\ rows' = RecordReservation(rows, s, ReleasedRow(p, s))
<1>1. CASE ReserveStep
  BY <1>1
     DEF ReserveStep, BeginReserve, BeginAllocation, Resolve, ReserveCall,
         RecordResult, Accept, BeginRollback, UndoCall, RecordUndo, Settle,
         Finish, journal
<1>2. CASE \E p \in Proc : ReleaseStep(p)
  BY <1>2
     DEF ReleaseStep, SkipTerminal, ReleaseCall, RecordRelease,
         CompleteRelease, journal
<1>3. CASE (\E r \in Releases : BeginRelease(r)) \/ VerifyRelease \/ RetryRelease
           \/ Fault \/ UNCHANGED vars
  BY <1>3
     DEF BeginRelease, VerifyRelease, RetryRelease, Fault, Cancel, JournalFails,
         Crash, Abandon, StrayRuns, QpmRestart, vars, journal
<1> QED
  BY <1>1, <1>2, <1>3 DEF Next

\* So is RolledBackIsFree.
LEMMA RolledBackStep ==
  ASSUME TypeInv, TypeInv', FreshIds, UndoneIsFree, RolledBackIsFree, [Next]_vars
  PROVE  RolledBackIsFree'
<1>0. NoRevival
  BY StepRevivesNone
<1>1. \A t \in Services : rows[t].rid \in Nat /\ rows[t].rid < nextId
  BY DEF TypeInv, TypeOK, Row, FreshIds
<1>2. \A t \in Services : rows[t].rid \notin held[t] => rows[t].rid \notin held'[t]
  BY <1>0, <1>1 DEF NoRevival
<1>3. SUFFICES ASSUME NEW s \in Services, NEW row \in Row,
                      rows' = RecordReservation(rows, s, row),
                      row.state = "rolled-back"
               PROVE  row.rid \notin held'[s]
  <2>1. CASE rows' = rows
    BY <1>2, <2>1 DEF RolledBackIsFree
  <2>2. CASE \E s \in Services : \E row \in Row :
               rows' = RecordReservation(rows, s, row)
    <3>1. PICK s \in Services, row \in Row : rows' = RecordReservation(rows, s, row)
      BY <2>2
    <3>2. rows'[s] = row /\ \A t \in Services \ {s} : rows'[t] = rows[t]
      BY <3>1, RecordedRow DEF TypeInv
    <3>3. row.state = "rolled-back" => row.rid \notin held'[s]
      BY <1>3, <3>1
    <3> QED
      BY <1>2, <3>2, <3>3 DEF RolledBackIsFree
  <2> QED
    BY <2>1, <2>2, StepWritesRow, RowsWritten, ReleasedRowWritten
<1>4. rows'[s] = row
  BY <1>3, RecordedRow DEF TypeInv
<1>5. CASE rows' = rows
  BY <1>2, <1>3, <1>4, <1>5 DEF RolledBackIsFree
<1>6. CASE rows' # rows
  <2>1. \A t \in Services : \A w \in Row :
          rows' = RecordReservation(rows, t, w) => t = s /\ w = row
    BY <1>3, <1>4, <1>6 DEF RecordReservation, TypeInv, TypeOK
  <2>2. /\ row # PendingRow(s)
        /\ \A p \in Proc : row # ReleasedRow(p, s)
    BY <1>3, ReleasedRowWritten DEF PendingRow, ReleasedState
  <2>3. pc["serve"] = "record" => row # ResultRow(s)
    BY <1>3 DEF ResultRow, TypeInv, Control
  <2>4. pc["serve"] = "undone" /\ Greatest(s, AcceptedServices) /\ row = UndoRow(s)
    BY <1>6, <2>1, <2>2, <2>3, StepWritesRow, RowsWritten, ReleasedRowWritten
  <2>5. outcome["serve"] = "ok" /\ row.rid = acc[s].rid
    BY <1>3, <2>4 DEF UndoRow
  <2>6. acc[s].rid \notin held[s]
    BY <2>4, <2>5 DEF UndoneIsFree
  <2>7. acc[s].rid \in Nat /\ acc[s].rid < nextId
    BY DEF TypeInv, TypeOK, Accepted, FreshIds
  <2> QED
    BY <1>0, <2>5, <2>6, <2>7 DEF NoRevival
<1> QED
  BY <1>5, <1>6

RollbackInv == TypeInv /\ FreshIds /\ UndoneIsFree /\ RolledBackIsFree

\* When no QPM refuses a release with a reply, a reservation row is marked rolled
\* back by _rollback only once its QPM has dropped the reservation, whatever
\* interleaving of the daemon, the operator's command, timeouts and crashes.
THEOREM RollbackSafe ==
  ASSUME "refuse" \notin Events
  PROVE  Spec => []RolledBackIsFree
<1>1. Init => RollbackInv
  <2> SUFFICES ASSUME Init PROVE FreshIds /\ UndoneIsFree /\ RolledBackIsFree
    BY InitType DEF RollbackInv
  <2>1. FreshIds
    BY DEF Init, FreshIds, NoRows, NoRow, NoneAccepted, Proc
  <2>2. UndoneIsFree /\ RolledBackIsFree
    BY DEF Init, UndoneIsFree, RolledBackIsFree, Proc
  <2> QED
    BY <2>1, <2>2
<1>2. RollbackInv /\ [Next]_vars => RollbackInv'
  BY NextType, FreshStep, UndoneStep, RolledBackStep DEF RollbackInv
<1>3. RollbackInv => RolledBackIsFree
  BY DEF RollbackInv
<1> QED
  BY <1>1, <1>2, <1>3, PTL DEF Spec

-----------------------------------------------------------------------------
(* A plain job: the journal never forgets a reservation that is held.      *)

OwnInv ==
  /\ OneContent
  /\ HeldByIncarnation
  /\ TerminalIsFree
  /\ CleanStart
  /\ AttemptOwnsRows
  /\ ReleaseCoversRows

\* What a step leaves of the ids in use.
OldIds ==
  \A t \in Services :
    /\ rows[t].rid \in held'[t] => rows[t].rid \in held[t]
    /\ acc[t].rid \in held'[t] => acc[t].rid \in held[t]
    /\ 0 \notin held[t] /\ 0 \notin held'[t]
    /\ held'[t] # {} => runtime'[t] = runtime[t]

\* A step revives no id in use, and a QPM that still holds one has not restarted.
LEMMA OldIdsStep ==
  ASSUME TypeInv, FreshIds, [Next]_vars
  PROVE  OldIds
<1>1. NoRevival
  BY StepRevivesNone
<1>2. \A t \in Services : /\ rows[t].rid \in Nat /\ rows[t].rid < nextId
                          /\ acc[t].rid \in Nat /\ acc[t].rid < nextId
  BY DEF TypeInv, TypeOK, Row, Accepted, FreshIds
<1>3. \A t \in Services : 0 \notin held[t]
  BY DEF FreshIds
<1> QED
  BY <1>1, <1>2, <1>3 DEF NoRevival, OldIds

\* A step that changes the QPMs only.
LEMMA FrameOwn ==
  ASSUME TypeInv, OwnInv, OldIds,
         UNCHANGED <<alloc, rows, pc, todo, snap, outcome, failed, plan, acc, bind>>
  PROVE  OwnInv'
<1>1. OneContent'
  BY DEF OwnInv, OneContent, Attempting
<1>2. HeldByIncarnation'
  BY DEF OwnInv, HeldByIncarnation, OldIds
<1>3. TerminalIsFree'
  BY DEF OwnInv, TerminalIsFree, OldIds
<1>4. AttemptOwnsRows'
  <2>1. AcceptedServices' = AcceptedServices
    BY DEF AcceptedServices
  <2> QED
    BY <2>1 DEF OwnInv, AttemptOwnsRows, Attempting, OldIds, Least
<1>5. ReleaseCoversRows'
  BY DEF OwnInv, ReleaseCoversRows, Releasing, OldIds, Least
<1>6. CleanStart'
  BY DEF OwnInv, CleanStart, AcceptedServices
<1> QED
  BY <1>1, <1>2, <1>3, <1>4, <1>5, <1>6 DEF OwnInv

\* The daemon returns and has written nothing about the allocation.
LEMMA ReturnOwn ==
  ASSUME TypeInv, OwnInv, OldIds, Return("serve"), UNCHANGED <<alloc, rows>>
  PROVE  OwnInv'
<1>1. /\ pc'["serve"] = "idle"
      /\ pc'["admin"] = pc["admin"]
      /\ failed'["serve"] = FALSE
      /\ plan' = NoPlan
      /\ \A s \in Services : acc'[s].rid = 0
  BY DEF TypeInv, TypeOK, Return, Proc, NoneAccepted
<1>2. ~ Attempting' /\ ~ Releasing'
  BY <1>1 DEF Attempting, Releasing
<1>3. OneContent'
  BY <1>1, <1>2 DEF OwnInv, OneContent, NoPlan
<1>4. HeldByIncarnation'
  BY <1>1 DEF OwnInv, HeldByIncarnation, OldIds
<1>5. TerminalIsFree'
  BY DEF OwnInv, TerminalIsFree, OldIds
<1>6. AttemptOwnsRows' /\ ReleaseCoversRows' /\ CleanStart'
  BY <1>1, <1>2 DEF AttemptOwnsRows, ReleaseCoversRows, CleanStart, AcceptedServices
<1> QED
  BY <1>3, <1>4, <1>5, <1>6 DEF OwnInv

\* OwnInv when an operation begins.
LEMMA BeginOwn ==
  ASSUME TypeInv, OwnInv, OldIds,
         \/ \E r \in Reserves : BeginReserve(r)
         \/ \E r \in Releases : BeginRelease(r)
  PROVE  OwnInv'
<1>1. /\ pc["serve"] = "idle"
      /\ pc'["serve"] \in {"allocate", "verify"}
      /\ pc'["admin"] = pc["admin"]
      /\ UNCHANGED <<alloc, rows, failed, plan, acc, held, runtime>>
  BY DEF TypeInv, TypeOK, BeginReserve, BeginRelease, Goto, Proc, loop, attempt, qpm
<1>2. ~ Attempting' /\ ~ Releasing'
  BY <1>1 DEF Attempting, Releasing
<1>3. OneContent' /\ HeldByIncarnation' /\ TerminalIsFree'
  BY <1>1, <1>2
     DEF OwnInv, OneContent, HeldByIncarnation, TerminalIsFree
<1>4. AttemptOwnsRows' /\ ReleaseCoversRows' /\ CleanStart'
  BY <1>1, <1>2
     DEF OwnInv, AttemptOwnsRows, ReleaseCoversRows, CleanStart, AcceptedServices
<1> QED
  BY <1>3, <1>4 DEF OwnInv

\* Only an allocation that holds nothing is reserved again, and none extended.
LEMMA BeginAllocationOwn ==
  ASSUME PlainJob, TypeInv, FreshIds, OwnInv, OldIds, BeginAllocation
  PROVE  OwnInv'
<1> DEFINE r == req["serve"]
<1>0. r \in Reserves /\ pc["serve"] = "allocate" /\ read = alloc
  BY DEF TypeInv, Control, ReadCurrent, PlainJob, BeginAllocation
<1>1. UNCHANGED <<ops, rows, held, runtime>>
  BY DEF BeginAllocation, qpm
<1>2. CASE Return("serve") /\ UNCHANGED alloc
  BY <1>1, <1>2, ReturnOwn
<1>3. CASE Goto("serve", "finish") /\ UNCHANGED <<alloc, req, loop, plan, acc, bind>>
  <2>1. /\ pc'["serve"] = "finish"
        /\ pc'["admin"] = pc["admin"]
        /\ failed' = failed
    BY <1>3 DEF TypeInv, TypeOK, Goto, Proc, loop
  <2>2. ~ Attempting' /\ ~ Releasing'
    BY <2>1 DEF Attempting, Releasing
  <2>3. OneContent' /\ HeldByIncarnation' /\ TerminalIsFree'
    BY <1>1, <1>3, <2>1, <2>2
       DEF OwnInv, OneContent, HeldByIncarnation, TerminalIsFree
  <2>4. AttemptOwnsRows' /\ ReleaseCoversRows' /\ CleanStart'
    BY <2>1, <2>2 DEF AttemptOwnsRows, ReleaseCoversRows, CleanStart
  <2> QED
    BY <2>3, <2>4 DEF OwnInv
<1>4. ~ AllocationExtends(alloc, rows, r)
  BY <1>0 DEF OwnInv, OneContent, AllocationExtends, Missing
<1>5. CASE /\ AllocationReserves(alloc, rows, r)
           /\ todo' = [todo EXCEPT !["serve"] = r.services]
           /\ alloc' = ReserveAllocation(alloc, r)
           /\ Goto("serve", "resolve")
           /\ UNCHANGED <<req, snap, outcome, failed, plan, acc, bind, answer>>
  <2>1. alloc.state \in {"none", "delayed", "rolled-back"}
    BY <1>0, <1>5 DEF OwnInv, OneContent, AllocationReserves
  <2>2. \A s \in Services : rows[s].rid \notin held[s]
    BY <2>1 DEF OwnInv, TerminalIsFree
  <2>3. /\ pc'["serve"] = "resolve"
        /\ pc'["admin"] = pc["admin"]
        /\ UNCHANGED <<failed, plan, acc, bind>>
    BY <1>5 DEF TypeInv, TypeOK, Goto, Proc
  <2>4. alloc'.state = "reserving"
    BY <1>5 DEF ReserveAllocation
  <2>5. OneContent'
    <3>1. \A q \in Reserves : /\ alloc'.fingerprint = AllocationFingerprint(q)
                              /\ alloc'.services = q.services
      BY <1>0, <1>5 DEF PlainJob, ReserveAllocation, AllocationFingerprint
    <3> QED
      BY <2>3, <2>4, <3>1 DEF OwnInv, OneContent
  <2>6. HeldByIncarnation' /\ TerminalIsFree'
    BY <1>1, <2>2, <2>3 DEF OwnInv, HeldByIncarnation, TerminalIsFree
  <2>7. ReleaseCoversRows' /\ CleanStart'
    BY <2>3 DEF ReleaseCoversRows, Releasing, CleanStart
  <2>8. AttemptOwnsRows'
    <3>1. ~ failed["serve"] /\ \A s \in Services : acc[s].rid = 0
      BY <1>0 DEF OwnInv, CleanStart, AcceptedServices
    <3>2. todo'["serve"] \subseteq Services
      BY <1>0, <1>5, ReserveParts DEF TypeInv, TypeOK, Proc
    <3> QED
      BY <1>1, <2>2, <2>3, <3>1, <3>2 DEF AttemptOwnsRows, Attempting
  <2> QED
    BY <2>5, <2>6, <2>7, <2>8 DEF OwnInv
<1> QED
  BY <1>0, <1>2, <1>3, <1>4, <1>5 DEF BeginAllocation

\* The least element of a set of services is unique.
LEMMA LeastUnique ==
  ASSUME NEW S \in SUBSET Services, NEW s, NEW t, Least(s, S), Least(t, S)
  PROVE  s = t
BY RequestAssumption DEF Least

\* The daemon goes to "rollback" with what it has accepted.
LEMMA StartRollbackOwn ==
  ASSUME TypeInv, OwnInv, OldIds, NEW k, StartRollback(k),
         pc["serve"] \in {"resolve", "call", "record"},
         UNCHANGED <<alloc, rows, failed, plan, acc>>
  PROVE  OwnInv'
<1>1. pc'["serve"] = "rollback" /\ pc'["admin"] = pc["admin"]
  BY DEF TypeInv, TypeOK, StartRollback, Goto, Proc
<1>2. OneContent'
  BY <1>1 DEF OwnInv, OneContent, Attempting
<1>3. HeldByIncarnation' /\ TerminalIsFree'
  BY DEF OwnInv, HeldByIncarnation, TerminalIsFree, OldIds
<1>4. CleanStart' /\ ReleaseCoversRows'
  BY <1>1 DEF CleanStart, ReleaseCoversRows, Releasing
<1>5. AttemptOwnsRows'
  BY <1>1 DEF OwnInv, AttemptOwnsRows, Attempting, OldIds
<1> QED
  BY <1>2, <1>3, <1>4, <1>5 DEF OwnInv

\* OwnInv at the pending row of a service.
LEMMA ResolveOwn ==
  ASSUME TypeInv, OwnInv, OldIds, Resolve
  PROVE  OwnInv'
<1>1. PICK s \in Services :
        /\ pc["serve"] = "resolve"
        /\ Least(s, todo["serve"])
        /\ UNCHANGED <<alloc, todo, failed, plan, acc, held, runtime>>
        /\ \/ /\ rows' = RecordReservation(rows, s, PendingRow(s))
              /\ Goto("serve", "call")
           \/ /\ StartRollback("failed")
              /\ UNCHANGED rows
  BY DEF Resolve, qpm, loop
<1>2. CASE StartRollback("failed") /\ UNCHANGED rows
  BY <1>1, <1>2, StartRollbackOwn
<1>3. CASE rows' = RecordReservation(rows, s, PendingRow(s)) /\ Goto("serve", "call")
  <2>1. /\ rows'[s].rid = 0
        /\ \A t \in Services \ {s} : rows'[t] = rows[t]
    BY <1>1, <1>3, RecordedRow, RowsWritten DEF TypeInv
  <2>2. pc'["serve"] = "call" /\ pc'["admin"] = pc["admin"]
    BY <1>3 DEF TypeInv, TypeOK, Goto, Proc
  <2>3. OneContent'
    BY <1>1, <2>2 DEF OwnInv, OneContent, Attempting
  <2>4. HeldByIncarnation' /\ TerminalIsFree'
    BY <1>1, <2>1 DEF OwnInv, HeldByIncarnation, TerminalIsFree, OldIds
  <2>5. CleanStart' /\ ReleaseCoversRows'
    BY <2>2 DEF CleanStart, ReleaseCoversRows, Releasing
  <2>6. AttemptOwnsRows'
    <3>1. \A t \in Services : Least(t, todo["serve"])' => t = s
      BY <1>1, LeastUnique DEF TypeInv, TypeOK, Proc, Least
    <3> QED
      BY <1>1, <2>1, <2>2, <3>1 DEF OwnInv, AttemptOwnsRows, Attempting, OldIds
  <2> QED
    BY <2>3, <2>4, <2>5, <2>6 DEF OwnInv
<1> QED
  BY <1>1, <1>2, <1>3

\* OwnInv at the reserve call.
LEMMA ReserveCallOwn ==
  ASSUME TypeInv, FreshIds, OwnInv, OldIds, ReserveCall
  PROVE  OwnInv'
<1>1. PICK s \in Services, x \in {"accepted", "delayed", "rejected", "failed"} :
        /\ pc["serve"] = "call"
        /\ Least(s, todo["serve"])
        /\ QpmReserve(s, bind, x)
        /\ outcome' = [outcome EXCEPT !["serve"] = x]
        /\ IF x = "failed"
           THEN StartRollback("failed") /\ UNCHANGED acc
           ELSE /\ acc' = IF x = "accepted"
                          THEN [acc EXCEPT ![s] = [rid |-> nextId, runtime |-> bind]]
                          ELSE acc
                /\ Goto("serve", "record")
        /\ UNCHANGED <<alloc, rows, todo, failed, plan, bind>>
  BY DEF ReserveCall, journal
<1>2. CASE x = "failed"
  BY <1>1, <1>2, StartRollbackOwn
<1>3. CASE x # "failed"
  <2>1. /\ pc'["serve"] = "record"
        /\ pc'["admin"] = pc["admin"]
        /\ outcome'["serve"] = x
    BY <1>1, <1>3 DEF TypeInv, TypeOK, Goto, Proc
  <2>2. runtime' = runtime /\ (x = "accepted" => runtime[s] = bind)
    BY <1>1, QpmReserveEffect DEF TypeInv
  <2>3. /\ \A t \in Services \ {s} : acc'[t] = acc[t]
        /\ x = "accepted" => acc'[s].rid = nextId /\ acc'[s].runtime = bind
        /\ x # "accepted" => acc' = acc
    BY <1>1, <1>3 DEF TypeInv, TypeOK
  <2>4. nextId # 0
    BY DEF FreshIds
  <2>5. OneContent'
    BY <1>1, <2>1 DEF OwnInv, OneContent, Attempting
  <2>6. HeldByIncarnation'
    BY <1>1, <2>2, <2>3 DEF OwnInv, HeldByIncarnation, OldIds
  <2>7. TerminalIsFree'
    BY <1>1 DEF OwnInv, TerminalIsFree, OldIds
  <2>8. CleanStart' /\ ReleaseCoversRows'
    BY <2>1 DEF CleanStart, ReleaseCoversRows, Releasing
  <2>9. AttemptOwnsRows'
    <3>1. \A t \in Services : Least(t, todo["serve"])' <=> t = s
      BY <1>1, LeastUnique DEF TypeInv, TypeOK, Proc, Least
    <3>2. todo["serve"] \subseteq Services
      BY DEF TypeInv, TypeOK, Proc
    <3>3. \A t \in todo["serve"] : acc[t].rid = 0
      BY <1>1 DEF OwnInv, AttemptOwnsRows, Attempting
    <3>4. ~ failed["serve"] /\ rows[s].rid = 0
      BY <1>1 DEF OwnInv, AttemptOwnsRows, Attempting
    <3>5. \A t \in Services : rows[t].rid \in held'[t] =>
            IF acc'[t].rid # 0 THEN rows[t].rid = acc'[t].rid ELSE failed["serve"]
      BY <1>1, <2>3, <3>4 DEF OwnInv, AttemptOwnsRows, Attempting, OldIds
    <3>6. \A t \in todo["serve"] :
            IF t = s /\ x = "accepted"
            THEN acc'[t].rid # 0 /\ acc'[t].runtime = bind
            ELSE acc'[t].rid = 0
      BY <2>3, <2>4, <3>2, <3>3
    <3> QED
      BY <1>1, <2>1, <3>1, <3>2, <3>4, <3>5, <3>6
         DEF AttemptOwnsRows, Attempting
  <2> QED
    BY <2>5, <2>6, <2>7, <2>8, <2>9 DEF OwnInv
<1> QED
  BY <1>2, <1>3

\* OwnInv when its result is recorded, or cannot be.
LEMMA RecordResultOwn ==
  ASSUME TypeInv, OwnInv, OldIds, RecordResult
  PROVE  OwnInv'
<1>1. PICK s \in Services :
        /\ pc["serve"] = "record"
        /\ Least(s, todo["serve"])
        /\ UNCHANGED <<alloc, failed, plan, acc, bind, held, runtime>>
        /\ \/ /\ rows' = RecordReservation(rows, s, ResultRow(s))
              /\ todo' = [todo EXCEPT !["serve"] = @ \ {s}]
              /\ IF outcome["serve"] # "accepted"
                 THEN StartRollback(outcome["serve"])
                 ELSE Goto("serve", IF todo["serve"] = {s} THEN "accept"
                                                           ELSE "resolve")
           \/ StartRollback("failed") /\ UNCHANGED rows
  BY DEF RecordResult, qpm
<1>2. CASE StartRollback("failed") /\ UNCHANGED rows
  BY <1>1, <1>2, StartRollbackOwn
<1>3. CASE /\ rows' = RecordReservation(rows, s, ResultRow(s))
           /\ todo' = [todo EXCEPT !["serve"] = @ \ {s}]
           /\ IF outcome["serve"] # "accepted"
              THEN StartRollback(outcome["serve"])
              ELSE Goto("serve", IF todo["serve"] = {s} THEN "accept"
                                                        ELSE "resolve")
  <2>1. rows'[s] = ResultRow(s) /\ \A t \in Services \ {s} : rows'[t] = rows[t]
    BY <1>1, <1>3, RecordedRow, RowsWritten DEF TypeInv
  <2>2. /\ rows'[s].rid = acc[s].rid
        /\ rows'[s].runtime = bind
        /\ rows'[s].state = outcome["serve"]
    BY <2>1 DEF ResultRow
  <2>3. /\ outcome["serve"] = "accepted" => acc[s].rid # 0 /\ acc[s].runtime = bind
        /\ outcome["serve"] # "accepted" => acc[s].rid = 0
        /\ \A t \in todo["serve"] \ {s} : acc[t].rid = 0
        /\ ~ failed["serve"]
    <3>1. s \in todo["serve"]
      BY <1>1 DEF Least
    <3>2. \A t \in todo["serve"] : Least(t, todo["serve"]) => t = s
      BY <1>1, LeastUnique DEF TypeInv, TypeOK, Proc
    <3> QED
      BY <1>1, <3>1, <3>2 DEF OwnInv, AttemptOwnsRows, Attempting
  <2>4. /\ pc'["serve"] \in {"rollback", "accept", "resolve"}
        /\ pc'["admin"] = pc["admin"]
        /\ todo'["serve"] = todo["serve"] \ {s}
    BY <1>3 DEF TypeInv, TypeOK, StartRollback, Goto, Proc
  <2>5. OneContent'
    BY <1>1, <2>4 DEF OwnInv, OneContent, Attempting
  <2>6. HeldByIncarnation'
    BY <1>1, <2>1, <2>2, <2>3 DEF OwnInv, HeldByIncarnation, OldIds
  <2>7. TerminalIsFree'
    <3>1. alloc.state \in {"reserving", "rolling-back"}
      BY <1>1 DEF OwnInv, OneContent, Attempting
    <3>2. outcome["serve"] = "accepted" \/ acc[s].rid = 0
      BY <2>3
    <3> QED
      BY <1>1, <2>1, <2>2, <3>1, <3>2
         DEF OwnInv, TerminalIsFree, OldIds, TerminalRows
  <2>8. CleanStart' /\ ReleaseCoversRows'
    BY <2>4 DEF CleanStart, ReleaseCoversRows, Releasing
  <2>9. AttemptOwnsRows'
    BY <1>1, <2>1, <2>2, <2>3, <2>4
       DEF OwnInv, AttemptOwnsRows, Attempting, OldIds
  <2> QED
    BY <2>5, <2>6, <2>7, <2>8, <2>9 DEF OwnInv
<1> QED
  BY <1>1, <1>2, <1>3

\* OwnInv when the set is accepted.
LEMMA AcceptOwn ==
  ASSUME TypeInv, OwnInv, OldIds, Accept
  PROVE  OwnInv'
<1>1. /\ pc["serve"] = "accept"
      /\ pc'["serve"] = "finish"
      /\ pc'["admin"] = pc["admin"]
      /\ UNCHANGED <<rows, plan, acc, held, runtime>>
  BY DEF TypeInv, TypeOK, Accept, Goto, Proc, qpm, loop
<1>2. /\ alloc'.state = "accepted"
      /\ alloc'.fingerprint = alloc.fingerprint
      /\ alloc'.services = alloc.services
  BY DEF TypeInv, TypeOK, Accept, CompleteAllocation, Allocation
<1>3. OneContent'
  BY <1>1, <1>2 DEF OwnInv, OneContent, Attempting
<1>4. HeldByIncarnation'
  BY <1>1 DEF OwnInv, HeldByIncarnation
<1>5. TerminalIsFree'
  BY <1>1, <1>2 DEF OwnInv, TerminalIsFree
<1>6. CleanStart' /\ AttemptOwnsRows' /\ ReleaseCoversRows'
  BY <1>1 DEF CleanStart, AttemptOwnsRows, Attempting, ReleaseCoversRows, Releasing
<1> QED
  BY <1>3, <1>4, <1>5, <1>6 DEF OwnInv

\* OwnInv when the rollback starts.
LEMMA BeginRollbackOwn ==
  ASSUME TypeInv, OwnInv, OldIds, BeginRollback
  PROVE  OwnInv'
<1>1. /\ pc["serve"] = "rollback"
      /\ pc'["serve"] = IF AcceptedServices = {} THEN "settle" ELSE "undo"
      /\ pc'["admin"] = pc["admin"]
      /\ UNCHANGED <<rows, plan, acc, bind, held, runtime>>
  BY DEF TypeInv, TypeOK, BeginRollback, Goto, Proc, qpm, attempt
<1>2. /\ alloc'.state \in {alloc.state, "rolling-back"}
      /\ alloc'.fingerprint = alloc.fingerprint
      /\ alloc'.services = alloc.services
  BY DEF TypeInv, TypeOK, BeginRollback, SetAllocationState, Allocation
<1>3. AcceptedServices' = AcceptedServices
  BY <1>1 DEF AcceptedServices
<1>4. OneContent'
  BY <1>1, <1>2 DEF OwnInv, OneContent, Attempting
<1>5. HeldByIncarnation'
  BY <1>1 DEF OwnInv, HeldByIncarnation
<1>6. TerminalIsFree'
  BY <1>1, <1>2 DEF OwnInv, OneContent, Attempting, TerminalIsFree
<1>7. CleanStart' /\ ReleaseCoversRows'
  BY <1>1 DEF CleanStart, ReleaseCoversRows, Releasing
<1>8. AttemptOwnsRows'
  <2>1. \A s \in Services : rows[s].rid \in held[s] =>
          acc[s].rid # 0 /\ rows[s].rid = acc[s].rid
    BY <1>1 DEF OwnInv, AttemptOwnsRows, Attempting
  <2> QED
    BY <1>1, <1>3, <2>1 DEF AttemptOwnsRows, Attempting
<1> QED
  BY <1>4, <1>5, <1>6, <1>7, <1>8 DEF OwnInv

\* OwnInv at the rollback's release call.
LEMMA UndoCallOwn ==
  ASSUME PlainJob, TypeInv, FreshIds, OwnInv, OldIds, UndoCall
  PROVE  OwnInv'
<1>1. PICK s \in Services, x \in {"ok", "failed", "refused"} :
        /\ pc["serve"] = "undo"
        /\ QpmRelease(s, acc[s].rid, acc[s].runtime, x)
        /\ outcome' = [outcome EXCEPT !["serve"] =
                         IF x = "failed" THEN "failed" ELSE "ok"]
        /\ failed' = [failed EXCEPT !["serve"] = @ \/ x = "failed"]
        /\ Goto("serve", "undone")
        /\ UNCHANGED <<alloc, rows, plan, acc, bind>>
  BY DEF UndoCall, journal, attempt
<1>2. /\ pc'["serve"] = "undone"
      /\ pc'["admin"] = pc["admin"]
      /\ outcome'["serve"] = IF x = "failed" THEN "failed" ELSE "ok"
      /\ failed'["serve"] = (failed["serve"] \/ x = "failed")
  BY <1>1 DEF TypeInv, TypeOK, Goto, Proc
<1>3. OneContent'
  BY <1>1, <1>2 DEF OwnInv, OneContent, Attempting
<1>4. HeldByIncarnation' /\ TerminalIsFree'
  BY <1>1 DEF OwnInv, HeldByIncarnation, TerminalIsFree, OldIds
<1>5. CleanStart' /\ ReleaseCoversRows'
  BY <1>2 DEF CleanStart, ReleaseCoversRows, Releasing
<1>6. AttemptOwnsRows'
  <2>1. \A t \in Services : rows[t].rid \in held'[t] =>
          IF acc[t].rid # 0 THEN rows[t].rid = acc[t].rid ELSE failed["serve"]
    BY <1>1 DEF OwnInv, AttemptOwnsRows, Attempting, OldIds
  <2> QED
    BY <1>1, <1>2, <2>1 DEF AttemptOwnsRows, Attempting
<1> QED
  BY <1>3, <1>4, <1>5, <1>6 DEF OwnInv

\* OwnInv at its row.
LEMMA RecordUndoOwn ==
  ASSUME TypeInv, FreshIds, UndoneIsFree, OwnInv, OldIds, RecordUndo
  PROVE  OwnInv'
<1>1. PICK s \in Services :
        /\ pc["serve"] = "undone"
        /\ Greatest(s, AcceptedServices)
        /\ \/ rows' = RecordReservation(rows, s, UndoRow(s)) /\ UNCHANGED failed
           \/ /\ failed' = [failed EXCEPT !["serve"] = TRUE]
              /\ UNCHANGED rows
        /\ acc' = [acc EXCEPT ![s] = [rid |-> 0, runtime |-> 0]]
        /\ Goto("serve", IF AcceptedServices = {s} THEN "settle" ELSE "undo")
        /\ UNCHANGED <<alloc, plan, bind, held, runtime>>
  BY DEF RecordUndo, qpm
<1>2. /\ pc'["serve"] = IF AcceptedServices = {s} THEN "settle" ELSE "undo"
      /\ pc'["admin"] = pc["admin"]
  BY <1>1 DEF TypeInv, TypeOK, Goto, Proc
<1>3. /\ acc'[s].rid = 0
      /\ \A t \in Services \ {s} : acc'[t] = acc[t]
  BY <1>1 DEF TypeInv, TypeOK
<1>4. /\ \A t \in Services \ {s} : rows'[t] = rows[t]
      /\ \/ /\ rows'[s] = rows[s]
            /\ failed'["serve"] = TRUE
         \/ /\ rows'[s] = UndoRow(s)
            /\ failed'["serve"] = failed["serve"]
  BY <1>1, RecordedRow, RowsWritten DEF TypeInv, TypeOK, Proc
<1>5. /\ UndoRow(s).rid = acc[s].rid
      /\ UndoRow(s).runtime = acc[s].runtime
      /\ UndoRow(s).state = IF outcome["serve"] = "ok"
                            THEN "rolled-back" ELSE "rollback-failed"
  BY DEF UndoRow
<1>6. /\ outcome["serve"] = "ok" => acc[s].rid \notin held[s]
      /\ outcome["serve"] # "ok" => failed["serve"]
  BY <1>1 DEF UndoneIsFree, OwnInv, AttemptOwnsRows, Attempting
<1>7. OneContent'
  BY <1>1, <1>2 DEF OwnInv, OneContent, Attempting
<1>8. HeldByIncarnation'
  <2>1. \A t \in Services \ {s} : /\ rows'[t].rid \in held[t] => rows'[t].runtime = runtime[t]
                                  /\ acc'[t].rid \in held[t] => acc'[t].runtime = runtime[t]
    BY <1>3, <1>4 DEF OwnInv, HeldByIncarnation
  <2>2. /\ rows'[s].rid \in held[s] => rows'[s].runtime = runtime[s]
        /\ acc'[s].rid \notin held[s]
    BY <1>3, <1>4, <1>5 DEF OwnInv, HeldByIncarnation, OldIds
  <2> QED
    BY <1>1, <2>1, <2>2 DEF HeldByIncarnation
<1>9. TerminalIsFree'
  <2>1. alloc.state \in {"reserving", "rolling-back"}
    BY <1>1 DEF OwnInv, OneContent, Attempting
  <2>2. rows'[s].state \in TerminalRows => rows'[s].rid \notin held[s]
    BY <1>4, <1>5, <1>6 DEF OwnInv, TerminalIsFree, TerminalRows
  <2> QED
    BY <1>1, <1>4, <2>1, <2>2 DEF OwnInv, TerminalIsFree
<1>10. CleanStart' /\ ReleaseCoversRows'
  BY <1>2 DEF CleanStart, ReleaseCoversRows, Releasing
<1>11. AttemptOwnsRows'
  <2>1. \A t \in Services : rows'[t].rid \in held[t] =>
          IF acc'[t].rid # 0 THEN rows'[t].rid = acc'[t].rid ELSE failed'["serve"]
    <3>1. \A t \in Services \ {s} : rows[t].rid \in held[t] =>
            IF acc[t].rid # 0 THEN rows[t].rid = acc[t].rid ELSE failed["serve"]
      BY <1>1 DEF OwnInv, AttemptOwnsRows, Attempting
    <3>2. rows'[s].rid \in held[s] => failed'["serve"]
      BY <1>4, <1>5, <1>6
    <3>3. failed["serve"] => failed'["serve"]
      BY <1>4
    <3> QED
      BY <1>3, <1>4, <3>1, <3>2, <3>3
  <2>2. AcceptedServices = {s} => AcceptedServices' = {}
    BY <1>3 DEF AcceptedServices
  <2> QED
    BY <1>1, <1>2, <2>1, <2>2 DEF AttemptOwnsRows, Attempting
<1> QED
  BY <1>7, <1>8, <1>9, <1>10, <1>11 DEF OwnInv

\* OwnInv when the allocation is settled after a rollback.
LEMMA SettleOwn ==
  ASSUME TypeInv, OwnInv, OldIds, Settle
  PROVE  OwnInv'
<1>1. /\ pc["serve"] = "settle"
      /\ ~ plan.extends
      /\ UNCHANGED <<rows, held, runtime>>
  BY DEF OwnInv, OneContent, Settle, qpm
<1>2. CASE failed["serve"]
  BY <1>1, <1>2, ReturnOwn DEF Settle
<1>3. CASE ~ failed["serve"]
  <2>1. /\ pc'["serve"] = "finish"
        /\ pc'["admin"] = pc["admin"]
        /\ UNCHANGED <<plan, acc>>
    BY <1>3 DEF TypeInv, TypeOK, Settle, Goto, Proc, attempt
  <2>2. /\ alloc'.state # "none"
        /\ alloc'.fingerprint = alloc.fingerprint
        /\ alloc'.services = alloc.services
    BY <1>1, <1>3
       DEF TypeInv, TypeOK, Control, Settle, CompleteAllocation, SettledState,
           Allocation
  <2>3. \A s \in Services : rows[s].rid \notin held[s]
    BY <1>1, <1>3 DEF OwnInv, AttemptOwnsRows, Attempting, AcceptedServices
  <2>4. OneContent'
    BY <1>1, <2>1, <2>2 DEF OwnInv, OneContent, Attempting
  <2>5. HeldByIncarnation' /\ TerminalIsFree'
    BY <1>1, <2>1, <2>3 DEF OwnInv, HeldByIncarnation, TerminalIsFree
  <2>6. CleanStart' /\ AttemptOwnsRows' /\ ReleaseCoversRows'
    BY <2>1 DEF CleanStart, AttemptOwnsRows, Attempting, ReleaseCoversRows, Releasing
  <2> QED
    BY <2>4, <2>5, <2>6 DEF OwnInv
<1> QED
  BY <1>2, <1>3

\* OwnInv when the operation is completed.
LEMMA FinishOwn ==
  ASSUME TypeInv, OwnInv, OldIds, Finish
  PROVE  OwnInv'
BY ReturnOwn DEF Finish

\* OwnInv when a release reads the rows.
LEMMA VerifyReleaseOwn ==
  ASSUME TypeInv, FreshIds, OwnInv, OldIds, VerifyRelease
  PROVE  OwnInv'
<1>1. pc["serve"] = "verify" /\ UNCHANGED <<alloc, rows, held, runtime>>
  BY DEF VerifyRelease, journal, qpm
<1>2. CASE Return("serve")
  BY <1>1, <1>2, ReturnOwn
<1>3. CASE ReadRows("serve") /\ UNCHANGED <<req, outcome, failed, attempt>>
  <2>1. /\ pc'["serve"] \in {"release", "tidy"}
        /\ pc'["serve"] = "tidy" => todo'["serve"] = {}
        /\ pc'["admin"] = pc["admin"]
        /\ todo'["serve"] = {s \in Services : rows[s].rid # 0}
        /\ snap'["serve"] = rows
        /\ UNCHANGED <<failed, plan, acc>>
    BY <1>3 DEF TypeInv, TypeOK, ReadRows, Goto, Proc, attempt
  <2>2. ~ Attempting'
    BY <2>1 DEF Attempting
  <2>3. OneContent' /\ HeldByIncarnation' /\ TerminalIsFree'
    BY <1>1, <2>1, <2>2
       DEF OwnInv, OneContent, HeldByIncarnation, TerminalIsFree
  <2>4. CleanStart' /\ AttemptOwnsRows'
    BY <2>1, <2>2 DEF CleanStart, AttemptOwnsRows
  <2>5. ReleaseCoversRows'
    BY <1>1, <2>1 DEF ReleaseCoversRows, Releasing, OldIds
  <2> QED
    BY <2>3, <2>4, <2>5 DEF OwnInv
<1> QED
  BY <1>2, <1>3 DEF VerifyRelease

\* What going on to the next row changes.
LEMMA NextRowParts ==
  ASSUME TypeInv, NEW s \in Services, s \in todo["serve"], NextRow("serve", s)
  PROVE  /\ pc'["serve"] \in {"release", "tidy"}
         /\ pc'["admin"] = pc["admin"]
         /\ todo'["serve"] = todo["serve"] \ {s}
         /\ pc'["serve"] = "tidy" => todo'["serve"] = {}
BY DEF TypeInv, TypeOK, NextRow, Goto, Proc

\* A terminal row names nothing that is held, so passing it loses nothing.
LEMMA SkipTerminalOwn ==
  ASSUME TypeInv, OwnInv, OldIds, SkipTerminal("serve")
  PROVE  OwnInv'
<1>1. PICK s \in Services :
        /\ pc["serve"] = "release"
        /\ Least(s, todo["serve"])
        /\ snap["serve"][s].state \in TerminalRows
        /\ NextRow("serve", s)
        /\ UNCHANGED <<alloc, rows, held, runtime, snap, failed, plan, acc>>
  BY DEF SkipTerminal, journal, qpm, attempt
<1>2. s \in todo["serve"]
  BY <1>1 DEF Least
<1>3. /\ pc'["serve"] \in {"release", "tidy"}
      /\ pc'["admin"] = pc["admin"]
      /\ todo'["serve"] = todo["serve"] \ {s}
      /\ pc'["serve"] = "tidy" => todo'["serve"] = {}
  BY <1>1, <1>2, NextRowParts
<1>4. ~ Attempting'
  BY <1>3 DEF Attempting
<1>5. OneContent' /\ HeldByIncarnation' /\ TerminalIsFree'
  BY <1>1, <1>3, <1>4
     DEF OwnInv, OneContent, HeldByIncarnation, TerminalIsFree
<1>6. CleanStart' /\ AttemptOwnsRows'
  BY <1>3, <1>4 DEF CleanStart, AttemptOwnsRows
<1>7. ReleaseCoversRows'
  <2>1. rows[s].rid \notin held[s]
    BY <1>1, <1>2 DEF OwnInv, ReleaseCoversRows, Releasing, TerminalIsFree
  <2> QED
    BY <1>1, <1>3, <2>1 DEF OwnInv, ReleaseCoversRows, Releasing
<1> QED
  BY <1>5, <1>6, <1>7 DEF OwnInv

\* OwnInv at the release call of a row.
LEMMA ReleaseCallOwn ==
  ASSUME TypeInv, FreshIds, OwnInv, OldIds, ReleaseCall("serve")
  PROVE  OwnInv'
<1>1. PICK s \in Services :
        /\ pc["serve"] = "release"
        /\ Least(s, todo["serve"])
        /\ \/ /\ runtime[s] # snap["serve"][s].runtime
              /\ outcome' = [outcome EXCEPT !["serve"] = "stale"]
              /\ UNCHANGED qpm
           \/ outcome' = [outcome EXCEPT !["serve"] = "failed"] /\ UNCHANGED qpm
           \/ \E x \in {"ok", "failed", "refused"} :
                /\ QpmRelease(s, snap["serve"][s].rid, snap["serve"][s].runtime, x)
                /\ outcome' = [outcome EXCEPT !["serve"] =
                                 IF x = "ok" THEN "ok" ELSE "failed"]
        /\ Goto("serve", "released")
        /\ UNCHANGED <<alloc, rows, todo, snap, failed, plan, acc>>
  BY DEF ReleaseCall, journal, attempt
<1>2. s \in todo["serve"]
  BY <1>1 DEF Least
<1>3. snap["serve"][s] = rows[s] /\ rows[s].rid \in Nat
  BY <1>1, <1>2 DEF OwnInv, ReleaseCoversRows, Releasing, TypeInv, TypeOK, Row
<1>4. pc'["serve"] = "released" /\ pc'["admin"] = pc["admin"]
  BY <1>1 DEF TypeInv, TypeOK, Goto, Proc
<1>5. /\ outcome'["serve"] \in {"ok", "stale", "failed"}
      /\ outcome'["serve"] # "failed" => rows[s].rid \notin held'[s]
  <2>1. CASE /\ runtime[s] # snap["serve"][s].runtime
             /\ outcome' = [outcome EXCEPT !["serve"] = "stale"]
             /\ UNCHANGED qpm
    <3>1. rows[s].rid \notin held[s]
      BY <1>3, <2>1 DEF OwnInv, HeldByIncarnation
    <3>2. outcome'["serve"] = "stale"
      BY <2>1 DEF TypeInv, TypeOK, Proc
    <3> QED
      BY <2>1, <3>1, <3>2 DEF qpm
  <2>2. CASE outcome' = [outcome EXCEPT !["serve"] = "failed"]
    BY <2>2 DEF TypeInv, TypeOK, Proc
  <2>3. CASE \E x \in {"ok", "failed", "refused"} :
               /\ QpmRelease(s, snap["serve"][s].rid, snap["serve"][s].runtime, x)
               /\ outcome' = [outcome EXCEPT !["serve"] =
                                IF x = "ok" THEN "ok" ELSE "failed"]
    <3>1. PICK x \in {"ok", "failed", "refused"} :
            /\ QpmRelease(s, snap["serve"][s].rid, snap["serve"][s].runtime, x)
            /\ outcome' = [outcome EXCEPT !["serve"] =
                             IF x = "ok" THEN "ok" ELSE "failed"]
      BY <2>3
    <3>2. x = "ok" => rows[s].rid \notin held'[s]
      BY <1>3, <3>1, QpmReleaseEffect DEF TypeInv
    <3>3. outcome'["serve"] = IF x = "ok" THEN "ok" ELSE "failed"
      BY <3>1 DEF TypeInv, TypeOK, Proc
    <3> QED
      BY <3>2, <3>3
  <2> QED
    BY <1>1, <2>1, <2>2, <2>3
<1>6. ~ Attempting'
  BY <1>4 DEF Attempting
<1>7. OneContent' /\ HeldByIncarnation' /\ TerminalIsFree'
  BY <1>1, <1>4, <1>6
     DEF OwnInv, OneContent, HeldByIncarnation, TerminalIsFree, OldIds
<1>8. CleanStart' /\ AttemptOwnsRows'
  BY <1>4, <1>6 DEF CleanStart, AttemptOwnsRows
<1>9. ReleaseCoversRows'
  <2>1. \A t \in Services : Least(t, todo["serve"])' => t = s
    BY <1>1, LeastUnique DEF TypeInv, TypeOK, Proc, Least
  <2> QED
    BY <1>1, <1>4, <1>5, <2>1 DEF OwnInv, ReleaseCoversRows, Releasing, OldIds
<1> QED
  BY <1>7, <1>8, <1>9 DEF OwnInv

\* OwnInv when the row is written back.
LEMMA RecordReleaseOwn ==
  ASSUME TypeInv, OwnInv, OldIds, RecordRelease("serve")
  PROVE  OwnInv'
<1>1. PICK s \in Services :
        /\ pc["serve"] = "released"
        /\ Least(s, todo["serve"])
        /\ rows' = RecordReservation(rows, s, ReleasedRow("serve", s))
        /\ failed' = [failed EXCEPT !["serve"] =
                        @ \/ Unresolved("serve", outcome["serve"])]
        /\ NextRow("serve", s)
        /\ UNCHANGED <<alloc, held, runtime, snap, plan, acc>>
  BY DEF RecordRelease, qpm, attempt
<1>2. s \in todo["serve"]
  BY <1>1 DEF Least
<1>3. /\ pc'["serve"] \in {"release", "tidy"}
      /\ pc'["admin"] = pc["admin"]
      /\ todo'["serve"] = todo["serve"] \ {s}
      /\ pc'["serve"] = "tidy" => todo'["serve"] = {}
  BY <1>1, <1>2, NextRowParts
<1>4. /\ \A t \in Services \ {s} : rows'[t] = rows[t]
      /\ rows'[s].rid = rows[s].rid
      /\ rows'[s].runtime = rows[s].runtime
      /\ rows'[s].state = ReleasedState(outcome["serve"])
  <2>1. snap["serve"][s] = rows[s]
    BY <1>1, <1>2 DEF OwnInv, ReleaseCoversRows, Releasing
  <2>2. rows'[s] = ReleasedRow("serve", s) /\ \A t \in Services \ {s} : rows'[t] = rows[t]
    BY <1>1, ReleasedRowWritten, RecordedRow DEF TypeInv, Proc
  <2> QED
    BY <2>1, <2>2, ReleasedRowWritten DEF Proc
<1>5. failed'["serve"] <=> (failed["serve"] \/ outcome["serve"] = "failed")
  BY <1>1 DEF TypeInv, TypeOK, Proc, Unresolved
<1>6. /\ outcome["serve"] \in {"ok", "stale", "failed"}
      /\ outcome["serve"] # "failed" => rows[s].rid \notin held[s]
  BY <1>1 DEF OwnInv, ReleaseCoversRows
<1>7. ~ Attempting'
  BY <1>3 DEF Attempting
<1>8. OneContent'
  BY <1>1, <1>3, <1>7 DEF OwnInv, OneContent
<1>9. HeldByIncarnation'
  BY <1>1, <1>4 DEF OwnInv, HeldByIncarnation
<1>10. TerminalIsFree'
  <2>1. rows'[s].state \in TerminalRows => rows[s].rid \notin held[s]
    BY <1>4, <1>6 DEF ReleasedState, TerminalRows
  <2> QED
    BY <1>1, <1>4, <2>1 DEF OwnInv, TerminalIsFree
<1>11. CleanStart' /\ AttemptOwnsRows'
  BY <1>3, <1>7 DEF CleanStart, AttemptOwnsRows
<1>12. ReleaseCoversRows'
  <2>1. todo["serve"] \subseteq Services
    BY DEF TypeInv, TypeOK, Proc
  <2> QED
    BY <1>1, <1>3, <1>4, <1>5, <1>6, <2>1 DEF OwnInv, ReleaseCoversRows, Releasing
<1> QED
  BY <1>8, <1>9, <1>10, <1>11, <1>12 DEF OwnInv

\* Without a failure no row names a reservation that is still held.
LEMMA CompleteReleaseOwn ==
  ASSUME TypeInv, OwnInv, OldIds, CompleteRelease("serve")
  PROVE  OwnInv'
<1>1. pc["serve"] = "tidy" /\ UNCHANGED <<rows, held, runtime>>
  BY DEF CompleteRelease, qpm
<1>2. CASE alloc.state = "none"
  BY <1>1, <1>2, ReturnOwn DEF CompleteRelease
<1>3. CASE alloc.state # "none"
  <2>1. /\ pc'["serve"] = "finish"
        /\ pc'["admin"] = pc["admin"]
        /\ UNCHANGED <<plan, acc>>
    BY <1>3 DEF TypeInv, TypeOK, CompleteRelease, Goto, Proc
  <2>2. /\ alloc'.state = IF failed["serve"] THEN "release-incomplete" ELSE "released"
        /\ alloc'.fingerprint = alloc.fingerprint
        /\ alloc'.services = alloc.services
    BY <1>3 DEF TypeInv, TypeOK, CompleteRelease, CompleteAllocation, Allocation
  <2>3. ~ failed["serve"] => \A s \in Services : rows[s].rid \notin held[s]
    BY <1>1 DEF OwnInv, ReleaseCoversRows, Releasing
  <2>4. ~ Attempting' /\ ~ Releasing'
    BY <2>1 DEF Attempting, Releasing
  <2>5. OneContent'
    BY <1>3, <2>1, <2>2, <2>4 DEF OwnInv, OneContent
  <2>6. HeldByIncarnation'
    BY <1>1, <2>1 DEF OwnInv, HeldByIncarnation
  <2>7. TerminalIsFree'
    BY <1>1, <2>2, <2>3 DEF OwnInv, TerminalIsFree
  <2>8. CleanStart' /\ AttemptOwnsRows' /\ ReleaseCoversRows'
    BY <2>1, <2>4 DEF CleanStart, AttemptOwnsRows, ReleaseCoversRows
  <2> QED
    BY <2>5, <2>6, <2>7, <2>8 DEF OwnInv
<1> QED
  BY <1>2, <1>3

\* OwnInv is preserved by every step of a plain job.
LEMMA OwnStep ==
  ASSUME PlainJob, TypeInv, FreshIds, UndoneIsFree, OwnInv, [Next]_vars
  PROVE  OwnInv'
<1>0. OldIds
  BY OldIdsStep
<1>1. pc["admin"] = "idle" /\ "admin" \notin Events
  BY DEF OwnInv, OneContent, PlainJob
<1>2. CASE ReserveStep
  BY <1>0, <1>2, BeginOwn, BeginAllocationOwn, ResolveOwn, ReserveCallOwn,
     RecordResultOwn, AcceptOwn, BeginRollbackOwn, UndoCallOwn, RecordUndoOwn,
     SettleOwn, FinishOwn
     DEF ReserveStep
<1>3. CASE (\E r \in Releases : BeginRelease(r)) \/ VerifyRelease
  BY <1>0, <1>3, BeginOwn, VerifyReleaseOwn
<1>4. CASE RetryRelease
  BY <1>1, <1>4 DEF RetryRelease
<1>5. CASE \E p \in Proc : ReleaseStep(p)
  <2>1. ReleaseStep("serve")
    BY <1>1, <1>5
       DEF Proc, ReleaseStep, SkipTerminal, ReleaseCall, RecordRelease,
           CompleteRelease
  <2> QED
    BY <1>0, <2>1, SkipTerminalOwn, ReleaseCallOwn, RecordReleaseOwn,
       CompleteReleaseOwn
       DEF ReleaseStep
<1>6. CASE Fault
  <2>1. CASE (\E c \in stray : StrayRuns(c)) \/ (\E s \in Services : QpmRestart(s))
    BY <1>0, <2>1, FrameOwn DEF StrayRuns, QpmRestart, journal, loop, attempt
  <2>2. CASE Cancel \/ \E p \in Proc : JournalFails(p) \/ Crash(p)
    <3>1. Return("serve") /\ UNCHANGED <<alloc, rows>>
      BY <1>1, <2>2 DEF Cancel, JournalFails, Crash, Abandon, journal, Proc
    <3> QED
      BY <1>0, <3>1, ReturnOwn
  <2> QED
    BY <1>6, <2>1, <2>2 DEF Fault
<1>7. CASE UNCHANGED vars
  BY <1>0, <1>7, FrameOwn DEF vars, journal, loop, attempt
<1> QED
  BY <1>2, <1>3, <1>4, <1>5, <1>6, <1>7 DEF Next

\* PlainInv holds at first.
LEMMA InitOwn ==
  ASSUME Init
  PROVE  PlainInv
<1>1. FreshIds
  BY DEF Init, FreshIds, NoRows, NoRow, NoneAccepted, Proc
<1>2. pc["serve"] = "idle" /\ pc["admin"] = "idle"
  BY DEF Init, Proc
<1>3. ~ Attempting /\ ~ Releasing
  BY <1>2 DEF Attempting, Releasing
<1>4. UndoneIsFree /\ AttemptOwnsRows /\ ReleaseCoversRows
  BY <1>2, <1>3 DEF UndoneIsFree, AttemptOwnsRows, ReleaseCoversRows
<1>5. OneContent
  BY <1>2, <1>3 DEF Init, OneContent, NoPlan, NoAllocation
<1>6. HeldByIncarnation /\ TerminalIsFree
  BY DEF Init, HeldByIncarnation, TerminalIsFree
<1>7. CleanStart
  BY DEF Init, CleanStart, AcceptedServices, NoneAccepted, Proc
<1> QED
  BY <1>1, <1>4, <1>5, <1>6, <1>7 DEF PlainInv

PlainTypeInv == TypeInv /\ PlainInv

\* PlainInv, with the types, is an invariant of a plain job.
LEMMA PlainInvCorrect ==
  ASSUME PlainJob
  PROVE  Spec => []PlainTypeInv
<1>1. Init => PlainTypeInv
  BY InitType, InitOwn DEF PlainTypeInv
<1>2. PlainTypeInv /\ [Next]_vars => PlainTypeInv'
  <2>1. PlainInv <=> FreshIds /\ UndoneIsFree /\ OwnInv
    BY DEF PlainInv, OwnInv
  <2>2. (PlainInv <=> FreshIds /\ UndoneIsFree /\ OwnInv)'
    BY DEF PlainInv, OwnInv
  <2>3. "refuse" \notin Events
    BY DEF PlainJob
  <2> QED
    BY <2>1, <2>2, <2>3, NextType, FreshStep, UndoneStep, OwnStep DEF PlainTypeInv
<1> QED
  BY <1>1, <1>2, PTL DEF Spec

\* For a job without components, whatever its services and however often its
\* requests are repeated, time out, fail or crash: when complete_allocation
\* journals the allocation as released, rejected, delayed or rolled back, no row
\* names a reservation that a QPM still holds.
THEOREM ReleasedSafe ==
  ASSUME PlainJob
  PROVE  Spec => []ReleasedIsFree
<1>1. PlainTypeInv => ReleasedIsFree
  BY DEF PlainTypeInv, PlainInv, TerminalIsFree, ReleasedIsFree
<1> QED
  BY <1>1, PlainInvCorrect, PTL

\* A tracked reservation stays tracked until its QPM has dropped it.
LEMMA TrackedStep ==
  ASSUME PlainJob, TypeInv, PlainInv, [Next]_vars, NEW s \in Services,
         Tracked(s), rows[s].rid \in held'[s]
  PROVE  /\ rows'[s].rid = rows[s].rid
         /\ rows'[s].state \notin TerminalRows
<1>0. rows[s].rid \in held[s] /\ rows[s].state \notin TerminalRows /\ rows[s].rid # 0
  BY DEF Tracked, PlainInv, FreshIds
<1>1. CASE rows'[s] = rows[s]
  BY <1>0, <1>1
<1>2. CASE pc["serve"] = "resolve" /\ Least(s, todo["serve"])
  BY <1>0, <1>2 DEF PlainInv, AttemptOwnsRows, Attempting, Least
<1>3. CASE pc["serve"] = "record" /\ Least(s, todo["serve"])
  BY <1>0, <1>3 DEF PlainInv, AttemptOwnsRows, Attempting
<1>4. CASE /\ pc["serve"] = "undone"
           /\ Greatest(s, AcceptedServices)
           /\ rows'[s] = UndoRow(s)
  <2>1. rows[s].rid = acc[s].rid
    BY <1>0, <1>4
       DEF PlainInv, AttemptOwnsRows, Attempting, Greatest, AcceptedServices
  <2>2. outcome["serve"] # "ok"
    BY <1>0, <1>4, <2>1 DEF PlainInv, UndoneIsFree
  <2> QED
    BY <1>4, <2>1, <2>2 DEF UndoRow, TerminalRows
<1>5. CASE /\ pc["serve"] = "released"
           /\ Least(s, todo["serve"])
           /\ rows'[s] = ReleasedRow("serve", s)
  <2>1. snap["serve"][s] = rows[s]
    BY <1>5 DEF PlainInv, ReleaseCoversRows, Releasing, Least
  <2>2. outcome["serve"] = "failed"
    BY <1>0, <1>5 DEF PlainInv, ReleaseCoversRows
  <2>3. ReleasedState("failed") \notin TerminalRows
    BY DEF ReleasedState, TerminalRows
  <2> QED
    BY <1>5, <2>1, <2>2, <2>3, ReleasedRowWritten DEF Proc
<1>6. \A t \in Services, row \in Row :
        rows' = RecordReservation(rows, t, row) =>
          rows'[s] = rows[s] \/ (t = s /\ rows'[s] = row)
  BY RecordedRow DEF TypeInv
<1>7. pc["admin"] # "released"
  BY DEF PlainInv, OneContent
<1> QED
  BY <1>1, <1>2, <1>3, <1>4, <1>5, <1>6, <1>7, StepWritesRow, RowsWritten,
     ReleasedRowWritten DEF Proc

\* For a job without components, no step of a handler overwrites or closes a
\* reservation row while a QPM holds the reservation it names: a repeated attempt,
\* the rollback or the release of _release_one.
THEOREM JournalRemembers ==
  ASSUME PlainJob
  PROVE  Spec => NeverForget
<1>1. PlainTypeInv /\ [Next]_vars =>
        [\A s \in Services :
           Tracked(s) => \/ Tracked(s)' /\ rows[s].rid = rows[s].rid'
                         \/ rows[s].rid \notin held'[s]]_vars
  <2> SUFFICES ASSUME TypeInv, PlainInv, [Next]_vars, NEW s \in Services, Tracked(s),
                      rows[s].rid \in held'[s]
               PROVE  Tracked(s)' /\ rows[s].rid = rows[s].rid'
    BY DEF PlainTypeInv
  <2> QED
    BY TrackedStep DEF Tracked
<1> QED
  BY <1>1, PlainInvCorrect, PTL DEF Spec, NeverForget
=============================================================================
