--------------------------- MODULE GatewayJournal ---------------------------
(***************************************************************************)
(* The durable SQLite journal of the gateway (journal.py), restricted to   *)
(* the rows of one (cluster, canonical job) pair: the gateway keys every   *)
(* allocation, every reservation and its lock by that pair.                *)
(*                                                                         *)
(* The three tables are values that the operators below take and return.   *)
(* The connection commits every statement by itself (isolation_level=None), *)
(* and Journal's lock orders the calls of one process only: a module that   *)
(* uses the operators takes one step for each statement, or for those of a  *)
(* call that touch tables another process does not write in between.        *)
(*   ops    the operations table: one row per OperationKey                 *)
(*   alloc  the allocations row, in state "none" while it does not exist   *)
(*   rows   the reservations rows, in state "none" where there is none     *)
(***************************************************************************)
EXTENDS Naturals, FiniteSets

CONSTANTS
  Services,     \* the QPM service ids; numbered in the order sorted() gives
  Reserves,     \* the reserve requests that may arrive for this job
  Releases,     \* the release requests that may arrive for this job
  NoRequest,    \* stands for the absence of a request
  NoOwner       \* stands for the absence of a job owner

Requests == Reserves \cup Releases

\* A request is identified by who sent it, its operation, its request id and
\* its scope, and compared by its whole content.
ASSUME RequestAssumption ==
  /\ Services \subseteq Nat
  /\ \A r \in Reserves :
       /\ r \in [op : {"reserve"}, sender : {r.sender}, rid : {r.rid},
                 scope : {r.scope}, owner : {r.owner}, work : {r.work},
                 services : SUBSET Services]
       /\ r.services # {}
       /\ r.owner # NoOwner
  /\ \A r \in Releases :
       r \in [op : {"release"}, sender : {r.sender}, rid : {r.rid},
              scope : {"allocation"}]
  /\ NoRequest \notin Requests

-----------------------------------------------------------------------------
(* What the tables hold.                                                   *)

\* A response is known by its kind and, when it accepts, by the reservation id
\* it names for each service (0 for a service it does not name).
Kinds == {"none", "accepted", "delayed", "rejected", "failed",
          "released", "unresolved"}
NoIds == [s \in Services |-> 0]
Response == [kind : Kinds, ids : [Services -> Nat]]
Reply(kind) == [kind |-> kind, ids |-> NoIds]
NoResponse == Reply("none")
IsReserveResponse(resp) == resp.kind \in {"accepted", "delayed", "rejected"}
IsReleaseResponse(resp) == resp.kind \in {"released", "unresolved"}

OperationKey(r) == <<r.sender, r.op, r.rid, r.scope>>
OperationKeys == {OperationKey(r) : r \in Requests}
Operation == [state : {"absent", "started", "retryable", "complete"},
              request : Requests \cup {NoRequest},
              response : Response]
NoOperation == [state |-> "absent", request |-> NoRequest,
                response |-> NoResponse]

AllocationStates ==
  {"none", "reserving", "extending", "rolling-back", "accepted", "delayed",
   "rejected", "rolled-back", "released", "release-incomplete"}

\* _allocation_fingerprint covers the owner, the workload and the services;
\* _reservation_fingerprint leaves the services out.
AllocationFingerprint(r) == <<r.owner, r.work, r.services>>
ReservationFingerprint(r) == <<r.owner, r.work>>
Fingerprints == {AllocationFingerprint(r) : r \in Reserves} \cup {<<>>}
RowFingerprints == {ReservationFingerprint(r) : r \in Reserves} \cup {<<>>}

Allocation == [state : AllocationStates,
               owner : {r.owner : r \in Reserves} \cup {NoOwner},
               services : SUBSET Services,
               fingerprint : Fingerprints,
               response : Response]
NoAllocation == [state |-> "none", owner |-> NoOwner, services |-> {},
                 fingerprint |-> <<>>, response |-> NoResponse]

RowStates == {"none", "pending", "accepted", "delayed", "rejected",
              "rolled-back", "rollback-failed", "released", "stale-runtime",
              "release-failed"}
Row == [state : RowStates, rid : Nat, runtime : Nat,
        fingerprint : RowFingerprints]
NoRow == [state |-> "none", rid |-> 0, runtime |-> 0, fingerprint |-> <<>>]
NoRows == [s \in Services |-> NoRow]

-----------------------------------------------------------------------------
(* Operations.                                                             *)

\* begin_operation finds the row written for other content.
OperationConflicts(ops, r) ==
  LET row == ops[OperationKey(r)]
  IN  row.state # "absent" /\ row.request # r

\* begin_operation returns None: a new row, or a retryable one started again.
OperationStarts(ops, r) ==
  LET row == ops[OperationKey(r)]
  IN  \/ row.state = "absent"
      \/ row.state = "retryable" /\ row.request = r

\* The write begin_operation then makes.
StartOperation(ops, r) ==
  [ops EXCEPT ![OperationKey(r)] =
     [state |-> "started", request |-> r, response |-> NoResponse]]

CompleteOperation(ops, r, response, state) ==
  [ops EXCEPT ![OperationKey(r)] =
     [@ EXCEPT !.state = state, !.response = response]]

-----------------------------------------------------------------------------
(* The allocation.                                                         *)

\* The rows of an accepted allocation that a request names again are accepted.
RowsStillAccepted(alloc, rows, r) ==
  \A s \in r.services \cap alloc.services : rows[s].state = "accepted"

\* They were reserved for the workload that the request describes.
WorkloadUnchanged(alloc, rows, r) ==
  \A s \in r.services \cap alloc.services :
    rows[s].fingerprint = ReservationFingerprint(r)

\* Mutant of Missing: the services already accepted are reserved again.
MissingAll(alloc, r) == r.services

Missing(alloc, r) == r.services \ alloc.services

\* begin_allocation refuses the request: RequestConflict or JournalError.
AllocationRefused(alloc, rows, r) ==
  /\ alloc.state # "none"
  /\ \/ alloc.owner # r.owner
     \/ /\ alloc.state = "accepted"
        /\ \/ ~ RowsStillAccepted(alloc, rows, r)
           \/ ~ WorkloadUnchanged(alloc, rows, r)
     \/ alloc.state \in {"reserving", "rolling-back", "extending", "released"}

\* begin_allocation plans no reservation: the stored response answers.
AllocationReplays(alloc, rows, r) ==
  /\ ~ AllocationRefused(alloc, rows, r)
  /\ \/ alloc.state = "accepted" /\ Missing(alloc, r) = {}
     \/ /\ alloc.state \in {"rejected", "release-incomplete"}
        /\ alloc.fingerprint = AllocationFingerprint(r)

\* begin_allocation adds services to an accepted allocation.
AllocationExtends(alloc, rows, r) ==
  /\ ~ AllocationRefused(alloc, rows, r)
  /\ alloc.state = "accepted"
  /\ Missing(alloc, r) # {}

\* Mutant of AllocationReserves: an incomplete rollback is taken for a complete one.
ReservesRollingBack(alloc, rows, r) ==
  /\ alloc.state \in {"none", "delayed", "rolled-back", "rolling-back"}
  /\ alloc.owner \in {NoOwner, r.owner}

\* begin_allocation reserves the whole requested set, first or again.
AllocationReserves(alloc, rows, r) ==
  /\ ~ AllocationRefused(alloc, rows, r)
  /\ \/ alloc.state \in {"none", "delayed", "rolled-back"}
     \/ /\ alloc.state \in {"rejected", "release-incomplete"}
        /\ alloc.fingerprint # AllocationFingerprint(r)

\* The set that was read and the request's, over the row as it is now.
ExtendAllocation(alloc, read, r) ==
  [alloc EXCEPT !.services = read.services \cup r.services,
                !.fingerprint = AllocationFingerprint(r),
                !.state = "extending"]

ReserveAllocation(alloc, r) ==
  [state |-> "reserving", owner |-> r.owner, services |-> r.services,
   fingerprint |-> AllocationFingerprint(r), response |-> NoResponse]

SetAllocationState(alloc, state) == [alloc EXCEPT !.state = state]

CompleteAllocation(alloc, state, response) ==
  [alloc EXCEPT !.state = state, !.response = response]

\* restore_accepted_allocation leaves the fingerprint of the extension.
RestoreAcceptedAllocation(alloc, services, response) ==
  [alloc EXCEPT !.services = services, !.state = "accepted",
                !.response = response]

-----------------------------------------------------------------------------
(* Reservations.                                                           *)

\* The upsert of record_reservation.
RecordReservation(rows, s, row) == [rows EXCEPT ![s] = row]

\* accepted_allocation raises RequestConflict: another owner, or a service that
\* the allocation does not have.
AcceptedConflicts(alloc, r) ==
  /\ alloc.state # "none"
  /\ alloc.owner # r.owner \/ ~ r.services \subseteq alloc.services

\* accepted_allocation: the set an idempotent reserve answers with, or none.
AcceptedAllocation(alloc) ==
  IF alloc.state = "accepted" THEN alloc.response.ids ELSE NoIds

\* reservation_context answers a lookup by the job's owner.
LookupSucceeds(alloc, rows) ==
  /\ alloc.state = "accepted"
  /\ alloc.services # {}
  /\ \A s \in Services :
       IF s \in alloc.services
       THEN rows[s].state = "accepted" /\ rows[s].rid # 0
       ELSE rows[s].state # "accepted"

\* The reservation ids that lookup returns.
ReservationContext(alloc, rows) ==
  [s \in Services |-> IF s \in alloc.services THEN rows[s].rid ELSE 0]
=============================================================================
