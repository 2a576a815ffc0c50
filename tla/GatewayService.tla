--------------------------- MODULE GatewayService ---------------------------
(***************************************************************************)
(* The reservation transactions of the gateway (service.py) for one Slurm  *)
(* job: reserve with its rollback, release, and the operator's             *)
(* retry-release, over the journal and the QPMs.                           *)
(*                                                                         *)
(* Process "serve" is the gateway daemon: the allocation lock of handle    *)
(* lets one reserve or release of the job run at a time.  Process "admin"  *)
(* is the retry-release command: another process, with a lock of its own,  *)
(* so its steps interleave with the daemon's.  A handler gives way at each *)
(* await, and a crash may fall between any two statements of the journal,  *)
(* which commits each by itself, so a step below is one QPM call or one    *)
(* statement.  begin_allocation is two: its SELECT, taken with the write   *)
(* of begin_operation before it, and its UPDATE, between which the         *)
(* operator's process may complete the allocation.                         *)
(*                                                                         *)
(* The request timeout of server.py cancels a handler at an await, where   *)
(* "except Exception" does not see it; the thread that runs the QPM call   *)
(* is not stopped.  Such a call is kept in stray and may still execute.    *)
(***************************************************************************)
EXTENDS GatewayJournal

CONSTANTS
  Events,           \* what may go wrong, and whether the operator acts
  MaxReservations,  \* bound on the reservation ids the QPMs hand out
  MaxRuntime        \* bound on the incarnations of each QPM

AllEvents ==
  {"down",      \* a QPM cannot be resolved, or a call raises with no effect
   "lost",      \* a QPM call takes effect and raises
   "refuse",    \* a QPM answers a release with a status that refuses it
   "journal",   \* a journal write raises
   "verify",    \* Slurm cannot verify a release
   "restart",   \* a QPM restarts and forgets its reservations
   "cancel",    \* the request timeout cancels a handler
   "crash",     \* a gateway process dies
   "admin"}     \* the operator runs retry-release

ASSUME EventAssumption ==
  /\ Events \subseteq AllEvents
  /\ MaxReservations \in Nat
  /\ MaxRuntime \in [Services -> Nat]

VARIABLES
  ops, alloc, rows,         \* the journal
  held, runtime, nextId,    \* the QPMs: ids they hold, incarnation, next id
  stray,                    \* QPM calls whose handler is gone
  pc, req,                  \* where each process is, and for which request
  todo, snap,               \* services left in a loop; rows a release read
  outcome, failed,          \* result of the last QPM call; loop had a failure
  plan, acc, bind, answer,  \* the reserve attempt of the daemon
  read                      \* the allocations row that begin_allocation read

journal == <<ops, alloc, rows>>
qpm     == <<held, runtime, nextId>>
loop    == <<todo, snap, outcome, failed>>
attempt == <<plan, acc, bind, answer, read>>
vars    == <<journal, qpm, stray, pc, req, loop, attempt>>

Proc == {"serve", "admin"}

\* The part of the code a process is in:
\*   allocate  begin_allocation            accept    complete the accepted set
\*   resolve   adapter.resolve, pending    rollback  set "rolling-back"
\*   call      adapter.reserve             undo      adapter.release
\*   record    record its result           undone    record its result
\*   settle    restore or complete the allocation after a rollback
\*   finish    complete_operation
\*   verify    verify_release              release   _release_one's QPM call
\*   released  _release_one's record       tidy      complete the allocation
Labels == {"idle", "allocate", "resolve", "call", "record", "accept",
           "rollback", "undo", "undone", "settle", "finish",
           "verify", "release", "released", "tidy"}

\* Where a handler waits for a thread.
Awaits == {"resolve", "call", "record", "undo", "undone",
           "verify", "release", "released"}

Outcomes == {"none", "accepted", "delayed", "rejected", "failed", "ok",
             "stale"}

\* The AllocationPlan: does it extend, and what was accepted before.
Plan == [extends : BOOLEAN, services : SUBSET Services, response : Response]
NoPlan == [extends |-> FALSE, services |-> {}, response |-> NoResponse]

\* The reservation this attempt holds at a service and the QPM incarnation.
Accepted == [rid : Nat, runtime : Nat]
NoneAccepted == [s \in Services |-> [rid |-> 0, runtime |-> 0]]
AcceptedServices == {s \in Services : acc[s].rid # 0}

Call == [kind : {"reserve", "release"}, service : Services,
         rid : Nat, runtime : Nat]

\* Row states for which _release_one makes no QPM call.
TerminalRows == {"released", "rolled-back", "delayed", "rejected"}

TypeOK ==
  /\ ops \in [OperationKeys -> Operation]
  /\ alloc \in Allocation
  /\ rows \in [Services -> Row]
  /\ held \in [Services -> SUBSET Nat]
  /\ runtime \in [Services -> Nat]
  /\ nextId \in Nat
  /\ stray \subseteq Call
  /\ pc \in [Proc -> Labels]
  /\ req \in [Proc -> Requests \cup {NoRequest}]
  /\ todo \in [Proc -> SUBSET Services]
  /\ snap \in [Proc -> [Services -> Row]]
  /\ outcome \in [Proc -> Outcomes]
  /\ failed \in [Proc -> BOOLEAN]
  /\ plan \in Plan
  /\ acc \in [Services -> Accepted]
  /\ bind \in Nat
  /\ answer \in Response
  /\ read \in Allocation

Init ==
  /\ ops = [k \in OperationKeys |-> NoOperation]
  /\ alloc = NoAllocation
  /\ rows = NoRows
  /\ held = [s \in Services |-> {}]
  /\ runtime = [s \in Services |-> 1]
  /\ nextId = 1
  /\ stray = {}
  /\ pc = [p \in Proc |-> "idle"]
  /\ req = [p \in Proc |-> NoRequest]
  /\ todo = [p \in Proc |-> {}]
  /\ snap = [p \in Proc |-> NoRows]
  /\ outcome = [p \in Proc |-> "none"]
  /\ failed = [p \in Proc |-> FALSE]
  /\ plan = NoPlan
  /\ acc = NoneAccepted
  /\ bind = 0
  /\ answer = NoResponse
  /\ read = NoAllocation

Least(s, S) == s \in S /\ \A t \in S : s <= t
Greatest(s, S) == s \in S /\ \A t \in S : t <= s

Goto(p, label) == pc' = [pc EXCEPT ![p] = label]

\* The handler returns: its locals are gone.
Return(p) ==
  /\ pc' = [pc EXCEPT ![p] = "idle"]
  /\ req' = [req EXCEPT ![p] = NoRequest]
  /\ todo' = [todo EXCEPT ![p] = {}]
  /\ snap' = [snap EXCEPT ![p] = NoRows]
  /\ outcome' = [outcome EXCEPT ![p] = "none"]
  /\ failed' = [failed EXCEPT ![p] = FALSE]
  /\ IF p = "serve"
     THEN /\ plan' = NoPlan
          /\ acc' = NoneAccepted
          /\ bind' = 0
          /\ answer' = NoResponse
          /\ read' = NoAllocation
     ELSE UNCHANGED attempt

-----------------------------------------------------------------------------
(* The QPMs (external): what a call through a binding of incarnation b to  *)
(* service s does to the QPM, and the outcome its caller gets.             *)

QpmCreates(s) ==
  /\ nextId <= MaxReservations
  /\ held' = [held EXCEPT ![s] = @ \cup {nextId}]
  /\ nextId' = nextId + 1
  /\ UNCHANGED runtime

\* admission.reserve.  A malformed acceptance, which the adapter releases
\* itself, raises: without effect, or, when that release fails, with one.
QpmReserve(s, b, result) ==
  \/ result = "accepted" /\ runtime[s] = b /\ QpmCreates(s)
  \/ result \in {"delayed", "rejected"} /\ runtime[s] = b /\ UNCHANGED qpm
  \/ result = "failed" /\ ("down" \in Events \/ runtime[s] # b) /\ UNCHANGED qpm
  \/ result = "failed" /\ "lost" \in Events /\ runtime[s] = b /\ QpmCreates(s)

QpmDrops(s, rid) ==
  /\ held' = [held EXCEPT ![s] = @ \ {rid}]
  /\ UNCHANGED <<runtime, nextId>>

\* admission.release.  An id that the QPM does not hold is "not-found", which
\* counts as released.
QpmRelease(s, rid, b, result) ==
  \/ result = "ok" /\ runtime[s] = b /\ QpmDrops(s, rid)
  \/ result = "failed" /\ ("down" \in Events \/ runtime[s] # b) /\ UNCHANGED qpm
  \/ result = "failed" /\ "lost" \in Events /\ runtime[s] = b /\ QpmDrops(s, rid)
  \/ result = "refused" /\ "refuse" \in Events /\ runtime[s] = b /\ UNCHANGED qpm

-----------------------------------------------------------------------------
(* Reserve.                                                                *)

\* verify_reserve succeeds, begin_operation starts the operation and
\* begin_allocation reads the allocation: no other process writes operations.
\* Every other outcome of this prefix changes nothing: see ReplayedReserve.
BeginReserve(r) ==
  /\ pc["serve"] = "idle"
  /\ OperationStarts(ops, r)
  /\ ops' = StartOperation(ops, r)
  /\ req' = [req EXCEPT !["serve"] = r]
  /\ read' = alloc
  /\ Goto("serve", "allocate")
  /\ UNCHANGED <<alloc, rows, qpm, stray, loop, plan, acc, bind, answer>>

\* Mutant of ReplayedReserve: the stored response, whatever extended it since.
ReplayedStored(r) == ops[OperationKey(r)].response.ids

\* What a repeat of a completed reserve answers: the stored response, or, when
\* it accepted, the set the allocation holds now.  A conflict is an error, which
\* names no reservation.
ReplayedReserve(r) ==
  LET stored == ops[OperationKey(r)].response
  IN  CASE stored.kind # "accepted"               -> stored.ids
        [] AcceptedConflicts(alloc, r)            -> NoIds
        [] AcceptedAllocation(alloc) # NoIds      -> AcceptedAllocation(alloc)
        [] OTHER                                  -> stored.ids

\* The rest of begin_allocation: what it decides on the row that it read and on
\* the reservation rows, and its write.  Its refusals, and a stored response of
\* another type, return an error and leave the operation started.
BeginAllocation ==
  LET r == req["serve"]
  IN  /\ pc["serve"] = "allocate"
      /\ UNCHANGED <<ops, rows, qpm, stray>>
      /\ read' = NoAllocation
      /\ \/ /\ \/ AllocationRefused(read, rows, r)
               \/ /\ AllocationReplays(read, rows, r)
                  /\ ~ IsReserveResponse(read.response)
            /\ Return("serve")
            /\ UNCHANGED alloc
         \/ /\ AllocationReplays(read, rows, r)
            /\ IsReserveResponse(read.response)
            /\ answer' = read.response
            /\ Goto("serve", "finish")
            /\ UNCHANGED <<alloc, req, loop, plan, acc, bind>>
         \/ /\ AllocationExtends(read, rows, r)
            /\ plan' = [extends |-> TRUE, services |-> read.services,
                        response |-> read.response]
            /\ todo' = [todo EXCEPT !["serve"] = Missing(read, r)]
            /\ alloc' = ExtendAllocation(alloc, read, r)
            /\ Goto("serve", "resolve")
            /\ UNCHANGED <<req, snap, outcome, failed, acc, bind, answer>>
         \/ /\ AllocationReserves(read, rows, r)
            /\ todo' = [todo EXCEPT !["serve"] = r.services]
            /\ alloc' = ReserveAllocation(alloc, r)
            /\ Goto("serve", "resolve")
            /\ UNCHANGED <<req, snap, outcome, failed, plan, acc, bind, answer>>

\* The attempt ends without its services: what is accepted so far goes back.
StartRollback(kind) ==
  /\ answer' = Reply(kind)
  /\ Goto("serve", "rollback")

\* The row written before the QPM is asked.
PendingRow(s) ==
  [state |-> "pending", rid |-> 0, runtime |-> runtime[s],
   fingerprint |-> ReservationFingerprint(req["serve"])]

\* One turn of the loop of _reserve_services, up to its pending row.
Resolve ==
  \E s \in Services :
    /\ pc["serve"] = "resolve"
    /\ Least(s, todo["serve"])
    /\ UNCHANGED <<ops, alloc, qpm, stray, req, loop, plan, acc, read>>
    /\ \/ /\ bind' = runtime[s]
          /\ rows' = RecordReservation(rows, s, PendingRow(s))
          /\ Goto("serve", "call")
          /\ UNCHANGED answer
       \/ /\ {"down", "journal"} \cap Events # {}
          /\ StartRollback("failed")
          /\ UNCHANGED <<rows, bind>>

\* adapter.reserve runs and returns.
ReserveCall ==
  \E s \in Services : \E result \in {"accepted", "delayed", "rejected", "failed"} :
    /\ pc["serve"] = "call"
    /\ Least(s, todo["serve"])
    /\ QpmReserve(s, bind, result)
    /\ outcome' = [outcome EXCEPT !["serve"] = result]
    /\ IF result = "failed"
       THEN StartRollback("failed") /\ UNCHANGED acc
       ELSE /\ acc' = IF result = "accepted"
                      THEN [acc EXCEPT ![s] = [rid |-> nextId, runtime |-> bind]]
                      ELSE acc
            /\ Goto("serve", "record")
            /\ UNCHANGED answer
    /\ UNCHANGED <<journal, stray, req, todo, snap, failed, plan, bind, read>>

\* The row that records what the QPM answered.
ResultRow(s) ==
  [state |-> outcome["serve"], rid |-> acc[s].rid, runtime |-> bind,
   fingerprint |-> ReservationFingerprint(req["serve"])]

\* Its result is recorded; a reservation that cannot be recorded is rolled
\* back with the others.
RecordResult ==
  \E s \in Services :
    /\ pc["serve"] = "record"
    /\ Least(s, todo["serve"])
    /\ UNCHANGED <<ops, alloc, qpm, stray, req, snap, failed, plan, acc, bind, read>>
    /\ \/ /\ rows' = RecordReservation(rows, s, ResultRow(s))
          /\ todo' = [todo EXCEPT !["serve"] = @ \ {s}]
          /\ outcome' = [outcome EXCEPT !["serve"] = "none"]
          /\ IF outcome["serve"] # "accepted"
             THEN StartRollback(outcome["serve"])
             ELSE /\ Goto("serve", IF todo["serve"] = {s} THEN "accept"
                                                          ELSE "resolve")
                  /\ UNCHANGED answer
       \/ /\ "journal" \in Events
          /\ StartRollback("failed")
          /\ UNCHANGED <<rows, todo, outcome>>

\* Mutants of AcceptedIds: the set before the attempt, and the attempt's alone.
PriorIds == plan.response.ids
AttemptIds == [s \in Services |-> acc[s].rid]

\* The ids of an accepted set: those of the attempt and those it extends.
AcceptedIds ==
  [s \in Services |-> IF acc[s].rid # 0 THEN acc[s].rid
                                        ELSE plan.response.ids[s]]

\* Every service accepted: complete_allocation.
Accept ==
  /\ pc["serve"] = "accept"
  /\ answer' = [kind |-> "accepted", ids |-> AcceptedIds]
  /\ alloc' = CompleteAllocation(alloc, "accepted", answer')
  /\ Goto("serve", "finish")
  /\ UNCHANGED <<ops, rows, qpm, stray, req, loop, plan, acc, bind, read>>

\* _rollback: mark the allocation, then release what is accepted.
BeginRollback ==
  /\ pc["serve"] = "rollback"
  /\ \/ /\ alloc' = SetAllocationState(alloc, "rolling-back")
        /\ UNCHANGED failed
     \/ /\ "journal" \in Events
        /\ failed' = [failed EXCEPT !["serve"] = TRUE]
        /\ UNCHANGED alloc
  /\ Goto("serve", IF AcceptedServices = {} THEN "settle" ELSE "undo")
  /\ UNCHANGED <<ops, rows, qpm, stray, req, todo, snap, outcome, attempt>>

\* The release of one reservation.  Its reply is not looked at: only a raise
\* counts as a failure.
UndoCall ==
  \E s \in Services : \E result \in {"ok", "failed", "refused"} :
    /\ pc["serve"] = "undo"
    /\ Greatest(s, AcceptedServices)
    /\ QpmRelease(s, acc[s].rid, acc[s].runtime, result)
    /\ outcome' = [outcome EXCEPT !["serve"] =
                     IF result = "failed" THEN "failed" ELSE "ok"]
    /\ failed' = [failed EXCEPT !["serve"] = @ \/ result = "failed"]
    /\ Goto("serve", "undone")
    /\ UNCHANGED <<journal, stray, req, todo, snap, attempt>>

\* Mutant of UndoRow: the failure of the release is not noticed.
UndoRowAnyway(s) ==
  [state |-> "rolled-back", rid |-> acc[s].rid, runtime |-> acc[s].runtime,
   fingerprint |-> ReservationFingerprint(req["serve"])]

\* The row that records how the rollback of a reservation went.
UndoRow(s) ==
  [state |-> IF outcome["serve"] = "ok" THEN "rolled-back" ELSE "rollback-failed",
   rid |-> acc[s].rid, runtime |-> acc[s].runtime,
   fingerprint |-> ReservationFingerprint(req["serve"])]

\* Its row; a failure to write it is one more failure of the rollback.
RecordUndo ==
  \E s \in Services :
    /\ pc["serve"] = "undone"
    /\ Greatest(s, AcceptedServices)
    /\ \/ /\ rows' = RecordReservation(rows, s, UndoRow(s))
          /\ UNCHANGED failed
       \/ /\ "journal" \in Events
          /\ failed' = [failed EXCEPT !["serve"] = TRUE]
          /\ UNCHANGED rows
    /\ acc' = [acc EXCEPT ![s] = [rid |-> 0, runtime |-> 0]]
    /\ outcome' = [outcome EXCEPT !["serve"] = "none"]
    /\ Goto("serve", IF AcceptedServices = {s} THEN "settle" ELSE "undo")
    /\ UNCHANGED <<ops, alloc, qpm, stray, req, todo, snap, plan, bind, answer,
                   read>>

\* Mutant of SettledState: the kind of the answer is stored as it is.
SettledAsAnswered(kind) == kind

\* The state an allocation that was not extended gets after its rollback.
SettledState(kind) == IF kind = "failed" THEN "rolled-back" ELSE kind

\* Mutant of Settle: the allocation is completed after an incomplete rollback too.
SettleAnyway ==
  /\ pc["serve"] = "settle"
  /\ alloc' = CompleteAllocation(alloc, SettledState(answer.kind), answer)
  /\ Return("serve")
  /\ UNCHANGED <<ops, rows, qpm, stray>>

\* After the rollback: an extension goes back to the set accepted before it;
\* an incomplete rollback (RollbackIncomplete) ends the handler here.
Settle ==
  /\ pc["serve"] = "settle"
  /\ alloc' = IF plan.extends
              THEN RestoreAcceptedAllocation(alloc, plan.services, plan.response)
              ELSE IF failed["serve"]
                   THEN alloc
                   ELSE CompleteAllocation(alloc, SettledState(answer.kind), answer)
  /\ IF failed["serve"]
     THEN Return("serve")
     ELSE /\ Goto("serve", "finish")
          /\ UNCHANGED <<req, loop, attempt>>
  /\ UNCHANGED <<ops, rows, qpm, stray>>

\* A delayed or failed reserve may be repeated under its request id.
CompletionState(kind) ==
  IF kind \in {"delayed", "failed"} THEN "retryable" ELSE "complete"

\* complete_operation, for a reserve and for a release.
Finish ==
  /\ pc["serve"] = "finish"
  /\ ops' = CompleteOperation(ops, req["serve"], answer,
                              CompletionState(answer.kind))
  /\ Return("serve")
  /\ UNCHANGED <<alloc, rows, qpm, stray>>

-----------------------------------------------------------------------------
(* Release, by the daemon and by the operator.                             *)

\* begin_operation comes before the verification.
BeginRelease(r) ==
  /\ pc["serve"] = "idle"
  /\ OperationStarts(ops, r)
  /\ ops' = StartOperation(ops, r)
  /\ req' = [req EXCEPT !["serve"] = r]
  /\ Goto("serve", "verify")
  /\ UNCHANGED <<alloc, rows, qpm, stray, loop, attempt>>

\* Read the rows and loop over those that name a reservation.
ReadRows(p) ==
  LET known == {s \in Services : rows[s].rid # 0}
  IN  /\ snap' = [snap EXCEPT ![p] = rows]
      /\ todo' = [todo EXCEPT ![p] = known]
      /\ Goto(p, IF known = {} THEN "tidy" ELSE "release")

\* verify_release; a failure leaves the operation started.
VerifyRelease ==
  /\ pc["serve"] = "verify"
  /\ \/ ReadRows("serve") /\ UNCHANGED <<req, outcome, failed, attempt>>
     \/ "verify" \in Events /\ Return("serve")
  /\ UNCHANGED <<journal, qpm, stray>>

\* retry_release: no operation row, no verification.
RetryRelease ==
  /\ "admin" \in Events
  /\ pc["admin"] = "idle"
  /\ ReadRows("admin")
  /\ UNCHANGED <<journal, qpm, stray, req, outcome, failed, attempt>>

\* Mutant of NextRow: a QPM that restarted ends the loop.
NextRowUnlessStale(p, s) ==
  LET left == IF outcome[p] = "stale" THEN {} ELSE todo[p] \ {s}
  IN  /\ todo' = [todo EXCEPT ![p] = left]
      /\ Goto(p, IF left = {} THEN "tidy" ELSE "release")

\* The loop goes on to its next row.
NextRow(p, s) ==
  /\ todo' = [todo EXCEPT ![p] = @ \ {s}]
  /\ Goto(p, IF todo[p] = {s} THEN "tidy" ELSE "release")

\* _release_one on a terminal row.
SkipTerminal(p) ==
  \E s \in Services :
    /\ pc[p] = "release"
    /\ Least(s, todo[p])
    /\ snap[p][s].state \in TerminalRows
    /\ NextRow(p, s)
    /\ UNCHANGED <<journal, qpm, stray, req, snap, outcome, failed, attempt>>

\* _release_one: resolve, compare the incarnation, call release.  Here a reply
\* with another status than a release is a failure too.  The two awaits are one
\* step: all that comes between them to this QPM is a restart, after which the
\* call through the old binding fails and changes nothing.
ReleaseCall(p) ==
  \E s \in Services :
    LET row == snap[p][s]
        Returns(result) == outcome' = [outcome EXCEPT ![p] = result]
    IN  /\ pc[p] = "release"
        /\ Least(s, todo[p])
        /\ row.state \notin TerminalRows
        /\ \/ runtime[s] # row.runtime /\ Returns("stale") /\ UNCHANGED qpm
           \/ /\ "down" \in Events \/ ("restart" \in Events /\ runtime[s] > row.runtime)
              /\ Returns("failed") /\ UNCHANGED qpm
           \/ /\ runtime[s] = row.runtime
              /\ \E result \in {"ok", "failed", "refused"} :
                   /\ QpmRelease(s, row.rid, row.runtime, result)
                   /\ Returns(IF result = "ok" THEN "ok" ELSE "failed")
        /\ Goto(p, "released")
        /\ UNCHANGED <<journal, stray, req, todo, snap, failed, attempt>>

\* Mutant of ReleasedState: a failed release closes the row.
ReleasedAnyway(result) == IF result = "stale" THEN "stale-runtime" ELSE "released"

ReleasedState(result) ==
  CASE result = "ok"    -> "released"
    [] result = "stale" -> "stale-runtime"
    [] OTHER            -> "release-failed"

\* Mutant of Unresolved: no result counts.
UnresolvedNever(p, result) == FALSE

\* Results that leave the allocation release-incomplete: the operator's
\* command counts a stale incarnation, the daemon does not.
Unresolved(p, result) == result = "failed" \/ (p = "admin" /\ result = "stale")

\* The row that was read, with its new state.
ReleasedRow(p, s) == [snap[p][s] EXCEPT !.state = ReleasedState(outcome[p])]

\* It replaces the row, whatever the row has become since.
RecordRelease(p) ==
  \E s \in Services :
    /\ pc[p] = "released"
    /\ Least(s, todo[p])
    /\ rows' = RecordReservation(rows, s, ReleasedRow(p, s))
    /\ failed' = [failed EXCEPT ![p] = @ \/ Unresolved(p, outcome[p])]
    /\ outcome' = [outcome EXCEPT ![p] = "none"]
    /\ NextRow(p, s)
    /\ UNCHANGED <<ops, alloc, qpm, stray, req, snap, attempt>>

\* complete_allocation, which raises when there is no allocation.
CompleteRelease(p) ==
  LET kind == IF failed[p] THEN "unresolved" ELSE "released"
      state == IF failed[p] THEN "release-incomplete" ELSE "released"
  IN  /\ pc[p] = "tidy"
      /\ alloc' = IF alloc.state = "none" THEN alloc
                  ELSE CompleteAllocation(alloc, state, Reply(kind))
      /\ IF p = "serve" /\ alloc.state # "none"
         THEN /\ answer' = Reply(kind)
              /\ Goto(p, "finish")
              /\ UNCHANGED <<req, loop, plan, acc, bind, read>>
         ELSE Return(p)
      /\ UNCHANGED <<ops, rows, qpm, stray>>

-----------------------------------------------------------------------------
(* Faults.                                                                 *)

\* A journal write raises where only the outer "except Exception" is left: the
\* handler answers an error and nothing more is written.
JournalFails(p) ==
  /\ "journal" \in Events
  /\ \/ pc[p] \in {"allocate", "accept", "finish", "released", "tidy"}
     \/ pc[p] = "settle" /\ (plan.extends \/ ~ failed["serve"])
  /\ Return(p)
  /\ UNCHANGED <<journal, qpm, stray>>

\* The QPM call that process p is waiting for.
PendingCalls(p) ==
  CASE pc[p] = "call" ->
         {[kind |-> "reserve", service |-> s, rid |-> 0, runtime |-> bind] :
            s \in {t \in Services : Least(t, todo[p])}}
    [] pc[p] = "undo" ->
         {[kind |-> "release", service |-> s, rid |-> acc[s].rid,
           runtime |-> acc[s].runtime] :
            s \in {t \in Services : Greatest(t, AcceptedServices)}}
    [] pc[p] = "release" ->
         {[kind |-> "release", service |-> s, rid |-> snap[p][s].rid,
           runtime |-> snap[p][s].runtime] :
            s \in {t \in Services : /\ Least(t, todo[p])
                                    /\ snap[p][t].state \notin TerminalRows}}
    [] OTHER -> {}

\* The process leaves its handler; a call it waits for goes on by itself.
Abandon(p) ==
  /\ stray' = stray \cup PendingCalls(p)
  /\ Return(p)
  /\ UNCHANGED <<journal, qpm>>

\* The request timeout of the server cancels the handler.
Cancel ==
  /\ "cancel" \in Events
  /\ pc["serve"] \in Awaits
  /\ Abandon("serve")

\* A gateway process dies and, the daemon, comes back on the same journal.
Crash(p) ==
  /\ "crash" \in Events
  /\ pc[p] # "idle"
  /\ Abandon(p)

\* A call whose handler is gone executes, or never does.
StrayRuns(c) ==
  /\ stray' = stray \ {c}
  /\ \/ UNCHANGED qpm
     \/ /\ runtime[c.service] = c.runtime
        /\ IF c.kind = "reserve" THEN QpmCreates(c.service)
                                 ELSE QpmDrops(c.service, c.rid)
  /\ UNCHANGED <<journal, pc, req, loop, attempt>>

\* A QPM restarts: a new incarnation that holds nothing.
QpmRestart(s) ==
  /\ "restart" \in Events
  /\ runtime[s] < MaxRuntime[s]
  /\ runtime' = [runtime EXCEPT ![s] = @ + 1]
  /\ held' = [held EXCEPT ![s] = {}]
  /\ UNCHANGED <<journal, nextId, stray, pc, req, loop, attempt>>

-----------------------------------------------------------------------------
ReserveStep ==
  \/ \E r \in Reserves : BeginReserve(r)
  \/ BeginAllocation \/ Resolve \/ ReserveCall \/ RecordResult \/ Accept
  \/ BeginRollback \/ UndoCall \/ RecordUndo \/ Settle \/ Finish

ReleaseStep(p) ==
  SkipTerminal(p) \/ ReleaseCall(p) \/ RecordRelease(p) \/ CompleteRelease(p)

Fault ==
  \/ \E p \in Proc : JournalFails(p) \/ Crash(p)
  \/ Cancel
  \/ \E c \in stray : StrayRuns(c)
  \/ \E s \in Services : QpmRestart(s)

Next ==
  \/ ReserveStep
  \/ \E r \in Releases : BeginRelease(r)
  \/ VerifyRelease
  \/ RetryRelease
  \/ \E p \in Proc : ReleaseStep(p)
  \/ Fault

Spec == Init /\ [][Next]_vars

\* The operator repeats retry-release, its process runs, and no QPM, restarted or
\* not, fails every time it is resolved and asked.
OperatorFairness ==
  /\ WF_vars(RetryRelease)
  /\ WF_vars(ReleaseStep("admin"))
  /\ \A s \in Services :
       SF_vars(/\ ReleaseCall("admin")
               /\ Least(s, todo["admin"])
               /\ outcome'["admin"] \in {"ok", "stale"})

OperatorSpec == Spec /\ OperatorFairness

-----------------------------------------------------------------------------
(* Properties.                                                             *)

\* The journal names this reservation, as one still to be released.
Tracked(s) ==
  /\ rows[s].rid \in held[s]
  /\ rows[s].state \notin TerminalRows

\* A reservation row that names a reservation its QPM still holds is never
\* overwritten by another attempt, nor marked terminal, until the QPM has
\* dropped that reservation: record_reservation is an upsert, and it is the
\* only thing that makes the release at teardown possible.
NeverForget ==
  [][\A s \in Services :
       Tracked(s) => \/ Tracked(s)' /\ rows[s].rid = rows[s].rid'
                     \/ rows[s].rid \notin held'[s]]_vars

\* "at most one reservation per service and Slurm allocation": whatever fails
\* and however the request is repeated, under its id or a new one, a QPM never
\* holds two reservations for the job.
AtMostOneReservation ==
  \A s \in Services : \A i, j \in held[s] : i = j

\* An allocation journaled as released, or as holding nothing, names no
\* reservation that a QPM still holds.
ReleasedIsFree ==
  alloc.state \in {"released", "rolled-back", "delayed", "rejected"} =>
    \A s \in Services : rows[s].rid \notin held[s]

\* A row that says rolled back names a reservation that its QPM has dropped.
RolledBackIsFree ==
  \A s \in Services :
    rows[s].state = "rolled-back" => rows[s].rid \notin held[s]

\* "An incomplete rollback stays rolling-back with its failed reservation rows
\* and refuses every reserve request for the job": no request may start another
\* attempt while a row says that its rollback failed.
IncompleteRollbackRefused ==
  (pc["serve"] = "idle" /\ \E s \in Services : rows[s].state = "rollback-failed")
    => \A r \in Reserves : /\ ~ AllocationReserves(alloc, rows, r)
                           /\ ~ AllocationExtends(alloc, rows, r)

\* All that is left to release was made by QPM incarnations that are gone:
\* retry_release counts STALE_RUNTIME as unresolved, each time it is run.
OnlyStaleLeft ==
  LET left == {s \in Services : rows[s].rid # 0 /\ rows[s].state \notin TerminalRows}
  IN  left # {} /\ \A s \in left : rows[s].runtime # runtime[s]

\* What an incomplete rollback or an unresolved release left is resolved in the
\* end by an operator who repeats retry-release, also while the daemon serves
\* the job and writes the same rows: the allocation becomes released, unless a
\* QPM has restarted, whose row no retry can resolve, and then the rows of the
\* other QPMs are all resolved.
OperatorResolves ==
  (pc["serve"] = "idle" /\ alloc.state \in {"rolling-back", "release-incomplete"})
    ~> (alloc.state = "released" \/ OnlyStaleLeft)

\* A release of the job has not begun.
NoReleaseBegun ==
  \A k \in OperationKeys : k[2] = "release" => ops[k].state = "absent"

\* Before teardown, every reservation that a lookup hands to the job is the one
\* the accepted reserve answered with, and is held by the QPM incarnation that
\* made it unless that QPM has restarted.
LookupIsBacked ==
  LookupSucceeds(alloc, rows) /\ NoReleaseBegun =>
    /\ ReservationContext(alloc, rows) = alloc.response.ids
    /\ \A s \in alloc.services :
         rows[s].rid \in held[s] \/ rows[s].runtime # runtime[s]

\* Two accepted answers never name different reservations of one service: every
\* component and every repeat of a request sees the same reservation.
AnswersAgree ==
  \A k, l \in OperationKeys : \A s \in Services :
    LET a == ops[k].response.ids[s]
        b == ops[l].response.ids[s]
    IN  a # 0 /\ b # 0 => a = b

\* A repeat of an accepted reserve answers with what a lookup would return.
ReplayIsCurrent ==
  LookupSucceeds(alloc, rows) /\ NoReleaseBegun =>
    \A r \in Reserves :
      LET o == ops[OperationKey(r)]
      IN  o.state = "complete" /\ o.request = r /\ o.response.kind = "accepted"
          => ReplayedReserve(r) = ReservationContext(alloc, rows)

-----------------------------------------------------------------------------
(* The inductive invariants of the proofs in GatewayServiceProofs.         *)

\* What each label says of the locals of a handler.
Control ==
  /\ pc["serve"] \in {"allocate", "resolve", "call", "record", "accept",
                     "rollback", "undo", "undone", "settle"}
       => req["serve"] \in Reserves
  /\ pc["serve"] \in {"verify", "release", "released", "tidy"}
       => req["serve"] \in Releases
  /\ pc["serve"] = "finish" => req["serve"] \in Requests
  /\ pc["serve"] = "record" => outcome["serve"] \in {"accepted", "delayed", "rejected"}
  /\ pc["serve"] \in {"rollback", "undo", "undone", "settle"}
       => answer.kind \in {"delayed", "rejected", "failed"}
  /\ pc["admin"] \in {"idle", "release", "released", "tidy"}

\* The QPMs hand out each id once: every id in use is below the next one.
FreshIds ==
  /\ nextId >= 1
  /\ \A s \in Services :
       /\ \A i \in held[s] : 1 <= i /\ i < nextId
       /\ rows[s].rid < nextId
       /\ acc[s].rid < nextId
       /\ \A p \in Proc : snap[p][s].rid < nextId

\* A rollback that goes on to record a success has released its reservation.
UndoneIsFree ==
  pc["serve"] = "undone" /\ outcome["serve"] = "ok" =>
    \A s \in Services :
      Greatest(s, AcceptedServices) => acc[s].rid \notin held[s]

\* The requests of a job without components: one content, whatever the id.
PlainJob ==
  /\ \A r, q \in Reserves : /\ r.owner = q.owner
                            /\ r.work = q.work
                            /\ r.services = q.services
  /\ {"refuse", "admin"} \cap Events = {}

Attempting ==
  pc["serve"] \in {"resolve", "call", "record", "accept", "rollback", "undo",
                  "undone", "settle"}
Releasing == pc["serve"] \in {"release", "released", "tidy"}

\* For a plain job the allocation is that of every request; nothing extends it.
OneContent ==
  /\ pc["admin"] = "idle"
  /\ ~ plan.extends
  /\ Attempting => alloc.state \in {"reserving", "rolling-back"}
  /\ alloc.state # "none" =>
       \A r \in Reserves : /\ alloc.fingerprint = AllocationFingerprint(r)
                           /\ alloc.services = r.services

\* A QPM incarnation holds only reservations that it made itself.
HeldByIncarnation ==
  \A s \in Services :
    /\ rows[s].rid \in held[s] => rows[s].runtime = runtime[s]
    /\ acc[s].rid \in held[s] => acc[s].runtime = runtime[s]

\* A row in a terminal state, and every row of an allocation that says it holds
\* nothing, names no reservation that is held.
TerminalIsFree ==
  \A s \in Services :
    \/ rows[s].state \in TerminalRows
    \/ alloc.state \in {"none", "delayed", "rejected", "rolled-back", "released"}
    => rows[s].rid \notin held[s]

\* A handler starts with no reservation of its own and no failure.
CleanStart ==
  pc["serve"] \in {"idle", "allocate", "verify"} =>
    ~ failed["serve"] /\ AcceptedServices = {}

\* While an attempt runs, the only reservations that the rows name are its own;
\* one it no longer answers for is a failure of its rollback.
AttemptOwnsRows ==
  Attempting =>
    /\ \A s \in Services : rows[s].rid \in held[s] =>
         IF acc[s].rid # 0 THEN rows[s].rid = acc[s].rid ELSE failed["serve"]
    /\ pc["serve"] \in {"resolve", "call", "record", "accept", "rollback"}
         => ~ failed["serve"]
    /\ pc["serve"] \in {"resolve", "call"}
         => \A s \in todo["serve"] : acc[s].rid = 0
    /\ pc["serve"] = "record" =>
         \A s \in todo["serve"] :
           IF Least(s, todo["serve"]) /\ outcome["serve"] = "accepted"
           THEN acc[s].rid # 0 /\ acc[s].runtime = bind
           ELSE acc[s].rid = 0
    /\ pc["serve"] \in {"call", "record"} =>
         \A s \in Services : Least(s, todo["serve"]) => rows[s].rid = 0
    /\ pc["serve"] = "undone" =>
         \/ outcome["serve"] = "ok"
         \/ outcome["serve"] = "failed" /\ failed["serve"]
    /\ pc["serve"] = "settle" => AcceptedServices = {}

\* While a release runs, a row it has passed is free or counted as unresolved.
ReleaseCoversRows ==
  /\ Releasing =>
       /\ \A s \in todo["serve"] : snap["serve"][s] = rows[s]
       /\ \A s \in Services \ todo["serve"] :
            rows[s].rid \in held[s] => failed["serve"]
  /\ pc["serve"] = "released" =>
       /\ outcome["serve"] \in {"ok", "stale", "failed"}
       /\ outcome["serve"] # "failed" =>
            \A s \in Services :
              Least(s, todo["serve"]) => rows[s].rid \notin held[s]
  /\ pc["serve"] = "tidy" => todo["serve"] = {}

PlainInv ==
  /\ FreshIds
  /\ UndoneIsFree
  /\ OneContent
  /\ HeldByIncarnation
  /\ TerminalIsFree
  /\ CleanStart
  /\ AttemptOwnsRows
  /\ ReleaseCoversRows
=============================================================================
