-------------------------- MODULE GatewayJobProofs ---------------------------
(***************************************************************************)
(* Proofs about the life of a job.  First a plain job: an incomplete       *)
(* rollback blocks the job, a QPM holds one reservation for it at most,    *)
(* and the transactions of service.py implement JobReservations.  Then     *)
(* every job, the heterogeneous ones whose components extend one           *)
(* allocation included: before the release of the job begins, what a       *)
(* lookup, an answer or a repeated request names is one set, and the QPMs  *)
(* hold it.                                                                *)
(***************************************************************************)
EXTENDS GatewayRefinement, GatewayServiceProofs


\* A rollback that failed leaves the allocation in a state that admits no attempt.
FailedIsKept ==
  \A s \in Services :
    rows[s].state = "rollback-failed" =>
      /\ alloc.state \in {"reserving", "rolling-back", "release-incomplete", "released"}
      /\ Attempting => failed["serve"]

\* The states from which begin_allocation may start an attempt, or that one left
\* without a failure.
Unreserved == {"none", "delayed", "rejected", "rolled-back"}

\* A QPM holds nothing that neither the attempt nor the allocation answers for,
\* and a reserve call whose handler is gone is the only one there will ever be.
OneHeld ==
  /\ AtMostOneReservation
  /\ alloc.state \in Unreserved => \A s \in Services : held[s] = {}
  /\ Attempting /\ ~ failed["serve"] =>
       \A s \in Services : held[s] \subseteq {acc[s].rid}
  /\ \A c \in stray :
       c.kind = "reserve" =>
         /\ ~ Attempting
         /\ alloc.state \notin Unreserved
         /\ held[c.service] = {}
         /\ \A d \in stray : d.kind = "reserve" => d = c

Wanted == UNION {r.services : r \in Reserves}

\* The attempt made a reservation here, and it is held unless the QPM restarted.
Made(s) == acc[s].rid # 0 /\ (acc[s].rid \in held[s] \/ runtime[s] > 1)

\* An attempt has made the reservations it has passed and recorded them.
Covered ==
  /\ plan = NoPlan
  /\ \A s \in Services : runtime[s] >= 1
  /\ pc["serve"] \in {"resolve", "call", "record", "accept"} =>
       /\ todo["serve"] \subseteq Wanted
       /\ \A s \in Services \ Wanted : acc[s].rid = 0
       /\ \A s \in Wanted \ todo["serve"] :
            Made(s) /\ rows[s].rid = acc[s].rid /\ rows[s].state = "accepted"
  /\ pc["serve"] = "record" /\ outcome["serve"] = "accepted" =>
       \A s \in Services : Least(s, todo["serve"]) => Made(s)
  /\ pc["serve"] = "accept" => todo["serve"] = {}

\* A release call whose handler is gone names none of the attempt's reservations
\* and, before teardown, is of an attempt that was abandoned.
StraysKnown ==
  \A c \in stray :
    /\ c.rid < nextId
    /\ \A s \in Services : acc[s].rid # 0 => acc[s].rid # c.rid
    /\ c.kind = "release" /\ NoReleaseBegun =>
         ~ Attempting /\ alloc.state \in {"reserving", "rolling-back"}

\* A release that is being handled has begun.
EndKnown == req["serve"] \in Releases => ~ NoReleaseBegun

PromiseInv ==
  /\ FailedIsKept
  /\ Covered
  /\ StraysKnown
  /\ EndKnown
  /\ "lost" \notin Events => OneHeld

-----------------------------------------------------------------------------
(* What each step of the daemon does, service by service.                  *)

\* The daemon returns.
LEMMA ReturnFacts ==
  ASSUME TypeInv, Return("serve")
  PROVE  /\ pc'["serve"] = "idle" /\ pc'["admin"] = pc["admin"]
         /\ req'["serve"] = NoRequest
         /\ failed'["serve"] = FALSE
         /\ plan' = NoPlan
         /\ \A s \in Services : acc'[s].rid = 0
         /\ ~ Attempting'
<1>1. /\ pc'["serve"] = "idle" /\ pc'["admin"] = pc["admin"]
      /\ req'["serve"] = NoRequest
      /\ failed'["serve"] = FALSE
      /\ plan' = NoPlan
      /\ \A s \in Services : acc'[s].rid = 0
  BY DEF TypeInv, TypeOK, Return, Proc, NoneAccepted
<1> QED
  BY <1>1 DEF Attempting

\* begin_allocation of a plain job refuses, answers, or starts an attempt where
\* nothing is reserved.
LEMMA BeginAllocationFacts ==
  ASSUME PlainJob, TypeInv, PlainInv, BeginAllocation
  PROVE  /\ pc["serve"] = "allocate" /\ req["serve"] \in Reserves
         /\ UNCHANGED <<ops, rows, held, runtime, nextId, stray>>
         /\ \/ Return("serve") /\ UNCHANGED alloc
            \/ /\ pc'["serve"] = "finish"
               /\ UNCHANGED <<alloc, req, todo, outcome, failed, plan, acc>>
            \/ /\ alloc.state \in {"none", "delayed", "rolled-back"}
               /\ alloc'.state = "reserving"
               /\ pc'["serve"] = "resolve"
               /\ todo'["serve"] = req["serve"].services
               /\ UNCHANGED <<req, outcome, failed, plan, acc>>
<1> DEFINE r == req["serve"]
<1>0. r \in Reserves /\ pc["serve"] = "allocate" /\ read = alloc
  BY DEF TypeInv, Control, ReadCurrent, PlainJob, BeginAllocation
<1>1. UNCHANGED <<ops, rows, held, runtime, nextId, stray>>
  BY DEF BeginAllocation, qpm
<1>2. ~ AllocationExtends(alloc, rows, r)
  BY <1>0 DEF PlainInv, OneContent, AllocationExtends, Missing
<1>3. CASE Goto("serve", "finish") /\ UNCHANGED <<alloc, req, loop, plan, acc, bind>>
  <2>1. pc'["serve"] = "finish"
    BY <1>3 DEF TypeInv, TypeOK, Goto, Proc
  <2> QED
    BY <1>0, <1>1, <1>3, <2>1 DEF loop
<1>4. CASE /\ AllocationReserves(alloc, rows, r)
           /\ todo' = [todo EXCEPT !["serve"] = r.services]
           /\ alloc' = ReserveAllocation(alloc, r)
           /\ Goto("serve", "resolve")
           /\ UNCHANGED <<req, snap, outcome, failed, plan, acc, bind, answer>>
  <2>1. alloc.state \in {"none", "delayed", "rolled-back"}
    BY <1>0, <1>4 DEF PlainInv, OneContent, AllocationReserves
  <2>2. alloc'.state = "reserving"
    BY <1>4 DEF ReserveAllocation
  <2>3. pc'["serve"] = "resolve" /\ todo'["serve"] = r.services
    BY <1>4 DEF TypeInv, TypeOK, Goto, Proc
  <2> QED
    BY <1>0, <1>1, <1>4, <2>1, <2>2, <2>3
<1> QED
  BY <1>0, <1>1, <1>2, <1>3, <1>4 DEF BeginAllocation

\* The daemon goes to "rollback".
LEMMA StartRollbackFacts ==
  ASSUME TypeInv, NEW k, StartRollback(k)
  PROVE  pc'["serve"] = "rollback"
BY DEF TypeInv, TypeOK, StartRollback, Goto, Proc

\* A service is resolved and its row is pending, or the attempt ends.
LEMMA ResolveFacts ==
  ASSUME TypeInv, Resolve
  PROVE  \E s \in Services :
           /\ pc["serve"] = "resolve" /\ Least(s, todo["serve"])
           /\ UNCHANGED <<ops, alloc, held, runtime, nextId, stray, req, todo,
                          outcome, failed, plan, acc>>
           /\ \/ pc'["serve"] = "rollback" /\ rows' = rows
              \/ /\ pc'["serve"] = "call"
                 /\ rows'[s].rid = 0 /\ rows'[s].state = "pending"
                 /\ \A t \in Services \ {s} : rows'[t] = rows[t]
<1>1. PICK s \in Services :
        /\ pc["serve"] = "resolve"
        /\ Least(s, todo["serve"])
        /\ UNCHANGED <<ops, alloc, held, runtime, nextId, stray, req, todo,
                       outcome, failed, plan, acc>>
        /\ \/ /\ rows' = RecordReservation(rows, s, PendingRow(s))
              /\ Goto("serve", "call")
           \/ /\ StartRollback("failed")
              /\ UNCHANGED rows
  BY DEF Resolve, qpm, loop
<1>2. CASE StartRollback("failed") /\ UNCHANGED rows
  BY <1>1, <1>2, StartRollbackFacts
<1>3. CASE rows' = RecordReservation(rows, s, PendingRow(s)) /\ Goto("serve", "call")
  <2>1. /\ rows'[s].rid = 0 /\ rows'[s].state = "pending"
        /\ \A t \in Services \ {s} : rows'[t] = rows[t]
    BY <1>1, <1>3, RecordedRow, RowsWritten DEF TypeInv, PendingRow
  <2>2. pc'["serve"] = "call"
    BY <1>3 DEF TypeInv, TypeOK, Goto, Proc
  <2> QED
    BY <1>1, <2>1, <2>2
<1> QED
  BY <1>1, <1>2, <1>3

\* What a QPM does with a reserve: it makes a reservation, or nothing.
LEMMA QpmReserveFacts ==
  ASSUME TypeInv, NEW s \in Services, NEW b, NEW x, QpmReserve(s, b, x)
  PROVE  /\ runtime' = runtime
         /\ x \in {"accepted", "delayed", "rejected", "failed"}
         /\ \A t \in Services \ {s} : held'[t] = held[t]
         /\ \/ held'[s] = held[s] /\ nextId' = nextId /\ x # "accepted"
            \/ /\ held'[s] = held[s] \cup {nextId} /\ nextId' = nextId + 1
               /\ x = "accepted" \/ "lost" \in Events
BY DEF TypeInv, TypeOK, QpmReserve, QpmCreates, qpm

\* And with a release: it drops the reservation, or nothing.
LEMMA QpmReleaseFacts ==
  ASSUME TypeInv, NEW s \in Services, NEW i, NEW b, NEW x, QpmRelease(s, i, b, x)
  PROVE  /\ runtime' = runtime /\ nextId' = nextId
         /\ \A t \in Services \ {s} : held'[t] = held[t]
         /\ \/ held'[s] = held[s] /\ x # "ok"
            \/ held'[s] = held[s] \ {i}
BY DEF TypeInv, TypeOK, QpmRelease, QpmDrops, qpm

\* The reserve call returns.
LEMMA ReserveCallFacts ==
  ASSUME TypeInv, ReserveCall
  PROVE  \E s \in Services :
           /\ pc["serve"] = "call" /\ Least(s, todo["serve"])
           /\ UNCHANGED <<ops, alloc, rows, runtime, stray, req, todo, failed, plan>>
           /\ \A t \in Services \ {s} : held'[t] = held[t] /\ acc'[t] = acc[t]
           /\ \/ /\ pc'["serve"] = "rollback" /\ acc' = acc
                 /\ \/ held'[s] = held[s] /\ nextId' = nextId
                    \/ /\ held'[s] = held[s] \cup {nextId} /\ nextId' = nextId + 1
                       /\ "lost" \in Events
              \/ /\ pc'["serve"] = "record" /\ acc' = acc
                 /\ outcome'["serve"] # "accepted"
                 /\ \/ held'[s] = held[s] /\ nextId' = nextId
                    \/ /\ held'[s] = held[s] \cup {nextId} /\ nextId' = nextId + 1
                       /\ "lost" \in Events
              \/ /\ pc'["serve"] = "record" /\ acc'[s].rid = nextId
                 /\ outcome'["serve"] = "accepted"
                 /\ held'[s] = held[s] \cup {nextId} /\ nextId' = nextId + 1
<1>1. PICK s \in Services, x \in {"accepted", "delayed", "rejected", "failed"} :
        /\ pc["serve"] = "call"
        /\ Least(s, todo["serve"])
        /\ QpmReserve(s, bind, x)
        /\ outcome' = [outcome EXCEPT !["serve"] = x]
        /\ IF x = "failed"
           THEN StartRollback("failed") /\ UNCHANGED acc
           ELSE /\ acc' = IF x = "accepted"
                          THEN [acc EXCEPT ![s] = [rid |-> nextId, runtime |-> bind]]
                          ELSE acc
                /\ Goto("serve", "record")
        /\ UNCHANGED <<ops, alloc, rows, stray, req, todo, failed, plan>>
  BY DEF ReserveCall, journal
<1>2. /\ runtime' = runtime
      /\ \A t \in Services \ {s} : held'[t] = held[t]
      /\ \/ held'[s] = held[s] /\ nextId' = nextId /\ x # "accepted"
         \/ /\ held'[s] = held[s] \cup {nextId} /\ nextId' = nextId + 1
            /\ x = "accepted" \/ "lost" \in Events
  BY <1>1, QpmReserveFacts
<1>3. outcome'["serve"] = x
  BY <1>1 DEF TypeInv, TypeOK, Proc
<1>4. CASE x = "failed"
  BY <1>1, <1>2, <1>3, <1>4, StartRollbackFacts
<1>5. CASE x # "failed"
  <2>1. pc'["serve"] = "record"
    BY <1>1, <1>5 DEF TypeInv, TypeOK, Goto, Proc
  <2>2. /\ \A t \in Services \ {s} : acc'[t] = acc[t]
        /\ x = "accepted" => acc'[s].rid = nextId
        /\ x # "accepted" => acc' = acc
    BY <1>1, <1>5 DEF TypeInv, TypeOK
  <2> QED
    BY <1>1, <1>2, <1>3, <2>1, <2>2
<1> QED
  BY <1>4, <1>5

\* The row of the service says what the QPM answered.
LEMMA RecordResultFacts ==
  ASSUME TypeInv, PlainInv, RecordResult
  PROVE  \E s \in Services :
           /\ pc["serve"] = "record" /\ Least(s, todo["serve"])
           /\ UNCHANGED <<ops, alloc, held, runtime, nextId, stray, req, failed,
                          plan, acc>>
           /\ \/ pc'["serve"] = "rollback" /\ rows' = rows
              \/ /\ rows'[s].rid = acc[s].rid /\ rows'[s].state = outcome["serve"]
                 /\ \A t \in Services \ {s} : rows'[t] = rows[t]
                 /\ todo'["serve"] = todo["serve"] \ {s}
                 /\ IF outcome["serve"] = "accepted"
                    THEN pc'["serve"] = IF todo["serve"] = {s} THEN "accept"
                                                               ELSE "resolve"
                    ELSE pc'["serve"] = "rollback" /\ acc[s].rid = 0
<1>1. PICK s \in Services :
        /\ pc["serve"] = "record"
        /\ Least(s, todo["serve"])
        /\ UNCHANGED <<ops, alloc, held, runtime, nextId, stray, req, failed, plan, acc>>
        /\ \/ /\ rows' = RecordReservation(rows, s, ResultRow(s))
              /\ todo' = [todo EXCEPT !["serve"] = @ \ {s}]
              /\ IF outcome["serve"] # "accepted"
                 THEN StartRollback(outcome["serve"])
                 ELSE Goto("serve", IF todo["serve"] = {s} THEN "accept"
                                                           ELSE "resolve")
           \/ StartRollback("failed") /\ UNCHANGED rows
  BY DEF RecordResult, qpm
<1>2. CASE StartRollback("failed") /\ UNCHANGED rows
  BY <1>1, <1>2, StartRollbackFacts
<1>3. CASE /\ rows' = RecordReservation(rows, s, ResultRow(s))
           /\ todo' = [todo EXCEPT !["serve"] = @ \ {s}]
           /\ IF outcome["serve"] # "accepted"
              THEN StartRollback(outcome["serve"])
              ELSE Goto("serve", IF todo["serve"] = {s} THEN "accept"
                                                        ELSE "resolve")
  <2>1. /\ rows'[s].rid = acc[s].rid /\ rows'[s].state = outcome["serve"]
        /\ \A t \in Services \ {s} : rows'[t] = rows[t]
    BY <1>1, <1>3, RecordedRow, RowsWritten DEF TypeInv, ResultRow
  <2>2. todo'["serve"] = todo["serve"] \ {s}
    BY <1>3 DEF TypeInv, TypeOK, Proc
  <2>3. CASE outcome["serve"] = "accepted"
    <3>1. pc'["serve"] = IF todo["serve"] = {s} THEN "accept" ELSE "resolve"
      BY <1>3, <2>3 DEF TypeInv, TypeOK, Goto, Proc
    <3> QED
      BY <1>1, <2>1, <2>2, <2>3, <3>1
  <2>4. CASE outcome["serve"] # "accepted"
    <3>1. pc'["serve"] = "rollback"
      BY <1>3, <2>4, StartRollbackFacts
    <3>2. s \in todo["serve"]
      BY <1>1 DEF Least
    <3>3. acc[s].rid = 0
      BY <1>1, <2>4, <3>2 DEF PlainInv, AttemptOwnsRows, Attempting
    <3> QED
      BY <1>1, <2>1, <2>2, <2>4, <3>1, <3>3
  <2> QED
    BY <2>3, <2>4
<1> QED
  BY <1>1, <1>2, <1>3

\* The set is accepted.
LEMMA AcceptFacts ==
  ASSUME TypeInv, Accept
  PROVE  /\ pc["serve"] = "accept" /\ pc'["serve"] = "finish"
         /\ alloc'.state = "accepted" /\ alloc'.response.ids = AcceptedIds
         /\ UNCHANGED <<ops, rows, held, runtime, nextId, stray, req, todo, outcome,
                        failed, plan, acc>>
<1>1. /\ pc["serve"] = "accept" /\ pc'["serve"] = "finish"
      /\ UNCHANGED <<ops, rows, held, runtime, nextId, stray, req, todo, outcome,
                     failed, plan, acc>>
  BY DEF TypeInv, TypeOK, Accept, Goto, Proc, qpm, loop
<1>2. PICK a : a = [kind |-> "accepted", ids |-> AcceptedIds]
  OBVIOUS
<1>3. alloc' = CompleteAllocation(alloc, "accepted", a) /\ a.ids = AcceptedIds
  BY <1>2 DEF Accept
<1>4. alloc'.state = "accepted" /\ alloc'.response = a
  BY <1>3 DEF TypeInv, TypeOK, CompleteAllocation, Allocation
<1> QED
  BY <1>1, <1>3, <1>4

\* The rollback begins, with or without its mark.
LEMMA BeginRollbackFacts ==
  ASSUME TypeInv, BeginRollback
  PROVE  /\ pc["serve"] = "rollback"
         /\ pc'["serve"] = IF AcceptedServices = {} THEN "settle" ELSE "undo"
         /\ alloc'.state \in {alloc.state, "rolling-back"}
         /\ failed["serve"] => failed'["serve"]
         /\ UNCHANGED <<ops, rows, held, runtime, nextId, stray, req, todo, outcome,
                        plan, acc>>
<1>1. /\ pc["serve"] = "rollback"
      /\ pc'["serve"] = IF AcceptedServices = {} THEN "settle" ELSE "undo"
      /\ UNCHANGED <<ops, rows, held, runtime, nextId, stray, req, todo, outcome,
                     plan, acc>>
  BY DEF TypeInv, TypeOK, BeginRollback, Goto, Proc, qpm, attempt
<1>2. alloc'.state \in {alloc.state, "rolling-back"}
  BY DEF TypeInv, TypeOK, BeginRollback, SetAllocationState, Allocation
<1>3. failed["serve"] => failed'["serve"]
  BY DEF TypeInv, TypeOK, BeginRollback, Proc
<1> QED
  BY <1>1, <1>2, <1>3

\* The rollback releases a reservation, or fails to.
LEMMA UndoCallFacts ==
  ASSUME PlainJob, TypeInv, UndoCall
  PROVE  \E s \in Services :
           /\ pc["serve"] = "undo" /\ Greatest(s, AcceptedServices)
           /\ pc'["serve"] = "undone"
           /\ UNCHANGED <<ops, alloc, rows, runtime, nextId, stray, req, todo, plan, acc>>
           /\ \A t \in Services \ {s} : held'[t] = held[t]
           /\ failed["serve"] => failed'["serve"]
           /\ \/ held'[s] = held[s] /\ failed'["serve"]
              \/ held'[s] = held[s] \ {acc[s].rid}
<1>1. PICK s \in Services, x \in {"ok", "failed", "refused"} :
        /\ pc["serve"] = "undo"
        /\ Greatest(s, AcceptedServices)
        /\ QpmRelease(s, acc[s].rid, acc[s].runtime, x)
        /\ failed' = [failed EXCEPT !["serve"] = @ \/ x = "failed"]
        /\ Goto("serve", "undone")
        /\ UNCHANGED <<ops, alloc, rows, stray, req, todo, plan, acc>>
  BY DEF UndoCall, journal, attempt
<1>2. /\ pc'["serve"] = "undone"
      /\ failed'["serve"] = (failed["serve"] \/ x = "failed")
  BY <1>1 DEF TypeInv, TypeOK, Goto, Proc
<1>3. x # "refused"
  BY <1>1 DEF PlainJob, QpmRelease
<1>4. /\ runtime' = runtime /\ nextId' = nextId
      /\ \A t \in Services \ {s} : held'[t] = held[t]
      /\ \/ held'[s] = held[s] /\ x # "ok"
         \/ held'[s] = held[s] \ {acc[s].rid}
  BY <1>1, QpmReleaseFacts
<1> QED
  BY <1>1, <1>2, <1>3, <1>4

\* Its result is recorded, or that fails.
LEMMA RecordUndoFacts ==
  ASSUME TypeInv, PlainInv, RecordUndo
  PROVE  \E s \in Services :
           /\ pc["serve"] = "undone" /\ Greatest(s, AcceptedServices)
           /\ pc'["serve"] = IF AcceptedServices = {s} THEN "settle" ELSE "undo"
           /\ UNCHANGED <<ops, alloc, held, runtime, nextId, stray, req, todo, plan>>
           /\ acc'[s].rid = 0 /\ \A t \in Services \ {s} : acc'[t] = acc[t]
           /\ \A t \in Services \ {s} : rows'[t] = rows[t]
           /\ failed["serve"] => failed'["serve"]
           /\ \/ rows'[s] = rows[s] /\ failed'["serve"]
              \/ /\ rows'[s].state = "rolled-back"
                 /\ acc[s].rid \notin held[s] /\ rows'[s].rid = acc[s].rid
              \/ /\ rows'[s].state = "rollback-failed" /\ rows'[s].rid = acc[s].rid
                 /\ failed["serve"]
<1>1. PICK s \in Services :
        /\ pc["serve"] = "undone"
        /\ Greatest(s, AcceptedServices)
        /\ \/ rows' = RecordReservation(rows, s, UndoRow(s)) /\ UNCHANGED failed
           \/ /\ failed' = [failed EXCEPT !["serve"] = TRUE]
              /\ UNCHANGED rows
        /\ acc' = [acc EXCEPT ![s] = [rid |-> 0, runtime |-> 0]]
        /\ Goto("serve", IF AcceptedServices = {s} THEN "settle" ELSE "undo")
        /\ UNCHANGED <<ops, alloc, held, runtime, nextId, stray, req, todo, plan>>
  BY DEF RecordUndo, qpm
<1>2. pc'["serve"] = IF AcceptedServices = {s} THEN "settle" ELSE "undo"
  BY <1>1 DEF TypeInv, TypeOK, Goto, Proc
<1>3. /\ acc'[s].rid = 0
      /\ \A t \in Services \ {s} : acc'[t] = acc[t]
  BY <1>1 DEF TypeInv, TypeOK
<1>4. /\ \A t \in Services \ {s} : rows'[t] = rows[t]
      /\ \/ /\ rows'[s] = rows[s]
            /\ failed'["serve"] = TRUE
         \/ /\ rows'[s] = UndoRow(s)
            /\ failed'["serve"] = failed["serve"]
  BY <1>1, RecordedRow, RowsWritten DEF TypeInv, TypeOK, Proc
<1>5. /\ UndoRow(s).rid = acc[s].rid
      /\ UndoRow(s).state = IF outcome["serve"] = "ok"
                            THEN "rolled-back" ELSE "rollback-failed"
  BY DEF UndoRow
<1>6. /\ outcome["serve"] = "ok" => acc[s].rid \notin held[s]
      /\ outcome["serve"] # "ok" => failed["serve"]
  BY <1>1 DEF UndoneIsFree, PlainInv, AttemptOwnsRows, Attempting
<1> QED
  BY <1>1, <1>2, <1>3, <1>4, <1>5, <1>6

\* The rollback is over: complete, or the handler ends.
LEMMA SettleFacts ==
  ASSUME TypeInv, PlainInv, Settle
  PROVE  /\ pc["serve"] = "settle"
         /\ UNCHANGED <<ops, rows, held, runtime, nextId, stray>>
         /\ \/ Return("serve") /\ UNCHANGED alloc
            \/ /\ ~ failed["serve"] /\ pc'["serve"] = "finish"
               /\ alloc'.state \in {"delayed", "rejected", "rolled-back"}
               /\ UNCHANGED <<req, todo, outcome, failed, plan, acc>>
<1>1. /\ pc["serve"] = "settle"
      /\ ~ plan.extends
      /\ UNCHANGED <<ops, rows, held, runtime, nextId, stray>>
  BY DEF PlainInv, OneContent, Settle, qpm
<1>2. CASE failed["serve"]
  BY <1>1, <1>2 DEF Settle
<1>3. CASE ~ failed["serve"]
  <2>1. pc'["serve"] = "finish" /\ UNCHANGED <<req, todo, outcome, failed, plan, acc>>
    BY <1>3 DEF TypeInv, TypeOK, Settle, Goto, Proc, loop, attempt
  <2>2. alloc'.state = SettledState(answer.kind)
    BY <1>1, <1>3 DEF TypeInv, TypeOK, Settle, CompleteAllocation, Allocation
  <2>3. answer.kind \in {"delayed", "rejected", "failed"}
    BY <1>1 DEF TypeInv, Control
  <2> QED
    BY <1>1, <1>3, <2>1, <2>2, <2>3 DEF SettledState
<1> QED
  BY <1>2, <1>3

\* The rows of the job are read for its release, or Slurm does not verify it.
LEMMA VerifyReleaseFacts ==
  ASSUME TypeInv, VerifyRelease
  PROVE  /\ pc["serve"] = "verify"
         /\ UNCHANGED <<ops, alloc, rows, held, runtime, nextId, stray>>
         /\ \/ Return("serve")
            \/ pc'["serve"] \in {"release", "tidy"} /\ UNCHANGED <<req, failed, plan, acc>>
BY DEF TypeInv, TypeOK, VerifyRelease, ReadRows, Goto, Proc, attempt, journal, qpm

\* A terminal row is passed.
LEMMA SkipTerminalFacts ==
  ASSUME TypeInv, SkipTerminal("serve")
  PROVE  /\ pc["serve"] = "release" /\ pc'["serve"] \in {"release", "tidy"}
         /\ UNCHANGED <<ops, alloc, rows, held, runtime, nextId, stray, req, failed,
                        plan, acc>>
<1>1. PICK s \in Services :
        /\ pc["serve"] = "release"
        /\ Least(s, todo["serve"])
        /\ NextRow("serve", s)
        /\ UNCHANGED <<ops, alloc, rows, held, runtime, nextId, stray, req, failed,
                       plan, acc>>
  BY DEF SkipTerminal, journal, qpm, attempt
<1>2. s \in todo["serve"]
  BY <1>1 DEF Least
<1> QED
  BY <1>1, <1>2, NextRowParts

\* A release drops the reservation of the row, or nothing.
LEMMA ReleaseCallFacts ==
  ASSUME TypeInv, PlainInv, ReleaseCall("serve")
  PROVE  \E s \in Services :
           /\ pc["serve"] = "release" /\ Least(s, todo["serve"])
           /\ pc'["serve"] = "released"
           /\ UNCHANGED <<ops, alloc, rows, runtime, nextId, stray, req, failed, plan,
                          acc>>
           /\ \A t \in Services \ {s} : held'[t] = held[t]
           /\ held'[s] \in {held[s], held[s] \ {rows[s].rid}}
<1>1. PICK s \in Services :
        /\ pc["serve"] = "release"
        /\ Least(s, todo["serve"])
        /\ \/ UNCHANGED qpm
           \/ \E x \in {"ok", "failed", "refused"} :
                QpmRelease(s, snap["serve"][s].rid, snap["serve"][s].runtime, x)
        /\ Goto("serve", "released")
        /\ UNCHANGED <<ops, alloc, rows, stray, req, failed, plan, acc>>
  BY DEF ReleaseCall, journal, attempt
<1>2. s \in todo["serve"]
  BY <1>1 DEF Least
<1>3. snap["serve"][s] = rows[s]
  BY <1>1, <1>2 DEF PlainInv, ReleaseCoversRows, Releasing
<1>4. pc'["serve"] = "released"
  BY <1>1 DEF TypeInv, TypeOK, Goto, Proc
<1>5. CASE UNCHANGED qpm
  BY <1>1, <1>4, <1>5 DEF qpm
<1>6. CASE \E x \in {"ok", "failed", "refused"} :
             QpmRelease(s, snap["serve"][s].rid, snap["serve"][s].runtime, x)
  <2>1. /\ runtime' = runtime /\ nextId' = nextId
        /\ \A t \in Services \ {s} : held'[t] = held[t]
        /\ held'[s] \in {held[s], held[s] \ {rows[s].rid}}
    BY <1>3, <1>6, QpmReleaseFacts
  <2> QED
    BY <1>1, <1>4, <2>1
<1> QED
  BY <1>1, <1>5, <1>6

\* The row keeps its reservation; while that is held, it says so.
LEMMA RecordReleaseFacts ==
  ASSUME TypeInv, PlainInv, RecordRelease("serve")
  PROVE  \E s \in Services :
           /\ pc["serve"] = "released" /\ pc'["serve"] \in {"release", "tidy"}
           /\ UNCHANGED <<ops, alloc, held, runtime, nextId, stray, req, plan, acc>>
           /\ \A t \in Services \ {s} : rows'[t] = rows[t]
           /\ rows'[s].rid = rows[s].rid
           /\ rows'[s].state \in {"released", "stale-runtime", "release-failed"}
           /\ rows[s].rid \in held[s] => /\ rows'[s].state = "release-failed"
                                         /\ rows[s].state \notin TerminalRows
<1>1. PICK s \in Services :
        /\ pc["serve"] = "released"
        /\ Least(s, todo["serve"])
        /\ rows' = RecordReservation(rows, s, ReleasedRow("serve", s))
        /\ NextRow("serve", s)
        /\ UNCHANGED <<ops, alloc, held, runtime, nextId, stray, req, plan, acc>>
  BY DEF RecordRelease, qpm, attempt
<1>2. s \in todo["serve"]
  BY <1>1 DEF Least
<1>3. pc'["serve"] \in {"release", "tidy"}
  BY <1>1, <1>2, NextRowParts
<1>4. /\ \A t \in Services \ {s} : rows'[t] = rows[t]
      /\ rows'[s].rid = rows[s].rid
      /\ rows'[s].state = ReleasedState(outcome["serve"])
  <2>1. snap["serve"][s] = rows[s]
    BY <1>1, <1>2 DEF PlainInv, ReleaseCoversRows, Releasing
  <2>2. rows'[s] = ReleasedRow("serve", s) /\ \A t \in Services \ {s} : rows'[t] = rows[t]
    BY <1>1, ReleasedRowWritten, RecordedRow DEF TypeInv, Proc
  <2> QED
    BY <2>1, <2>2, ReleasedRowWritten DEF Proc
<1>5. /\ outcome["serve"] \in {"ok", "stale", "failed"}
      /\ outcome["serve"] # "failed" => rows[s].rid \notin held[s]
  BY <1>1 DEF PlainInv, ReleaseCoversRows
<1>6. /\ ReleasedState(outcome["serve"]) \in {"released", "stale-runtime", "release-failed"}
      /\ outcome["serve"] = "failed" => ReleasedState(outcome["serve"]) = "release-failed"
  BY <1>5 DEF ReleasedState
<1>7. rows[s].rid \in held[s] => rows[s].state \notin TerminalRows
  BY DEF PlainInv, TerminalIsFree
<1> QED
  BY <1>1, <1>3, <1>4, <1>5, <1>6, <1>7

\* The release is journaled; without a failure no row names a held reservation.
LEMMA CompleteReleaseFacts ==
  ASSUME TypeInv, PlainInv, CompleteRelease("serve")
  PROVE  /\ pc["serve"] = "tidy"
         /\ UNCHANGED <<ops, rows, held, runtime, nextId, stray>>
         /\ \/ Return("serve") /\ UNCHANGED alloc
            \/ /\ alloc.state # "none" /\ pc'["serve"] = "finish"
               /\ UNCHANGED <<req, plan, acc>>
               /\ \/ alloc'.state = "release-incomplete"
                  \/ /\ alloc'.state = "released"
                     /\ \A s \in Services : rows[s].rid \notin held[s]
<1>1. pc["serve"] = "tidy" /\ UNCHANGED <<ops, rows, held, runtime, nextId, stray>>
  BY DEF CompleteRelease, qpm
<1>2. CASE alloc.state = "none"
  BY <1>1, <1>2 DEF CompleteRelease
<1>3. CASE alloc.state # "none"
  <2>1. pc'["serve"] = "finish" /\ UNCHANGED <<req, plan, acc>>
    BY <1>3 DEF TypeInv, TypeOK, CompleteRelease, Goto, Proc
  <2>2. alloc'.state = IF failed["serve"] THEN "release-incomplete" ELSE "released"
    BY <1>3 DEF TypeInv, TypeOK, CompleteRelease, CompleteAllocation, Allocation
  <2>3. ~ failed["serve"] => \A s \in Services : rows[s].rid \notin held[s]
    BY <1>1 DEF PlainInv, ReleaseCoversRows, Releasing
  <2> QED
    BY <1>1, <1>3, <2>1, <2>2, <2>3
<1> QED
  BY <1>2, <1>3

\* The call that an abandoned handler leaves: a reserve of the service it was at, a
\* release of a reservation of its attempt, or of one that its release has read.
LEMMA PendingFacts ==
  ASSUME TypeInv, PlainInv, NEW c \in PendingCalls("serve")
  PROVE  /\ c.service \in Services /\ c.rid \in Nat /\ c.rid < nextId
         /\ c.kind = "reserve" => /\ pc["serve"] = "call" /\ Attempting
                                  /\ Least(c.service, todo["serve"])
                                  /\ \A d \in PendingCalls("serve") : d = c
         /\ c.kind = "release" => pc["serve"] \in {"undo", "release"}
<1>0. /\ nextId \in Nat /\ nextId >= 1 /\ todo["serve"] \subseteq Services
      /\ \A s \in Services : /\ acc[s].rid \in Nat /\ acc[s].rid < nextId
                             /\ snap["serve"][s].rid \in Nat
                             /\ snap["serve"][s].rid < nextId
  BY DEF TypeInv, TypeOK, PlainInv, FreshIds, Accepted, Row, Proc
<1>1. CASE pc["serve"] = "call"
  <2>1. PendingCalls("serve") =
          {[kind |-> "reserve", service |-> s, rid |-> 0, runtime |-> bind] :
             s \in {t \in Services : Least(t, todo["serve"])}}
    BY <1>1 DEF PendingCalls
  <2>2. \A s, t \in Services :
          Least(s, todo["serve"]) /\ Least(t, todo["serve"]) => s = t
    BY <1>0, LeastUnique
  <2>3. Attempting
    BY <1>1 DEF Attempting
  <2> QED
    BY <1>0, <1>1, <2>1, <2>2, <2>3
<1>2. CASE pc["serve"] = "undo"
  <2>1. PendingCalls("serve") =
          {[kind |-> "release", service |-> s, rid |-> acc[s].rid,
            runtime |-> acc[s].runtime] :
             s \in {t \in Services : Greatest(t, AcceptedServices)}}
    BY <1>2 DEF PendingCalls
  <2> QED
    BY <1>0, <1>2, <2>1
<1>3. CASE pc["serve"] = "release"
  <2>1. PendingCalls("serve") =
          {[kind |-> "release", service |-> s, rid |-> snap["serve"][s].rid,
            runtime |-> snap["serve"][s].runtime] :
             s \in {t \in Services : /\ Least(t, todo["serve"])
                                     /\ snap["serve"][t].state \notin TerminalRows}}
    BY <1>3 DEF PendingCalls
  <2> QED
    BY <1>0, <1>3, <2>1
<1>4. CASE pc["serve"] \notin {"call", "undo", "release"}
  BY <1>4 DEF PendingCalls
<1> QED
  BY <1>1, <1>2, <1>3, <1>4

\* A call without its handler executes, or never does.
LEMMA StrayFacts ==
  ASSUME TypeInv, NEW c \in stray, StrayRuns(c)
  PROVE  /\ c.service \in Services /\ c.kind \in {"reserve", "release"}
         /\ stray' = stray \ {c}
         /\ UNCHANGED <<ops, alloc, rows, runtime, pc, req, todo, outcome, failed, plan,
                        acc>>
         /\ \A t \in Services \ {c.service} : held'[t] = held[t]
         /\ \/ held'[c.service] = held[c.service] /\ nextId' = nextId
            \/ /\ c.kind = "reserve" /\ nextId' = nextId + 1
               /\ held'[c.service] = held[c.service] \cup {nextId}
            \/ /\ c.kind = "release" /\ nextId' = nextId
               /\ held'[c.service] = held[c.service] \ {c.rid}
<1>1. c.service \in Services /\ c.kind \in {"reserve", "release"}
  BY DEF TypeInv, TypeOK, Call
<1>2. /\ stray' = stray \ {c}
      /\ UNCHANGED <<ops, alloc, rows, pc, req, todo, outcome, failed, plan, acc>>
      /\ \/ UNCHANGED <<held, runtime, nextId>>
         \/ c.kind = "reserve" /\ QpmCreates(c.service)
         \/ c.kind # "reserve" /\ QpmDrops(c.service, c.rid)
  BY DEF StrayRuns, journal, qpm, loop, attempt
<1>3. CASE UNCHANGED <<held, runtime, nextId>>
  BY <1>1, <1>2, <1>3
<1>4. CASE c.kind = "reserve" /\ QpmCreates(c.service)
  BY <1>1, <1>2, <1>4 DEF QpmCreates, TypeInv, TypeOK
<1>5. CASE c.kind # "reserve" /\ QpmDrops(c.service, c.rid)
  BY <1>1, <1>2, <1>5 DEF QpmDrops, TypeInv, TypeOK
<1> QED
  BY <1>2, <1>3, <1>4, <1>5

\* A row of the operations table is written: a release that has begun stays begun,
\* and a reserve begins none.
LEMMA OperationWritten ==
  ASSUME TypeInv, NEW r \in Requests, NEW o, o.state # "absent",
         ops' = [ops EXCEPT ![OperationKey(r)] = o]
  PROVE  /\ ~ NoReleaseBegun => ~ NoReleaseBegun'
         /\ r \in Releases => ~ NoReleaseBegun'
         /\ r \in Reserves => (NoReleaseBegun' <=> NoReleaseBegun)
<1>1. OperationKey(r) \in OperationKeys
  BY DEF OperationKeys
<1>2. /\ ops'[OperationKey(r)] = o
      /\ \A k \in OperationKeys : k # OperationKey(r) => ops'[k] = ops[k]
  BY <1>1 DEF TypeInv, TypeOK
<1>3. OperationKey(r)[2] = r.op
  BY DEF OperationKey
<1>4. r \in Releases => r.op = "release"
  BY RequestAssumption
<1>5. r \in Reserves => r.op = "reserve"
  BY RequestAssumption
<1> QED
  BY <1>1, <1>2, <1>3, <1>4, <1>5 DEF NoReleaseBegun

\* What begins and ends an operation.
LEMMA OperationFacts ==
  ASSUME TypeInv
  PROVE  /\ \A r \in Reserves : BeginReserve(r) => (NoReleaseBegun' <=> NoReleaseBegun)
         /\ \A r \in Releases : BeginRelease(r) => ~ NoReleaseBegun'
         /\ Finish => /\ ~ NoReleaseBegun => ~ NoReleaseBegun'
                      /\ req["serve"] \notin Releases =>
                           (NoReleaseBegun' <=> NoReleaseBegun)
<1>1. ASSUME NEW r \in Requests, ops' = StartOperation(ops, r)
      PROVE  /\ r \in Reserves => (NoReleaseBegun' <=> NoReleaseBegun)
             /\ r \in Releases => ~ NoReleaseBegun'
  <2>1. PICK o : o = [state |-> "started", request |-> r, response |-> NoResponse]
    OBVIOUS
  <2>2. o.state # "absent" /\ ops' = [ops EXCEPT ![OperationKey(r)] = o]
    BY <1>1, <2>1 DEF StartOperation
  <2> QED
    BY <2>2, OperationWritten
<1>2. ASSUME Finish
      PROVE  /\ ~ NoReleaseBegun => ~ NoReleaseBegun'
             /\ req["serve"] \notin Releases => (NoReleaseBegun' <=> NoReleaseBegun)
  <2>1. PICK r : r = req["serve"]
    OBVIOUS
  <2>2. r \in Requests
    BY <1>2, <2>1 DEF Finish, TypeInv, Control
  <2>3. PICK st : st = CompletionState(answer.kind)
    OBVIOUS
  <2>4. st \in {"retryable", "complete"}
    BY <2>3 DEF CompletionState
  <2>5. PICK o : o = [ops[OperationKey(r)] EXCEPT !.state = st, !.response = answer]
    OBVIOUS
  <2>6. ops' = [ops EXCEPT ![OperationKey(r)] = o]
    BY <1>2, <2>1, <2>3, <2>5 DEF Finish, CompleteOperation
  <2>7. ops[OperationKey(r)] \in Operation
    BY <2>2 DEF TypeInv, TypeOK, OperationKeys
  <2>8. o.state # "absent"
    BY <2>4, <2>5, <2>7 DEF Operation
  <2> QED
    BY <2>1, <2>2, <2>6, <2>8, OperationWritten DEF Requests
<1>3. Reserves \subseteq Requests /\ Releases \subseteq Requests
  BY DEF Requests
<1> QED
  BY <1>1, <1>2, <1>3 DEF BeginReserve, BeginRelease

-----------------------------------------------------------------------------
(* The invariants of the promise.                                          *)

\* The daemon returns and leaves the job as it is.
LEMMA ReturnPromise ==
  ASSUME TypeInv, PlainInv, PromiseInv, Return("serve"),
         ~ NoReleaseBegun => ~ NoReleaseBegun',
         UNCHANGED <<alloc, rows, held, runtime, nextId, stray>>
  PROVE  PromiseInv'
<1>0. /\ pc'["serve"] = "idle" /\ req'["serve"] = NoRequest /\ plan' = NoPlan
      /\ \A s \in Services : acc'[s].rid = 0
      /\ ~ Attempting'
  BY ReturnFacts
<1>1. FailedIsKept' /\ Covered'
  BY <1>0 DEF PromiseInv, FailedIsKept, Covered
<1>2. StraysKnown'
  BY <1>0 DEF PromiseInv, StraysKnown
<1>3. EndKnown'
  BY <1>0, RequestAssumption DEF EndKnown, Requests
<1>4. "lost" \notin Events => OneHeld'
  BY <1>0 DEF PromiseInv, OneHeld, AtMostOneReservation
<1> QED
  BY <1>1, <1>2, <1>3, <1>4 DEF PromiseInv

\* A step outside an attempt that leaves the journal's allocation and the QPMs alone.
LEMMA QuietPromise ==
  ASSUME TypeInv, PlainInv, PromiseInv, ~ Attempting', EndKnown',
         ~ NoReleaseBegun => ~ NoReleaseBegun',
         UNCHANGED <<alloc, rows, held, runtime, nextId, stray, plan, acc>>
  PROVE  PromiseInv'
<1>1. FailedIsKept' /\ Covered'
  BY DEF PromiseInv, FailedIsKept, Covered, Attempting
<1>2. StraysKnown'
  BY DEF PromiseInv, StraysKnown
<1>3. "lost" \notin Events => OneHeld'
  BY DEF PromiseInv, OneHeld, AtMostOneReservation
<1> QED
  BY <1>1, <1>2, <1>3 DEF PromiseInv

\* A request begins.
LEMMA BeginPromise ==
  ASSUME TypeInv, PlainInv, PromiseInv,
         \/ \E r \in Reserves : BeginReserve(r)
         \/ \E r \in Releases : BeginRelease(r)
  PROVE  PromiseInv'
<1>1. /\ pc'["serve"] \in {"allocate", "verify"}
      /\ UNCHANGED <<alloc, rows, held, runtime, nextId, stray, plan, acc>>
  BY DEF TypeInv, TypeOK, BeginReserve, BeginRelease, Goto, Proc, attempt, qpm
<1>2. ~ Attempting'
  BY <1>1 DEF Attempting
<1>3. CASE \E r \in Reserves : BeginReserve(r)
  <2>1. PICK r \in Reserves : BeginReserve(r)
    BY <1>3
  <2>2. req'["serve"] = r
    BY <2>1 DEF TypeInv, TypeOK, BeginReserve, Proc
  <2>3. r \notin Releases
    <3>1. r.op = "reserve"
      BY RequestAssumption
    <3>2. \A q \in Releases : q.op = "release"
      BY RequestAssumption
    <3> QED
      BY <3>1, <3>2
  <2>4. EndKnown'
    BY <2>2, <2>3 DEF EndKnown
  <2> QED
    BY <1>1, <1>2, <2>1, <2>4, OperationFacts, QuietPromise
<1>4. CASE \E r \in Releases : BeginRelease(r)
  <2>1. ~ NoReleaseBegun'
    BY <1>4, OperationFacts
  <2> QED
    BY <1>1, <1>2, <2>1, QuietPromise DEF EndKnown
<1> QED
  BY <1>3, <1>4

\* What an attempt knows of itself and of the calls left behind.
LEMMA AttemptFacts ==
  ASSUME TypeInv, PlainInv, PromiseInv, Attempting
  PROVE  /\ alloc.state \in {"reserving", "rolling-back"}
         /\ \A c \in stray : c.kind = "release" => ~ NoReleaseBegun
         /\ "lost" \notin Events => \A c \in stray : c.kind # "reserve"
         /\ \A s \in Services : 0 \notin held[s]
         /\ todo["serve"] \subseteq Services
         /\ nextId \in Nat /\ nextId >= 1
         /\ \A s \in Services : acc[s].rid \in Nat /\ acc[s].rid < nextId
<1>1. alloc.state \in {"reserving", "rolling-back"}
  BY DEF PlainInv, OneContent
<1>2. /\ \A c \in stray : c.kind = "release" => ~ NoReleaseBegun
      /\ "lost" \notin Events => \A c \in stray : c.kind # "reserve"
  BY DEF PromiseInv, StraysKnown, OneHeld
<1>3. /\ \A s \in Services : 0 \notin held[s]
      /\ nextId \in Nat /\ nextId >= 1
  BY DEF PlainInv, FreshIds, TypeInv, TypeOK
<1>4. \A s \in Services : acc[s].rid \in Nat /\ acc[s].rid < nextId
  BY DEF PlainInv, FreshIds, TypeInv, TypeOK, Accepted
<1>5. todo["serve"] \subseteq Services
  BY DEF TypeInv, TypeOK, Proc
<1> QED
  BY <1>1, <1>2, <1>3, <1>4, <1>5

\* begin_allocation.
LEMMA BeginAllocationPromise ==
  ASSUME PlainJob, TypeInv, PlainInv, PromiseInv, BeginAllocation
  PROVE  PromiseInv'
<1>0. /\ pc["serve"] = "allocate" /\ req["serve"] \in Reserves
      /\ UNCHANGED <<ops, rows, held, runtime, nextId, stray>>
      /\ \/ Return("serve") /\ UNCHANGED alloc
         \/ /\ pc'["serve"] = "finish"
            /\ UNCHANGED <<alloc, req, todo, outcome, failed, plan, acc>>
         \/ /\ alloc.state \in {"none", "delayed", "rolled-back"}
            /\ alloc'.state = "reserving"
            /\ pc'["serve"] = "resolve"
            /\ todo'["serve"] = req["serve"].services
            /\ UNCHANGED <<req, outcome, failed, plan, acc>>
  BY BeginAllocationFacts
<1>1. NoReleaseBegun' <=> NoReleaseBegun
  BY <1>0 DEF NoReleaseBegun
<1>2. CASE Return("serve") /\ UNCHANGED alloc
  BY <1>0, <1>1, <1>2, ReturnPromise
<1>3. CASE /\ pc'["serve"] = "finish"
           /\ UNCHANGED <<alloc, req, todo, outcome, failed, plan, acc>>
  BY <1>0, <1>1, <1>3, QuietPromise DEF Attempting, PromiseInv, EndKnown
<1>4. CASE /\ alloc.state \in {"none", "delayed", "rolled-back"}
           /\ alloc'.state = "reserving"
           /\ pc'["serve"] = "resolve"
           /\ todo'["serve"] = req["serve"].services
           /\ UNCHANGED <<req, outcome, failed, plan, acc>>
  <2>1. ~ failed["serve"] /\ \A s \in Services : acc[s].rid = 0
    BY <1>0 DEF PlainInv, CleanStart, AcceptedServices
  <2>2. \A s \in Services : rows[s].state # "rollback-failed"
    BY <1>4 DEF PromiseInv, FailedIsKept
  <2>3. FailedIsKept'
    BY <1>0, <2>2 DEF FailedIsKept
  <2>4. req["serve"].services = Wanted /\ Wanted \subseteq Services
    <3>1. \A r \in Reserves : r.services = req["serve"].services
      BY <1>0 DEF PlainJob
    <3>2. req["serve"].services \subseteq Services
      BY <1>0, ReserveParts
    <3> QED
      BY <1>0, <3>1, <3>2 DEF Wanted
  <2>5. Covered'
    BY <1>0, <1>4, <2>1, <2>4 DEF PromiseInv, Covered
  <2>6. EndKnown'
    BY <1>1, <1>4 DEF PromiseInv, EndKnown
  <2>7. \A c \in stray : c.kind = "release" => ~ NoReleaseBegun
    BY <1>4 DEF PromiseInv, StraysKnown
  <2>8. StraysKnown'
    BY <1>0, <1>1, <2>1, <2>7, <1>4 DEF PromiseInv, StraysKnown
  <2>9. ASSUME "lost" \notin Events PROVE OneHeld'
    <3>1. \A s \in Services : held[s] = {}
      BY <1>4, <2>9 DEF PromiseInv, OneHeld, Unreserved
    <3>2. \A c \in stray : c.kind # "reserve"
      BY <1>4, <2>9 DEF PromiseInv, OneHeld, Unreserved
    <3> QED
      BY <1>0, <1>4, <3>1, <3>2 DEF OneHeld, AtMostOneReservation, Unreserved
  <2> QED
    BY <2>3, <2>5, <2>6, <2>8, <2>9 DEF PromiseInv
<1> QED
  BY <1>0, <1>2, <1>3, <1>4

\* A step of an attempt that makes and drops no reservation: what is left to show.
LEMMA AttemptPromise ==
  ASSUME TypeInv, PlainInv, PromiseInv, Attempting, Attempting', FailedIsKept', Covered',
         UNCHANGED <<ops, held, nextId, stray, req>>,
         alloc'.state \in {"reserving", "rolling-back"},
         failed["serve"] => failed'["serve"],
         \A s \in Services : \/ acc'[s].rid = acc[s].rid
                             \/ acc'[s].rid = 0 /\ (acc[s].rid \in held[s] => failed'["serve"])
  PROVE  PromiseInv'
<1>0. NoReleaseBegun' <=> NoReleaseBegun
  BY DEF NoReleaseBegun
<1>1. EndKnown'
  BY <1>0 DEF PromiseInv, EndKnown
<1>2. StraysKnown'
  BY <1>0, AttemptFacts DEF PromiseInv, StraysKnown
<1>3. ASSUME "lost" \notin Events PROVE OneHeld'
  <2>1. AtMostOneReservation' /\ (~ failed["serve"] =>
                                    \A s \in Services : held[s] \subseteq {acc[s].rid})
    BY <1>3 DEF PromiseInv, OneHeld, AtMostOneReservation
  <2>2. ~ failed'["serve"] => \A s \in Services : held[s] \subseteq {acc'[s].rid}
    BY <2>1
  <2>3. \A c \in stray : c.kind # "reserve"
    BY <1>3, AttemptFacts
  <2> QED
    BY <2>1, <2>2, <2>3 DEF OneHeld, Unreserved
<1> QED
  BY <1>1, <1>2, <1>3 DEF PromiseInv

\* A service is resolved.
LEMMA ResolvePromise ==
  ASSUME TypeInv, PlainInv, PromiseInv, Resolve
  PROVE  PromiseInv'
<1>1. PICK s \in Services :
        /\ pc["serve"] = "resolve" /\ Least(s, todo["serve"])
        /\ UNCHANGED <<ops, alloc, held, runtime, nextId, stray, req, todo,
                       outcome, failed, plan, acc>>
        /\ \/ pc'["serve"] = "rollback" /\ rows' = rows
           \/ /\ pc'["serve"] = "call"
              /\ rows'[s].rid = 0 /\ rows'[s].state = "pending"
              /\ \A t \in Services \ {s} : rows'[t] = rows[t]
  BY ResolveFacts
<1>2. Attempting /\ Attempting' /\ s \in todo["serve"]
  BY <1>1 DEF Attempting, Least
<1>3. FailedIsKept'
  BY <1>1, <1>2 DEF PromiseInv, FailedIsKept
<1>4. Wanted \subseteq Services
  BY ReserveParts DEF Wanted
<1>5. Covered'
  BY <1>1, <1>2, <1>4 DEF PromiseInv, Covered, Made
<1> QED
  BY <1>1, <1>2, <1>3, <1>5, AttemptFacts, AttemptPromise

\* The row of a service is written.
LEMMA RecordResultPromise ==
  ASSUME TypeInv, PlainInv, PromiseInv, RecordResult
  PROVE  PromiseInv'
<1>1. PICK s \in Services :
        /\ pc["serve"] = "record" /\ Least(s, todo["serve"])
        /\ UNCHANGED <<ops, alloc, held, runtime, nextId, stray, req, failed,
                       plan, acc>>
        /\ \/ pc'["serve"] = "rollback" /\ rows' = rows
           \/ /\ rows'[s].rid = acc[s].rid /\ rows'[s].state = outcome["serve"]
              /\ \A t \in Services \ {s} : rows'[t] = rows[t]
              /\ todo'["serve"] = todo["serve"] \ {s}
              /\ IF outcome["serve"] = "accepted"
                 THEN pc'["serve"] = IF todo["serve"] = {s} THEN "accept"
                                                            ELSE "resolve"
                 ELSE pc'["serve"] = "rollback" /\ acc[s].rid = 0
  BY RecordResultFacts
<1>2. Attempting /\ Attempting' /\ s \in todo["serve"]
  BY <1>1 DEF Attempting, Least
<1>3. outcome["serve"] # "rollback-failed"
  BY <1>1 DEF TypeInv, Control
<1>4. FailedIsKept'
  BY <1>1, <1>2, <1>3 DEF PromiseInv, FailedIsKept
<1>5. Wanted \subseteq Services
  BY ReserveParts DEF Wanted
<1>6. Covered'
  <2>1. CASE pc'["serve"] = "rollback"
    BY <1>1, <2>1 DEF PromiseInv, Covered
  <2>2. CASE pc'["serve"] # "rollback"
    <3>1. Made(s) /\ outcome["serve"] = "accepted"
      BY <1>1, <2>2 DEF PromiseInv, Covered
    <3>2. \A t \in Services : Made(t)' <=> Made(t)
      BY <1>1 DEF Made
    <3>3. \A t \in Wanted \ todo'["serve"] :
            Made(t)' /\ rows'[t].rid = acc'[t].rid /\ rows'[t].state = "accepted"
      BY <1>1, <1>2, <1>5, <2>2, <3>1, <3>2 DEF PromiseInv, Covered
    <3> QED
      BY <1>1, <2>2, <3>1, <3>3 DEF PromiseInv, Covered
  <2> QED
    BY <2>1, <2>2
<1> QED
  BY <1>1, <1>2, <1>4, <1>6, AttemptFacts, AttemptPromise

\* A reserve call returns.
LEMMA ReserveCallPromise ==
  ASSUME TypeInv, PlainInv, PromiseInv, ReserveCall
  PROVE  PromiseInv'
<1>1. PICK s \in Services :
        /\ pc["serve"] = "call" /\ Least(s, todo["serve"])
        /\ UNCHANGED <<ops, alloc, rows, runtime, stray, req, todo, failed, plan>>
        /\ \A t \in Services \ {s} : held'[t] = held[t] /\ acc'[t] = acc[t]
        /\ \/ /\ pc'["serve"] = "rollback" /\ acc' = acc
              /\ \/ held'[s] = held[s] /\ nextId' = nextId
                 \/ /\ held'[s] = held[s] \cup {nextId} /\ nextId' = nextId + 1
                    /\ "lost" \in Events
           \/ /\ pc'["serve"] = "record" /\ acc' = acc
              /\ outcome'["serve"] # "accepted"
              /\ \/ held'[s] = held[s] /\ nextId' = nextId
                 \/ /\ held'[s] = held[s] \cup {nextId} /\ nextId' = nextId + 1
                    /\ "lost" \in Events
           \/ /\ pc'["serve"] = "record" /\ acc'[s].rid = nextId
              /\ outcome'["serve"] = "accepted"
              /\ held'[s] = held[s] \cup {nextId} /\ nextId' = nextId + 1
  BY ReserveCallFacts
<1>2. Attempting /\ Attempting' /\ s \in todo["serve"]
  BY <1>1 DEF Attempting, Least
<1>3. /\ acc[s].rid = 0 /\ ~ failed["serve"]
      /\ \A t \in Services : Least(t, todo["serve"]) => t = s
  <2>1. acc[s].rid = 0 /\ ~ failed["serve"]
    BY <1>1, <1>2 DEF PlainInv, AttemptOwnsRows
  <2>2. \A t \in Services : Least(t, todo["serve"]) => t = s
    BY <1>1, <1>2, AttemptFacts, LeastUnique
  <2> QED
    BY <2>1, <2>2
<1>4. FailedIsKept'
  BY <1>1, <1>2 DEF PromiseInv, FailedIsKept
<1>5. nextId \in Nat /\ nextId >= 1 /\ \A t \in Services : acc[t].rid < nextId
  BY <1>2, AttemptFacts
<1>6. Wanted \subseteq Services
  BY ReserveParts DEF Wanted
<1>7. Covered'
  <2>1. \A t \in Services \ {s} : Made(t)' <=> Made(t)
    BY <1>1 DEF Made
  <2>2. pc'["serve"] = "record" /\ outcome'["serve"] = "accepted" => Made(s)'
    BY <1>1, <1>5 DEF Made
  <2>3. \A t \in Services : Least(t, todo["serve"])' => t = s
    BY <1>1, <1>3 DEF Least
  <2>4. /\ plan' = NoPlan
        /\ \A t \in Services : runtime'[t] >= 1
        /\ todo'["serve"] \subseteq Wanted
        /\ pc'["serve"] # "accept"
    BY <1>1 DEF PromiseInv, Covered
  <2>5. \A t \in Services \ Wanted : acc'[t].rid = 0
    BY <1>1, <1>2 DEF PromiseInv, Covered
  <2>6. \A t \in Wanted \ todo'["serve"] :
          Made(t)' /\ rows'[t].rid = acc'[t].rid /\ rows'[t].state = "accepted"
    BY <1>1, <1>2, <1>6, <2>1 DEF PromiseInv, Covered
  <2> QED
    BY <2>2, <2>3, <2>4, <2>5, <2>6 DEF Covered
<1>8. NoReleaseBegun' <=> NoReleaseBegun
  BY <1>1 DEF NoReleaseBegun
<1>9. EndKnown'
  BY <1>1, <1>8 DEF PromiseInv, EndKnown
<1>10. StraysKnown'
  <2>1. \A c \in stray : c.rid \in Nat
    BY DEF TypeInv, TypeOK, Call
  <2>2. \A t \in Services : acc'[t].rid \in {acc[t].rid, nextId}
    BY <1>1
  <2>3. nextId' \in Nat /\ nextId <= nextId'
    BY <1>1, <1>5
  <2>4. \A c \in stray : c.kind = "release" => ~ NoReleaseBegun
    BY <1>2, AttemptFacts
  <2>5. \A c \in stray : c.rid < nextId'
    BY <1>5, <2>1, <2>3 DEF PromiseInv, StraysKnown
  <2>6. \A c \in stray : \A t \in Services : acc'[t].rid # 0 => acc'[t].rid # c.rid
    BY <1>5, <2>1, <2>2 DEF PromiseInv, StraysKnown
  <2> QED
    BY <1>1, <1>8, <2>4, <2>5, <2>6 DEF StraysKnown
<1>11. ASSUME "lost" \notin Events PROVE OneHeld'
  <2>1. \A t \in Services : held[t] \subseteq {acc[t].rid}
    BY <1>2, <1>3, <1>11 DEF PromiseInv, OneHeld
  <2>2. held[s] = {}
    BY <1>2, <1>3, <2>1, AttemptFacts
  <2>3. \A t \in Services : held'[t] \subseteq {acc'[t].rid}
    BY <1>1, <1>11, <2>1, <2>2
  <2>4. \A c \in stray : c.kind # "reserve"
    BY <1>2, <1>11, AttemptFacts
  <2>5. alloc'.state \notin Unreserved
    BY <1>1, <1>2, AttemptFacts DEF Unreserved
  <2> QED
    BY <1>1, <2>3, <2>4, <2>5 DEF OneHeld, AtMostOneReservation
<1> QED
  BY <1>4, <1>7, <1>9, <1>10, <1>11 DEF PromiseInv

\* The set is accepted.
LEMMA AcceptPromise ==
  ASSUME TypeInv, PlainInv, PromiseInv, Accept
  PROVE  PromiseInv'
<1>1. /\ pc["serve"] = "accept" /\ pc'["serve"] = "finish"
      /\ alloc'.state = "accepted"
      /\ UNCHANGED <<ops, rows, held, runtime, nextId, stray, req, failed, plan, acc>>
  BY AcceptFacts
<1>2. Attempting /\ ~ Attempting'
  BY <1>1 DEF Attempting
<1>3. ~ failed["serve"]
  BY <1>1, <1>2 DEF PlainInv, AttemptOwnsRows
<1>4. NoReleaseBegun' <=> NoReleaseBegun
  BY <1>1 DEF NoReleaseBegun
<1>5. FailedIsKept'
  BY <1>1, <1>2, <1>3 DEF PromiseInv, FailedIsKept
<1>6. Covered' /\ EndKnown'
  BY <1>1, <1>4 DEF PromiseInv, Covered, EndKnown
<1>7. StraysKnown'
  BY <1>1, <1>2, <1>4, AttemptFacts DEF PromiseInv, StraysKnown
<1>8. "lost" \notin Events => OneHeld'
  BY <1>1, <1>2, AttemptFacts DEF PromiseInv, OneHeld, AtMostOneReservation, Unreserved
<1> QED
  BY <1>5, <1>6, <1>7, <1>8 DEF PromiseInv

\* The rollback begins.
LEMMA BeginRollbackPromise ==
  ASSUME TypeInv, PlainInv, PromiseInv, BeginRollback
  PROVE  PromiseInv'
<1>1. /\ pc["serve"] = "rollback"
      /\ pc'["serve"] \in {"settle", "undo"}
      /\ alloc'.state \in {alloc.state, "rolling-back"}
      /\ failed["serve"] => failed'["serve"]
      /\ UNCHANGED <<ops, rows, held, runtime, nextId, stray, req, plan, acc>>
  BY BeginRollbackFacts
<1>2. Attempting /\ Attempting'
  BY <1>1 DEF Attempting
<1>3. alloc'.state \in {"reserving", "rolling-back"}
  BY <1>1, <1>2, AttemptFacts
<1>4. FailedIsKept'
  BY <1>1, <1>2, <1>3 DEF PromiseInv, FailedIsKept
<1>5. Covered'
  BY <1>1 DEF PromiseInv, Covered
<1> QED
  BY <1>1, <1>2, <1>3, <1>4, <1>5, AttemptPromise

\* The rollback releases a reservation.
LEMMA UndoCallPromise ==
  ASSUME PlainJob, TypeInv, PlainInv, PromiseInv, UndoCall
  PROVE  PromiseInv'
<1>1. PICK s \in Services :
        /\ pc["serve"] = "undo"
        /\ pc'["serve"] = "undone"
        /\ UNCHANGED <<ops, alloc, rows, runtime, nextId, stray, req, plan, acc>>
        /\ \A t \in Services \ {s} : held'[t] = held[t]
        /\ failed["serve"] => failed'["serve"]
        /\ \/ held'[s] = held[s]
           \/ held'[s] = held[s] \ {acc[s].rid}
  BY UndoCallFacts
<1>2. Attempting /\ Attempting'
  BY <1>1 DEF Attempting
<1>3. NoReleaseBegun' <=> NoReleaseBegun
  BY <1>1 DEF NoReleaseBegun
<1>4. \A t \in Services : held'[t] \subseteq held[t]
  BY <1>1
<1>5. FailedIsKept'
  BY <1>1, <1>2 DEF PromiseInv, FailedIsKept
<1>6. Covered' /\ EndKnown'
  BY <1>1, <1>3 DEF PromiseInv, Covered, EndKnown
<1>7. StraysKnown'
  BY <1>1, <1>2, <1>3, AttemptFacts DEF PromiseInv, StraysKnown
<1>8. ASSUME "lost" \notin Events PROVE OneHeld'
  <2>1. \A c \in stray : c.kind # "reserve"
    BY <1>2, <1>8, AttemptFacts
  <2>2. alloc'.state \notin Unreserved
    BY <1>1, <1>2, AttemptFacts DEF Unreserved
  <2>3. AtMostOneReservation'
    BY <1>4, <1>8 DEF PromiseInv, OneHeld, AtMostOneReservation
  <2>4. ~ failed'["serve"] => \A t \in Services : held'[t] \subseteq {acc'[t].rid}
    BY <1>1, <1>2, <1>4, <1>8 DEF PromiseInv, OneHeld
  <2> QED
    BY <1>1, <2>1, <2>2, <2>3, <2>4 DEF OneHeld
<1> QED
  BY <1>5, <1>6, <1>7, <1>8 DEF PromiseInv

\* Its result is recorded.
LEMMA RecordUndoPromise ==
  ASSUME TypeInv, PlainInv, PromiseInv, RecordUndo
  PROVE  PromiseInv'
<1>1. PICK s \in Services :
        /\ pc["serve"] = "undone" /\ Greatest(s, AcceptedServices)
        /\ pc'["serve"] = IF AcceptedServices = {s} THEN "settle" ELSE "undo"
        /\ UNCHANGED <<ops, alloc, held, runtime, nextId, stray, req, todo, plan>>
        /\ acc'[s].rid = 0 /\ \A t \in Services \ {s} : acc'[t] = acc[t]
        /\ \A t \in Services \ {s} : rows'[t] = rows[t]
        /\ failed["serve"] => failed'["serve"]
        /\ \/ rows'[s] = rows[s] /\ failed'["serve"]
           \/ /\ rows'[s].state = "rolled-back"
              /\ acc[s].rid \notin held[s] /\ rows'[s].rid = acc[s].rid
           \/ /\ rows'[s].state = "rollback-failed" /\ rows'[s].rid = acc[s].rid
              /\ failed["serve"]
  BY RecordUndoFacts
<1>2. Attempting /\ Attempting' /\ pc'["serve"] \in {"settle", "undo"}
  BY <1>1 DEF Attempting
<1>3. alloc.state \in {"reserving", "rolling-back"}
  BY <1>2, AttemptFacts
<1>4. FailedIsKept'
  BY <1>1, <1>2, <1>3 DEF PromiseInv, FailedIsKept
<1>5. Covered'
  BY <1>1, <1>2 DEF PromiseInv, Covered
<1>6. \A t \in Services : \/ acc'[t].rid = acc[t].rid
                          \/ acc'[t].rid = 0 /\ (acc[t].rid \in held[t] => failed'["serve"])
  BY <1>1
<1> QED
  BY <1>1, <1>2, <1>3, <1>4, <1>5, <1>6, AttemptPromise

\* The rollback is over.
LEMMA SettlePromise ==
  ASSUME TypeInv, PlainInv, PromiseInv, Settle
  PROVE  PromiseInv'
<1>1. /\ pc["serve"] = "settle"
      /\ UNCHANGED <<ops, rows, held, runtime, nextId, stray>>
      /\ \/ Return("serve") /\ UNCHANGED alloc
         \/ /\ ~ failed["serve"] /\ pc'["serve"] = "finish"
            /\ alloc'.state \in {"delayed", "rejected", "rolled-back"}
            /\ UNCHANGED <<req, todo, outcome, failed, plan, acc>>
  BY SettleFacts
<1>2. NoReleaseBegun' <=> NoReleaseBegun
  BY <1>1 DEF NoReleaseBegun
<1>3. CASE Return("serve") /\ UNCHANGED alloc
  BY <1>1, <1>2, <1>3, ReturnPromise
<1>4. CASE /\ ~ failed["serve"] /\ pc'["serve"] = "finish"
           /\ alloc'.state \in {"delayed", "rejected", "rolled-back"}
           /\ UNCHANGED <<req, todo, outcome, failed, plan, acc>>
  <2>1. Attempting /\ ~ Attempting'
    BY <1>1, <1>4 DEF Attempting
  <2>2. \A s \in Services : acc[s].rid = 0
    BY <1>1, <2>1 DEF PlainInv, AttemptOwnsRows, AcceptedServices
  <2>3. FailedIsKept'
    BY <1>1, <1>4, <2>1 DEF PromiseInv, FailedIsKept
  <2>4. Covered' /\ EndKnown'
    BY <1>1, <1>2, <1>4 DEF PromiseInv, Covered, EndKnown
  <2>5. StraysKnown'
    BY <1>1, <1>2, <1>4, <2>1, AttemptFacts DEF PromiseInv, StraysKnown
  <2>6. ASSUME "lost" \notin Events PROVE OneHeld'
    <3>1. \A s \in Services : held[s] = {}
      BY <1>4, <2>1, <2>2, <2>6, AttemptFacts DEF PromiseInv, OneHeld
    <3>2. \A c \in stray : c.kind # "reserve"
      BY <2>1, <2>6, AttemptFacts
    <3> QED
      BY <1>1, <2>1, <3>1, <3>2 DEF OneHeld, AtMostOneReservation
  <2> QED
    BY <2>3, <2>4, <2>5, <2>6 DEF PromiseInv
<1> QED
  BY <1>1, <1>3, <1>4

\* A release has begun while it is handled.
LEMMA ReleaseBegun ==
  ASSUME TypeInv, PromiseInv, pc["serve"] \in {"verify", "release", "released", "tidy"}
  PROVE  req["serve"] \in Releases /\ ~ NoReleaseBegun
BY DEF TypeInv, Control, PromiseInv, EndKnown

\* The steps of a release.
LEMMA ReleasePromise ==
  ASSUME TypeInv, PlainInv, PromiseInv, VerifyRelease \/ ReleaseStep("serve")
  PROVE  PromiseInv'
<1>1. CASE VerifyRelease
  <2>1. /\ pc["serve"] = "verify"
        /\ UNCHANGED <<ops, alloc, rows, held, runtime, nextId, stray>>
        /\ \/ Return("serve")
           \/ pc'["serve"] \in {"release", "tidy"} /\ UNCHANGED <<req, failed, plan, acc>>
    BY <1>1, VerifyReleaseFacts
  <2>2. NoReleaseBegun' <=> NoReleaseBegun
    BY <2>1 DEF NoReleaseBegun
  <2>3. CASE Return("serve")
    BY <2>1, <2>2, <2>3, ReturnPromise
  <2>4. CASE pc'["serve"] \in {"release", "tidy"} /\ UNCHANGED <<req, failed, plan, acc>>
    BY <2>1, <2>2, <2>4, QuietPromise DEF Attempting, PromiseInv, EndKnown
  <2> QED
    BY <2>1, <2>3, <2>4
<1>2. CASE SkipTerminal("serve")
  <2>1. /\ pc'["serve"] \in {"release", "tidy"}
        /\ UNCHANGED <<ops, alloc, rows, held, runtime, nextId, stray, req, failed,
                       plan, acc>>
    BY <1>2, SkipTerminalFacts
  <2>2. NoReleaseBegun' <=> NoReleaseBegun
    BY <2>1 DEF NoReleaseBegun
  <2> QED
    BY <2>1, <2>2, QuietPromise DEF Attempting, PromiseInv, EndKnown
<1>3. CASE ReleaseCall("serve")
  <2>1. PICK s \in Services :
          /\ pc["serve"] = "release"
          /\ pc'["serve"] = "released"
          /\ UNCHANGED <<ops, alloc, rows, runtime, nextId, stray, req, plan, acc>>
          /\ \A t \in Services \ {s} : held'[t] = held[t]
          /\ held'[s] \in {held[s], held[s] \ {rows[s].rid}}
    BY <1>3, ReleaseCallFacts
  <2>2. ~ Attempting /\ ~ Attempting'
    BY <2>1 DEF Attempting
  <2>3. NoReleaseBegun' <=> NoReleaseBegun
    BY <2>1 DEF NoReleaseBegun
  <2>4. \A t \in Services : held'[t] \subseteq held[t]
    BY <2>1
  <2>5. FailedIsKept' /\ EndKnown'
    BY <2>1, <2>2, <2>3 DEF PromiseInv, FailedIsKept, EndKnown
  <2>6. Covered'
    BY <2>1 DEF PromiseInv, Covered
  <2>7. StraysKnown'
    BY <2>1, <2>2, <2>3 DEF PromiseInv, StraysKnown
  <2>8. ASSUME "lost" \notin Events PROVE OneHeld'
    <3>1. AtMostOneReservation'
      BY <2>4, <2>8 DEF PromiseInv, OneHeld, AtMostOneReservation
    <3>2. alloc'.state \in Unreserved => \A t \in Services : held'[t] = {}
      BY <2>1, <2>4, <2>8 DEF PromiseInv, OneHeld
    <3>3. \A c \in stray : c.kind = "reserve" =>
            /\ alloc'.state \notin Unreserved
            /\ c.service \in Services /\ held'[c.service] = {}
            /\ \A d \in stray : d.kind = "reserve" => d = c
      BY <2>1, <2>4, <2>8 DEF PromiseInv, OneHeld, TypeInv, TypeOK, Call
    <3> QED
      BY <2>1, <2>2, <3>1, <3>2, <3>3 DEF OneHeld
  <2> QED
    BY <2>5, <2>6, <2>7, <2>8 DEF PromiseInv
<1>4. CASE RecordRelease("serve")
  <2>1. PICK s \in Services :
          /\ pc["serve"] = "released" /\ pc'["serve"] \in {"release", "tidy"}
          /\ UNCHANGED <<ops, alloc, held, runtime, nextId, stray, req, plan, acc>>
          /\ \A t \in Services \ {s} : rows'[t] = rows[t]
          /\ rows'[s].state \in {"released", "stale-runtime", "release-failed"}
    BY <1>4, RecordReleaseFacts
  <2>2. ~ Attempting /\ ~ Attempting'
    BY <2>1 DEF Attempting
  <2>3. NoReleaseBegun' <=> NoReleaseBegun
    BY <2>1 DEF NoReleaseBegun
  <2>4. FailedIsKept' /\ EndKnown'
    BY <2>1, <2>2, <2>3 DEF PromiseInv, FailedIsKept, EndKnown
  <2>5. Covered' /\ StraysKnown'
    BY <2>1, <2>2, <2>3 DEF PromiseInv, Covered, StraysKnown
  <2>6. "lost" \notin Events => OneHeld'
    BY <2>1, <2>2 DEF PromiseInv, OneHeld, AtMostOneReservation
  <2> QED
    BY <2>4, <2>5, <2>6 DEF PromiseInv
<1>5. CASE CompleteRelease("serve")
  <2>1. /\ pc["serve"] = "tidy"
        /\ UNCHANGED <<ops, rows, held, runtime, nextId, stray>>
        /\ \/ Return("serve") /\ UNCHANGED alloc
           \/ /\ alloc.state # "none" /\ pc'["serve"] = "finish"
              /\ UNCHANGED <<req, plan, acc>>
              /\ alloc'.state \in {"release-incomplete", "released"}
    BY <1>5, CompleteReleaseFacts
  <2>2. NoReleaseBegun' <=> NoReleaseBegun
    BY <2>1 DEF NoReleaseBegun
  <2>3. CASE Return("serve") /\ UNCHANGED alloc
    BY <2>1, <2>2, <2>3, ReturnPromise
  <2>4. CASE /\ pc'["serve"] = "finish" /\ UNCHANGED <<req, plan, acc>>
             /\ alloc'.state \in {"release-incomplete", "released"}
    <3>1. ~ Attempting'
      BY <2>4 DEF Attempting
    <3>2. ~ NoReleaseBegun
      BY <2>1, ReleaseBegun
    <3>3. FailedIsKept' /\ EndKnown'
      BY <2>1, <2>2, <2>4, <3>1 DEF PromiseInv, FailedIsKept, EndKnown
    <3>4. Covered' /\ StraysKnown'
      BY <2>1, <2>2, <2>4, <3>1, <3>2 DEF PromiseInv, Covered, StraysKnown
    <3>5. "lost" \notin Events => OneHeld'
      BY <2>1, <2>4, <3>1 DEF PromiseInv, OneHeld, AtMostOneReservation, Unreserved
    <3> QED
      BY <3>3, <3>4, <3>5 DEF PromiseInv
  <2> QED
    BY <2>1, <2>3, <2>4
<1> QED
  BY <1>1, <1>2, <1>3, <1>4, <1>5 DEF ReleaseStep

\* The daemon is cancelled or dies; its call goes on without it.
LEMMA AbandonPromise ==
  ASSUME TypeInv, PlainInv, PromiseInv, Abandon("serve")
  PROVE  PromiseInv'
<1>0. /\ Return("serve") /\ stray' = stray \cup PendingCalls("serve")
      /\ UNCHANGED <<ops, alloc, rows, held, runtime, nextId>>
  BY DEF Abandon, journal, qpm
<1>1. /\ pc'["serve"] = "idle" /\ req'["serve"] = NoRequest /\ plan' = NoPlan
      /\ \A s \in Services : acc'[s].rid = 0
      /\ ~ Attempting'
  BY <1>0, ReturnFacts
<1>2. NoReleaseBegun' <=> NoReleaseBegun
  BY <1>0 DEF NoReleaseBegun
<1>3. FailedIsKept' /\ Covered'
  BY <1>0, <1>1 DEF PromiseInv, FailedIsKept, Covered
<1>4. EndKnown'
  BY <1>1, RequestAssumption DEF EndKnown, Requests
<1>5. StraysKnown'
  <2>1. \A c \in PendingCalls("serve") :
          /\ c.rid < nextId
          /\ c.kind = "release" /\ NoReleaseBegun =>
               alloc.state \in {"reserving", "rolling-back"}
    <3> SUFFICES ASSUME NEW c \in PendingCalls("serve")
                 PROVE  /\ c.rid < nextId
                        /\ c.kind = "release" /\ NoReleaseBegun =>
                             alloc.state \in {"reserving", "rolling-back"}
      OBVIOUS
    <3>1. c.rid < nextId /\ (c.kind = "release" => pc["serve"] \in {"undo", "release"})
      BY PendingFacts
    <3>2. pc["serve"] = "undo" => alloc.state \in {"reserving", "rolling-back"}
      BY DEF PlainInv, OneContent, Attempting
    <3>3. pc["serve"] = "release" => ~ NoReleaseBegun
      BY ReleaseBegun
    <3> QED
      BY <3>1, <3>2, <3>3
  <2> QED
    BY <1>0, <1>1, <1>2, <2>1 DEF PromiseInv, StraysKnown
<1>6. ASSUME "lost" \notin Events PROVE OneHeld'
  <2>1. AtMostOneReservation' /\ (alloc.state \in Unreserved =>
                                    \A s \in Services : held[s] = {})
    BY <1>0, <1>6 DEF PromiseInv, OneHeld, AtMostOneReservation
  <2>2. ASSUME NEW c \in stray', c.kind = "reserve"
        PROVE  /\ alloc.state \notin Unreserved /\ held[c.service] = {}
               /\ \A d \in stray' : d.kind = "reserve" => d = c
    <3>1. CASE c \in PendingCalls("serve")
      <4>1. /\ pc["serve"] = "call" /\ Attempting /\ c.service \in Services
            /\ Least(c.service, todo["serve"])
            /\ \A d \in PendingCalls("serve") : d = c
        BY <2>2, <3>1, PendingFacts
      <4>2. c.service \in todo["serve"]
        BY <4>1 DEF Least
      <4>3. ~ failed["serve"] /\ acc[c.service].rid = 0
        BY <4>1, <4>2 DEF PlainInv, AttemptOwnsRows
      <4>4. held[c.service] \subseteq {0}
        BY <1>6, <4>1, <4>3 DEF PromiseInv, OneHeld
      <4>5. held[c.service] = {} /\ \A d \in stray : d.kind # "reserve"
        BY <1>6, <4>1, <4>4, AttemptFacts
      <4>6. alloc.state \notin Unreserved
        BY <4>1, AttemptFacts DEF Unreserved
      <4> QED
        BY <1>0, <4>1, <4>5, <4>6
    <3>2. CASE c \in stray
      <4>1. /\ ~ Attempting /\ alloc.state \notin Unreserved /\ held[c.service] = {}
            /\ \A d \in stray : d.kind = "reserve" => d = c
        BY <1>6, <2>2, <3>2 DEF PromiseInv, OneHeld
      <4>2. \A d \in PendingCalls("serve") : d.kind # "reserve"
        BY <4>1, PendingFacts
      <4> QED
        BY <1>0, <4>1, <4>2
    <3> QED
      BY <1>0, <2>2, <3>1, <3>2
  <2> QED
    BY <1>0, <1>1, <2>1, <2>2 DEF OneHeld
<1> QED
  BY <1>3, <1>4, <1>5, <1>6 DEF PromiseInv

\* A call without its handler executes.
LEMMA StrayPromise ==
  ASSUME TypeInv, PlainInv, PromiseInv, NEW c \in stray, StrayRuns(c)
  PROVE  PromiseInv'
<1>0. /\ c.service \in Services /\ c.kind \in {"reserve", "release"}
      /\ stray' = stray \ {c}
      /\ UNCHANGED <<ops, alloc, rows, runtime, pc, req, todo, outcome, failed, plan, acc>>
      /\ \A t \in Services \ {c.service} : held'[t] = held[t]
      /\ \/ held'[c.service] = held[c.service] /\ nextId' = nextId
         \/ /\ c.kind = "reserve" /\ nextId' = nextId + 1
            /\ held'[c.service] = held[c.service] \cup {nextId}
         \/ /\ c.kind = "release" /\ nextId' = nextId
            /\ held'[c.service] = held[c.service] \ {c.rid}
  BY StrayFacts
<1>1. Attempting' <=> Attempting
  BY <1>0 DEF Attempting
<1>2. NoReleaseBegun' <=> NoReleaseBegun
  BY <1>0 DEF NoReleaseBegun
<1>3. FailedIsKept' /\ EndKnown'
  BY <1>0, <1>1, <1>2 DEF PromiseInv, FailedIsKept, EndKnown
<1>4. \A t \in Services : Made(t) => Made(t)'
  BY <1>0 DEF PromiseInv, StraysKnown, Made
<1>5. Covered'
  <2>1. \A t \in Services : Least(t, todo["serve"])' <=> Least(t, todo["serve"])
    BY <1>0 DEF Least
  <2>2. Wanted \subseteq Services
    BY ReserveParts DEF Wanted
  <2> QED
    BY <1>0, <1>4, <2>1, <2>2 DEF PromiseInv, Covered
<1>6. StraysKnown'
  <2>1. nextId \in Nat /\ nextId' \in Nat /\ nextId <= nextId'
    BY <1>0 DEF TypeInv, TypeOK
  <2>2. \A d \in stray : d.rid \in Nat
    BY DEF TypeInv, TypeOK, Call
  <2>3. \A d \in stray : d.rid < nextId'
    BY <2>1, <2>2 DEF PromiseInv, StraysKnown
  <2> QED
    BY <1>0, <1>1, <1>2, <2>3 DEF PromiseInv, StraysKnown
<1>7. ASSUME "lost" \notin Events PROVE OneHeld'
  <2>1. CASE \A t \in Services : held'[t] \subseteq held[t]
    <3>1. AtMostOneReservation'
      BY <1>7, <2>1 DEF PromiseInv, OneHeld, AtMostOneReservation
    <3>2. /\ alloc'.state \in Unreserved => \A t \in Services : held'[t] = {}
          /\ Attempting' /\ ~ failed'["serve"] =>
               \A s \in Services : held'[s] \subseteq {acc'[s].rid}
      BY <1>0, <1>1, <1>7, <2>1 DEF PromiseInv, OneHeld
    <3>3. \A d \in stray : d.service \in Services
      BY DEF TypeInv, TypeOK, Call
    <3> QED
      BY <1>0, <1>1, <1>7, <2>1, <3>1, <3>2, <3>3 DEF PromiseInv, OneHeld
  <2>2. CASE /\ c.kind = "reserve"
             /\ held'[c.service] = held[c.service] \cup {nextId}
    <3>1. /\ ~ Attempting /\ alloc.state \notin Unreserved /\ held[c.service] = {}
          /\ \A d \in stray : d.kind = "reserve" => d = c
      BY <1>7, <2>2 DEF PromiseInv, OneHeld
    <3>2. held'[c.service] = {nextId}
      BY <2>2, <3>1
    <3>3. AtMostOneReservation'
      BY <1>0, <1>7, <3>2 DEF PromiseInv, OneHeld, AtMostOneReservation
    <3>4. \A d \in stray' : d.kind # "reserve"
      BY <1>0, <3>1
    <3> QED
      BY <1>0, <1>1, <3>1, <3>3, <3>4 DEF OneHeld
  <2> QED
    BY <1>0, <2>1, <2>2
<1> QED
  BY <1>3, <1>5, <1>6, <1>7 DEF PromiseInv

\* A QPM restarts.
LEMMA RestartPromise ==
  ASSUME TypeInv, PlainInv, PromiseInv, NEW s \in Services, QpmRestart(s)
  PROVE  PromiseInv'
<1>0. /\ UNCHANGED <<ops, alloc, rows, nextId, stray, pc, req, todo, outcome, failed,
                     plan, acc>>
      /\ held'[s] = {} /\ \A t \in Services \ {s} : held'[t] = held[t]
      /\ runtime'[s] = runtime[s] + 1
      /\ \A t \in Services \ {s} : runtime'[t] = runtime[t]
  BY DEF TypeInv, TypeOK, QpmRestart, journal, loop, attempt
<1>1. Attempting' <=> Attempting
  BY <1>0 DEF Attempting
<1>2. NoReleaseBegun' <=> NoReleaseBegun
  BY <1>0 DEF NoReleaseBegun
<1>3. FailedIsKept' /\ EndKnown' /\ StraysKnown'
  BY <1>0, <1>1, <1>2 DEF PromiseInv, FailedIsKept, EndKnown, StraysKnown
<1>4. \A t \in Services : /\ runtime[t] \in Nat /\ runtime[t] >= 1
                          /\ runtime'[t] >= 1
                          /\ Made(t) => Made(t)'
  BY <1>0 DEF PromiseInv, Covered, Made, TypeInv, TypeOK
<1>5. Covered'
  <2>1. \A t \in Services : Least(t, todo["serve"])' <=> Least(t, todo["serve"])
    BY <1>0 DEF Least
  <2>2. Wanted \subseteq Services
    BY ReserveParts DEF Wanted
  <2> QED
    BY <1>0, <1>4, <2>1, <2>2 DEF PromiseInv, Covered
<1>6. \A t \in Services : held'[t] \subseteq held[t]
  BY <1>0
<1>7. ASSUME "lost" \notin Events PROVE OneHeld'
  <2>1. AtMostOneReservation'
    BY <1>6, <1>7 DEF PromiseInv, OneHeld, AtMostOneReservation
  <2>2. /\ alloc'.state \in Unreserved => \A t \in Services : held'[t] = {}
        /\ Attempting' /\ ~ failed'["serve"] =>
             \A t \in Services : held'[t] \subseteq {acc'[t].rid}
    BY <1>0, <1>1, <1>6, <1>7 DEF PromiseInv, OneHeld
  <2>3. \A d \in stray : d.service \in Services
    BY DEF TypeInv, TypeOK, Call
  <2> QED
    BY <1>0, <1>1, <1>6, <1>7, <2>1, <2>2, <2>3 DEF PromiseInv, OneHeld
<1> QED
  BY <1>3, <1>5, <1>7 DEF PromiseInv

\* The journal fails where no handler of it is left.
LEMMA JournalPromise ==
  ASSUME TypeInv, PlainInv, PromiseInv, JournalFails("serve")
  PROVE  PromiseInv'
<1>1. Return("serve") /\ UNCHANGED <<ops, alloc, rows, held, runtime, nextId, stray>>
  BY DEF JournalFails, journal, qpm
<1>2. NoReleaseBegun' <=> NoReleaseBegun
  BY <1>1 DEF NoReleaseBegun
<1> QED
  BY <1>1, <1>2, ReturnPromise

\* The operation is completed.
LEMMA FinishPromise ==
  ASSUME TypeInv, PlainInv, PromiseInv, Finish
  PROVE  PromiseInv'
<1>1. Return("serve") /\ UNCHANGED <<alloc, rows, held, runtime, nextId, stray>>
  BY DEF Finish, qpm
<1>2. ~ NoReleaseBegun => ~ NoReleaseBegun'
  BY OperationFacts
<1> QED
  BY <1>1, <1>2, ReturnPromise

\* The steps of a plain job: those of the daemon, and of the QPMs and their calls.
LEMMA PlainSteps ==
  ASSUME PlainJob, TypeInv, PlainInv, [Next]_vars
  PROVE  \/ ReserveStep
         \/ \E r \in Releases : BeginRelease(r)
         \/ VerifyRelease \/ ReleaseStep("serve")
         \/ JournalFails("serve") \/ Abandon("serve")
         \/ \E c \in stray : StrayRuns(c)
         \/ \E s \in Services : QpmRestart(s)
         \/ UNCHANGED vars
<1>1. pc["admin"] = "idle" /\ "admin" \notin Events
  BY DEF PlainInv, OneContent, PlainJob
<1>2. CASE RetryRelease
  BY <1>1, <1>2 DEF RetryRelease
<1>3. CASE \E p \in Proc : ReleaseStep(p)
  BY <1>1, <1>3
     DEF Proc, ReleaseStep, SkipTerminal, ReleaseCall, RecordRelease, CompleteRelease
<1>4. CASE Fault
  <2>1. CASE Cancel \/ \E p \in Proc : JournalFails(p) \/ Crash(p)
    BY <1>1, <2>1 DEF Cancel, JournalFails, Crash, Proc
  <2> QED
    BY <1>4, <2>1 DEF Fault
<1> QED
  BY <1>2, <1>3, <1>4 DEF Next

\* PromiseInv is preserved by every step of a plain job.
LEMMA NextPromise ==
  ASSUME PlainJob, TypeInv, PlainInv, PromiseInv, [Next]_vars
  PROVE  PromiseInv'
<1>1. CASE ReserveStep
  BY <1>1, BeginPromise, BeginAllocationPromise, ResolvePromise, ReserveCallPromise,
     RecordResultPromise, AcceptPromise, BeginRollbackPromise, UndoCallPromise,
     RecordUndoPromise, SettlePromise, FinishPromise
     DEF ReserveStep
<1>2. CASE \E r \in Releases : BeginRelease(r)
  BY <1>2, BeginPromise
<1>3. CASE VerifyRelease \/ ReleaseStep("serve")
  BY <1>3, ReleasePromise
<1>4. CASE JournalFails("serve") \/ Abandon("serve")
  BY <1>4, JournalPromise, AbandonPromise
<1>5. CASE \/ \E c \in stray : StrayRuns(c)
           \/ \E s \in Services : QpmRestart(s)
  BY <1>5, StrayPromise, RestartPromise
<1>6. CASE UNCHANGED vars
  BY <1>6 DEF vars, journal, qpm, loop, attempt, PromiseInv, FailedIsKept, Attempting,
     Covered, Made, Least, StraysKnown, EndKnown, NoReleaseBegun, OneHeld,
     AtMostOneReservation
<1> QED
  BY <1>1, <1>2, <1>3, <1>4, <1>5, <1>6, PlainSteps

\* Nothing is reserved and nothing has been asked.
LEMMA InitPromise ==
  ASSUME Init
  PROVE  PromiseInv
<1>1. pc["serve"] = "idle" /\ req["serve"] = NoRequest /\ plan = NoPlan
  BY DEF Init, Proc
<1>2. ~ Attempting
  BY <1>1 DEF Attempting
<1>3. FailedIsKept
  BY DEF Init, FailedIsKept, NoRows, NoRow
<1>4. Covered
  BY <1>1 DEF Init, Covered
<1>5. StraysKnown
  BY DEF Init, StraysKnown
<1>6. EndKnown
  BY <1>1, RequestAssumption DEF EndKnown, Requests
<1>7. OneHeld
  BY <1>2 DEF Init, OneHeld, AtMostOneReservation
<1> QED
  BY <1>3, <1>4, <1>5, <1>6, <1>7 DEF PromiseInv

Promised == PlainTypeInv /\ PromiseInv

\* Promised is an invariant of a plain job.
LEMMA PromisedCorrect ==
  ASSUME PlainJob
  PROVE  Spec => []Promised
<1>1. Init => Promised
  BY InitType, InitOwn, InitPromise DEF Promised, PlainTypeInv
<1>2. PlainTypeInv /\ Promised /\ [Next]_vars /\ PlainTypeInv' => Promised'
  BY NextPromise DEF Promised, PlainTypeInv
<1> QED
  BY <1>1, <1>2, PlainInvCorrect, PTL DEF Spec

-----------------------------------------------------------------------------
(* The theorems about a plain job.                                         *)

\* For a job without components, whatever is repeated, times out, fails or crashes:
\* the rows of the journal and the locals of the handler account for every
\* reservation that _reserve_services, _rollback and release answer for.
THEOREM PlainSafe ==
  ASSUME PlainJob
  PROVE  Spec => []PlainInv
<1>1. PlainTypeInv => PlainInv
  BY DEF PlainTypeInv
<1> QED
  BY <1>1, PlainInvCorrect, PTL

\* For a job without components, while a row says that its rollback failed,
\* begin_allocation starts no attempt for any request: _rollback left the allocation
\* "rolling-back" or "reserving", and what a release makes of it is not reserved again.
THEOREM RollbackRefused ==
  ASSUME PlainJob
  PROVE  Spec => []IncompleteRollbackRefused
<1>1. Promised => IncompleteRollbackRefused
  <2> SUFFICES ASSUME TypeInv, PlainInv, PromiseInv, NEW r \in Reserves,
                      NEW s \in Services, rows[s].state = "rollback-failed"
               PROVE  /\ ~ AllocationReserves(alloc, rows, r)
                      /\ ~ AllocationExtends(alloc, rows, r)
    BY DEF Promised, PlainTypeInv, IncompleteRollbackRefused
  <2>1. alloc.state \in {"reserving", "rolling-back", "release-incomplete", "released"}
    BY DEF PromiseInv, FailedIsKept
  <2>2. alloc.fingerprint = AllocationFingerprint(r)
    BY <2>1 DEF PlainInv, OneContent
  <2> QED
    BY <2>1, <2>2 DEF AllocationReserves, AllocationExtends, AllocationRefused
<1> QED
  BY <1>1, PromisedCorrect, PTL

\* For a job without components, a QPM holds one reservation at most, if no QPM call
\* raises after it has taken effect: the attempts of _reserve_services, its rollback,
\* and the calls that a cancelled or dead handler left behind never make a second one.
THEOREM OneReservation ==
  ASSUME PlainJob, "lost" \notin Events
  PROVE  Spec => []AtMostOneReservation
<1>1. Promised => AtMostOneReservation
  BY DEF Promised, PromiseInv, OneHeld
<1> QED
  BY <1>1, PromisedCorrect, PTL

-----------------------------------------------------------------------------
(* The refinement: each step of the gateway is a step of JobReservations,  *)
(* or leaves its state alone.                                              *)

FreeStates == {"none", "delayed", "rejected", "rolled-back", "released"}

\* The phase, before a step and after it.
LEMMA PhaseValue ==
  /\ alloc.state = "accepted" => Phase = "granted"
  /\ alloc.state \in FreeStates => Phase = "free"
  /\ alloc.state \notin FreeStates \cup {"accepted"} => Phase = "pending"
BY Zenon DEF Phase, FreeStates

\* The same after a step.
LEMMA PhaseValueNext ==
  /\ alloc'.state = "accepted" => Phase' = "granted"
  /\ alloc'.state \in FreeStates => Phase' = "free"
  /\ alloc'.state \notin FreeStates \cup {"accepted"} => Phase' = "pending"
BY Zenon DEF Phase, FreeStates

\* What is kept and given, before a step and after it.
LEMMA KeptValue ==
  /\ Kept = [s \in Services |-> IF Tracked(s) THEN rows[s].rid ELSE 0]
  /\ Kept' = [s \in Services |-> IF Tracked(s)' THEN rows'[s].rid ELSE 0]
  /\ Given = IF alloc.state = "accepted" THEN alloc.response.ids ELSE NoIds
  /\ Given' = IF alloc'.state = "accepted" THEN alloc'.response.ids ELSE NoIds
BY DEF Kept, Given, NoIds

\* A step that changes none of the parts.
LEMMA Stutters ==
  ASSUME Phase' = Phase, Kept' = Kept, Given' = Given, runtime' = runtime,
         NoReleaseBegun' <=> NoReleaseBegun
  PROVE  [Promise!Next]_(Promise!vars)
BY DEF Promise!vars

\* What is kept stays as it is where row and QPM agree as before.
LEMMA KeptSame ==
  ASSUME \A s \in Services : /\ Tracked(s)' <=> Tracked(s)
                             /\ Tracked(s) => rows'[s].rid = rows[s].rid
  PROVE  Kept' = Kept
BY KeptValue

\* A step that leaves the allocation alone.
LEMMA AllocationSame ==
  ASSUME alloc' = alloc
  PROVE  Phase' = Phase /\ Given' = Given
BY DEF Phase, Given, NoIds

\* An operation that goes on begins no release.
LEMMA EndSame ==
  ASSUME ops' = ops
  PROVE  NoReleaseBegun' <=> NoReleaseBegun
BY DEF NoReleaseBegun

\* A step of a handler that changes neither what is kept nor the allocation.
LEMMA QuietStep ==
  ASSUME UNCHANGED <<alloc, runtime>>, NoReleaseBegun' <=> NoReleaseBegun,
         \A s \in Services : /\ Tracked(s)' <=> Tracked(s)
                             /\ Tracked(s) => rows'[s].rid = rows[s].rid
  PROVE  [Promise!Next]_(Promise!vars)
BY Stutters, KeptSame, AllocationSame

\* A reservation is kept.
LEMMA KeepStep ==
  ASSUME TypeInv, NEW s \in Services, UNCHANGED <<alloc, runtime>>,
         NoReleaseBegun' <=> NoReleaseBegun,
         alloc.state \notin FreeStates \cup {"accepted"},
         ~ Tracked(s), Tracked(s)', rows'[s].rid \in Nat, rows'[s].rid # 0,
         \A t \in Services \ {s} : /\ Tracked(t)' <=> Tracked(t)
                                   /\ Tracked(t) => rows'[t].rid = rows[t].rid
  PROVE  [Promise!Next]_(Promise!vars)
<1>1. Phase = "pending" /\ Phase' = Phase /\ Given' = Given
  BY PhaseValue, AllocationSame
<1>2. Kept[s] = 0 /\ Kept'[s] = rows'[s].rid
  BY KeptValue
<1>3. Kept' = [Kept EXCEPT ![s] = Kept'[s]]
  BY KeptValue
<1>4. Promise!Keep(s)
  BY <1>1, <1>2, <1>3 DEF Promise!Keep
<1> QED
  BY <1>4 DEF Promise!Next

\* A reservation goes back.
LEMMA GiveBackStep ==
  ASSUME TypeInv, PlainInv, NEW s \in Services, UNCHANGED <<alloc, runtime>>,
         NoReleaseBegun' <=> NoReleaseBegun,
         alloc.state \notin FreeStates \cup {"accepted"} \/ ~ NoReleaseBegun,
         Tracked(s), ~ Tracked(s)',
         \A t \in Services \ {s} : /\ Tracked(t)' <=> Tracked(t)
                                   /\ Tracked(t) => rows'[t].rid = rows[t].rid
  PROVE  [Promise!Next]_(Promise!vars)
<1>1. /\ Phase = "pending" \/ ~ NoReleaseBegun
      /\ Phase' = Phase /\ Given' = Given
  BY PhaseValue, AllocationSame
<1>2. Kept[s] # 0
  BY KeptValue DEF Tracked, PlainInv, FreshIds
<1>3. Kept' = [Kept EXCEPT ![s] = 0]
  BY KeptValue
<1>4. Promise!GiveBack(s)
  BY <1>1, <1>2, <1>3 DEF Promise!GiveBack
<1> QED
  BY <1>4 DEF Promise!Next

\* The end of the job begins, or is begun already.
LEMMA EndStep ==
  ASSUME UNCHANGED <<alloc, rows, held, runtime>>, ~ NoReleaseBegun'
  PROVE  [Promise!Next]_(Promise!vars)
<1>1. Phase' = Phase /\ Given' = Given /\ Kept' = Kept
  BY AllocationSame, KeptSame DEF Tracked
<1>2. Promise!BeginEnd
  BY <1>1 DEF Promise!BeginEnd
<1> QED
  BY <1>2 DEF Promise!Next

\* The handler returns and leaves the job as it is.
LEMMA ReturnStep ==
  ASSUME UNCHANGED <<alloc, rows, held, runtime>>, NoReleaseBegun' <=> NoReleaseBegun
  PROVE  [Promise!Next]_(Promise!vars)
BY QuietStep DEF Tracked

\* begin_allocation asks, where nothing is kept.
LEMMA BeginAllocationStep ==
  ASSUME PlainJob, TypeInv, PlainInv, BeginAllocation
  PROVE  [Promise!Next]_(Promise!vars)
<1>1. /\ UNCHANGED <<ops, rows, held, runtime>>
      /\ \/ alloc' = alloc
         \/ /\ alloc.state \in {"none", "delayed", "rolled-back"}
            /\ alloc'.state = "reserving"
  BY BeginAllocationFacts
<1>2. NoReleaseBegun' <=> NoReleaseBegun
  BY <1>1, EndSame
<1>3. CASE alloc' = alloc
  BY <1>1, <1>2, <1>3, ReturnStep
<1>4. CASE /\ alloc.state \in {"none", "delayed", "rolled-back"}
           /\ alloc'.state = "reserving"
  <2>1. Phase = "free" /\ Phase' = "pending"
    BY <1>4, PhaseValue, PhaseValueNext DEF FreeStates
  <2>2. Given' = Given
    BY <1>4, KeptValue
  <2>3. Kept' = Kept
    BY <1>1, KeptSame DEF Tracked
  <2>4. Kept = [s \in Services |-> 0]
    BY <1>4, KeptValue DEF PlainInv, TerminalIsFree, Tracked
  <2>5. Promise!Ask
    BY <1>1, <1>2, <2>1, <2>2, <2>3, <2>4 DEF Promise!Ask, Promise!None
  <2> QED
    BY <2>5 DEF Promise!Next
<1> QED
  BY <1>1, <1>3, <1>4

\* A pending row is written over one that names nothing that is held.
LEMMA ResolveStep ==
  ASSUME TypeInv, PlainInv, Resolve
  PROVE  [Promise!Next]_(Promise!vars)
<1>1. PICK s \in Services :
        /\ pc["serve"] = "resolve" /\ Least(s, todo["serve"])
        /\ UNCHANGED <<ops, alloc, held, runtime>>
        /\ \/ rows' = rows
           \/ /\ rows'[s].rid = 0
              /\ \A t \in Services \ {s} : rows'[t] = rows[t]
  BY ResolveFacts
<1>2. NoReleaseBegun' <=> NoReleaseBegun
  BY <1>1, EndSame
<1>3. ~ Tracked(s)
  BY <1>1 DEF Tracked, PlainInv, AttemptOwnsRows, Attempting, Least
<1>4. 0 \notin held[s]
  BY DEF PlainInv, FreshIds
<1> QED
  BY <1>1, <1>2, <1>3, <1>4, ReturnStep, QuietStep DEF Tracked

\* A reservation is made that no row names yet.
LEMMA ReserveCallStep ==
  ASSUME TypeInv, PlainInv, ReserveCall
  PROVE  [Promise!Next]_(Promise!vars)
<1>1. PICK s \in Services :
        /\ UNCHANGED <<ops, alloc, rows, runtime>>
        /\ \A t \in Services \ {s} : held'[t] = held[t]
        /\ held'[s] \in {held[s], held[s] \cup {nextId}}
  BY ReserveCallFacts
<1>2. NoReleaseBegun' <=> NoReleaseBegun
  BY <1>1, EndSame
<1>3. rows[s].rid # nextId
  BY DEF TypeInv, TypeOK, PlainInv, FreshIds, Row
<1>4. \A t \in Services : Tracked(t)' <=> Tracked(t)
  BY <1>1, <1>3 DEF Tracked
<1> QED
  BY <1>1, <1>2, <1>4, QuietStep

\* What the QPM accepted is recorded, and kept from then on.
LEMMA RecordResultStep ==
  ASSUME TypeInv, PlainInv, RecordResult
  PROVE  [Promise!Next]_(Promise!vars)
<1>1. PICK s \in Services :
        /\ pc["serve"] = "record" /\ Least(s, todo["serve"])
        /\ UNCHANGED <<ops, alloc, held, runtime>>
        /\ \/ rows' = rows
           \/ /\ rows'[s].rid = acc[s].rid
              /\ \A t \in Services \ {s} : rows'[t] = rows[t]
  BY RecordResultFacts
<1>2. NoReleaseBegun' <=> NoReleaseBegun
  BY <1>1, EndSame
<1>3. 0 \notin held[s] /\ acc[s].rid \in Nat
  BY DEF TypeInv, TypeOK, PlainInv, FreshIds, Accepted
<1>4. ~ Tracked(s)
  BY <1>1, <1>3 DEF Tracked, PlainInv, AttemptOwnsRows, Attempting
<1>5. alloc.state \notin FreeStates \cup {"accepted"}
  BY <1>1 DEF PlainInv, OneContent, Attempting, FreeStates
<1>6. CASE rows' = rows
  BY <1>1, <1>2, <1>6, ReturnStep
<1>7. CASE /\ rows'[s].rid = acc[s].rid
           /\ \A t \in Services \ {s} : rows'[t] = rows[t]
  <2>1. \A t \in Services \ {s} : Tracked(t)' <=> Tracked(t)
    BY <1>1, <1>7 DEF Tracked
  <2>2. CASE Tracked(s)'
    <3>1. acc[s].rid # 0
      BY <1>1, <1>3, <1>7, <2>2 DEF Tracked
    <3> QED
      BY <1>1, <1>2, <1>3, <1>4, <1>5, <1>7, <2>1, <2>2, <3>1, KeepStep
  <2>3. CASE ~ Tracked(s)'
    BY <1>1, <1>2, <1>4, <1>7, <2>1, <2>3, QuietStep
  <2> QED
    BY <2>2, <2>3
<1> QED
  BY <1>1, <1>6, <1>7

\* The whole set is granted.
LEMMA AcceptStep ==
  ASSUME TypeInv, PlainInv, PromiseInv, Accept
  PROVE  [Promise!Next]_(Promise!vars)
<1>1. /\ pc["serve"] = "accept"
      /\ alloc'.state = "accepted" /\ alloc'.response.ids = AcceptedIds
      /\ UNCHANGED <<ops, rows, held, runtime>>
  BY AcceptFacts
<1>2. NoReleaseBegun' <=> NoReleaseBegun
  BY <1>1, EndSame
<1>3. Phase = "pending" /\ Phase' = "granted"
  <2>1. alloc.state \in {"reserving", "rolling-back"}
    BY <1>1 DEF PlainInv, OneContent, Attempting
  <2> QED
    BY <1>1, <2>1, PhaseValue, PhaseValueNext DEF FreeStates
<1>4. Kept' = Kept
  BY <1>1, KeptSame DEF Tracked
<1>5. /\ plan.response.ids = [s \in Services |-> 0]
      /\ \A s \in Services \ Wanted : acc[s].rid = 0
      /\ \A s \in Services \cap Wanted :
           Made(s) /\ rows[s].rid = acc[s].rid /\ rows[s].state = "accepted"
  BY <1>1 DEF PromiseInv, Covered, NoPlan, NoResponse, Reply, NoIds
<1>6. \A s \in Services :
        /\ s \in Wanted => /\ AcceptedIds[s] # 0
                           /\ Kept[s] = AcceptedIds[s] \/ runtime[s] > 1
        /\ s \notin Wanted => AcceptedIds[s] = 0
  BY <1>5, KeptValue DEF AcceptedIds, Made, Tracked, TerminalRows
<1>7. Given' = AcceptedIds
  BY <1>1, KeptValue
<1>8. Promise!Grant
  BY <1>1, <1>2, <1>3, <1>4, <1>6, <1>7 DEF Promise!Grant, Wanted
<1> QED
  BY <1>8 DEF Promise!Next

\* The rollback begins; the job is pending, as before.
LEMMA BeginRollbackStep ==
  ASSUME TypeInv, PlainInv, BeginRollback
  PROVE  [Promise!Next]_(Promise!vars)
<1>1. /\ pc["serve"] = "rollback"
      /\ alloc'.state \in {alloc.state, "rolling-back"}
      /\ UNCHANGED <<ops, rows, held, runtime>>
  BY BeginRollbackFacts
<1>2. alloc.state \in {"reserving", "rolling-back"}
  BY <1>1 DEF PlainInv, OneContent, Attempting
<1>3. Phase' = Phase
  BY <1>1, <1>2, PhaseValue, PhaseValueNext DEF FreeStates
<1>4. Given' = Given
  BY <1>1, <1>2, KeptValue
<1>5. Kept' = Kept
  BY <1>1, KeptSame DEF Tracked
<1> QED
  BY <1>1, <1>3, <1>4, <1>5, EndSame, Stutters

\* The rollback gives a reservation back.
LEMMA UndoCallStep ==
  ASSUME PlainJob, TypeInv, PlainInv, UndoCall
  PROVE  [Promise!Next]_(Promise!vars)
<1>1. PICK s \in Services :
        /\ pc["serve"] = "undo"
        /\ UNCHANGED <<ops, alloc, rows, runtime>>
        /\ \A t \in Services \ {s} : held'[t] = held[t]
        /\ held'[s] \in {held[s], held[s] \ {acc[s].rid}}
  BY UndoCallFacts
<1>2. NoReleaseBegun' <=> NoReleaseBegun
  BY <1>1, EndSame
<1>3. alloc.state \notin FreeStates \cup {"accepted"}
  BY <1>1 DEF PlainInv, OneContent, Attempting, FreeStates
<1>4. /\ \A t \in Services \ {s} : Tracked(t)' <=> Tracked(t)
      /\ Tracked(s)' => Tracked(s)
  BY <1>1 DEF Tracked
<1> QED
  BY <1>1, <1>2, <1>3, <1>4, QuietStep, GiveBackStep

\* Its row says how that went; a reservation that is still held is kept.
LEMMA RecordUndoStep ==
  ASSUME TypeInv, PlainInv, RecordUndo
  PROVE  [Promise!Next]_(Promise!vars)
<1>1. PICK s \in Services :
        /\ pc["serve"] = "undone" /\ Greatest(s, AcceptedServices)
        /\ UNCHANGED <<ops, alloc, held, runtime>>
        /\ \A t \in Services \ {s} : rows'[t] = rows[t]
        /\ \/ rows'[s] = rows[s]
           \/ /\ acc[s].rid \notin held[s] /\ rows'[s].rid = acc[s].rid
           \/ /\ rows'[s].state = "rollback-failed" /\ rows'[s].rid = acc[s].rid
  BY RecordUndoFacts
<1>2. NoReleaseBegun' <=> NoReleaseBegun
  BY <1>1, EndSame
<1>3. acc[s].rid # 0 /\ acc[s].rid \in Nat
  BY <1>1 DEF TypeInv, TypeOK, Accepted, Greatest, AcceptedServices
<1>4. rows[s].rid \in held[s] => rows[s].rid = acc[s].rid
  BY <1>1, <1>3 DEF PlainInv, AttemptOwnsRows, Attempting
<1>5. alloc.state \notin FreeStates \cup {"accepted"}
  BY <1>1 DEF PlainInv, OneContent, Attempting, FreeStates
<1>6. \A t \in Services \ {s} : Tracked(t)' <=> Tracked(t)
  BY <1>1 DEF Tracked
<1>7. Tracked(s) => Tracked(s)' /\ rows'[s].rid = rows[s].rid
  BY <1>1, <1>4 DEF Tracked, TerminalRows
<1>8. Tracked(s)' => Tracked(s) \/ rows'[s].rid = acc[s].rid
  BY <1>1 DEF Tracked
<1>9. CASE Tracked(s)' /\ ~ Tracked(s)
  BY <1>1, <1>2, <1>3, <1>5, <1>6, <1>8, <1>9, KeepStep
<1>10. CASE ~ (Tracked(s)' /\ ~ Tracked(s))
  BY <1>1, <1>2, <1>6, <1>7, <1>10, QuietStep
<1> QED
  BY <1>9, <1>10

\* A rollback that is complete leaves nothing kept: the job is free.
LEMMA SettleStep ==
  ASSUME TypeInv, PlainInv, Settle
  PROVE  [Promise!Next]_(Promise!vars)
<1>1. /\ pc["serve"] = "settle"
      /\ UNCHANGED <<ops, rows, held, runtime>>
      /\ \/ UNCHANGED alloc
         \/ ~ failed["serve"] /\ alloc'.state \in {"delayed", "rejected", "rolled-back"}
  BY SettleFacts
<1>2. NoReleaseBegun' <=> NoReleaseBegun
  BY <1>1, EndSame
<1>3. CASE UNCHANGED alloc
  BY <1>1, <1>2, <1>3, ReturnStep
<1>4. CASE ~ failed["serve"] /\ alloc'.state \in {"delayed", "rejected", "rolled-back"}
  <2>1. alloc.state \in {"reserving", "rolling-back"}
    BY <1>1 DEF PlainInv, OneContent, Attempting
  <2>2. Phase = "pending" /\ Phase' = "free"
    BY <1>4, <2>1, PhaseValue, PhaseValueNext DEF FreeStates
  <2>3. \A s \in Services : ~ Tracked(s)
    BY <1>1, <1>4
       DEF Tracked, PlainInv, AttemptOwnsRows, Attempting, AcceptedServices
  <2>4. Kept = [s \in Services |-> 0] /\ Kept' = Kept
    BY <1>1, <2>3, KeptValue, KeptSame DEF Tracked
  <2>5. Given' = [s \in Services |-> 0]
    BY <1>4, KeptValue DEF NoIds
  <2>6. Promise!Free
    BY <1>1, <1>2, <2>2, <2>4, <2>5 DEF Promise!Free, Promise!None
  <2> QED
    BY <2>6 DEF Promise!Next
<1> QED
  BY <1>1, <1>3, <1>4

\* An operation begins or is completed.
LEMMA OperationStep ==
  ASSUME TypeInv, PromiseInv,
         \/ \E r \in Reserves : BeginReserve(r)
         \/ \E r \in Releases : BeginRelease(r)
         \/ Finish
  PROVE  [Promise!Next]_(Promise!vars)
<1>1. UNCHANGED <<alloc, rows, held, runtime>>
  BY DEF BeginReserve, BeginRelease, Finish, qpm
<1>2. (NoReleaseBegun' <=> NoReleaseBegun) \/ ~ NoReleaseBegun'
  BY OperationFacts DEF PromiseInv, EndKnown
<1> QED
  BY <1>1, <1>2, ReturnStep, EndStep

\* A release gives a reservation back, once the end of the job has begun.
LEMMA ReleaseCallStep ==
  ASSUME TypeInv, PlainInv, PromiseInv, ReleaseCall("serve")
  PROVE  [Promise!Next]_(Promise!vars)
<1>1. PICK s \in Services :
        /\ pc["serve"] = "release"
        /\ UNCHANGED <<ops, alloc, rows, runtime>>
        /\ \A t \in Services \ {s} : held'[t] = held[t]
        /\ held'[s] \in {held[s], held[s] \ {rows[s].rid}}
  BY ReleaseCallFacts
<1>2. NoReleaseBegun' <=> NoReleaseBegun
  BY <1>1, EndSame
<1>3. ~ NoReleaseBegun
  BY <1>1, ReleaseBegun
<1>4. /\ \A t \in Services \ {s} : Tracked(t)' <=> Tracked(t)
      /\ Tracked(s)' => Tracked(s)
  BY <1>1 DEF Tracked
<1> QED
  BY <1>1, <1>2, <1>3, <1>4, QuietStep, GiveBackStep

\* The row of a reservation that is held goes on naming it.
LEMMA RecordReleaseStep ==
  ASSUME TypeInv, PlainInv, RecordRelease("serve")
  PROVE  [Promise!Next]_(Promise!vars)
<1>1. PICK s \in Services :
        /\ UNCHANGED <<ops, alloc, held, runtime>>
        /\ \A t \in Services \ {s} : rows'[t] = rows[t]
        /\ rows'[s].rid = rows[s].rid
        /\ rows[s].rid \in held[s] => /\ rows'[s].state = "release-failed"
                                      /\ rows[s].state \notin TerminalRows
  BY RecordReleaseFacts
<1>2. \A t \in Services : /\ Tracked(t)' <=> Tracked(t)
                          /\ rows'[t].rid = rows[t].rid
  BY <1>1 DEF Tracked, TerminalRows
<1> QED
  BY <1>1, <1>2, EndSame, QuietStep

\* The release is over: the job is free, or something is left of it.
LEMMA CompleteReleaseStep ==
  ASSUME TypeInv, PlainInv, PromiseInv, CompleteRelease("serve")
  PROVE  [Promise!Next]_(Promise!vars)
<1>1. /\ pc["serve"] = "tidy"
      /\ UNCHANGED <<ops, rows, held, runtime>>
      /\ \/ UNCHANGED alloc
         \/ alloc'.state = "release-incomplete"
         \/ /\ alloc'.state = "released"
            /\ \A s \in Services : rows[s].rid \notin held[s]
  BY CompleteReleaseFacts
<1>2. NoReleaseBegun' <=> NoReleaseBegun
  BY <1>1, EndSame
<1>3. ~ NoReleaseBegun
  BY <1>1, ReleaseBegun
<1>4. Kept' = Kept
  BY <1>1, KeptSame DEF Tracked
<1>5. CASE UNCHANGED alloc
  BY <1>1, <1>2, <1>5, ReturnStep
<1>6. CASE alloc'.state = "release-incomplete"
  <2>1. Phase' = "pending" /\ Given' = [s \in Services |-> 0]
    BY <1>6, PhaseValueNext, KeptValue DEF FreeStates, NoIds
  <2>2. CASE alloc.state = "accepted"
    <3>1. Phase = "granted"
      BY <2>2, PhaseValue
    <3>2. Promise!Revoke
      BY <1>1, <1>2, <1>3, <1>4, <2>1, <3>1 DEF Promise!Revoke, Promise!None
    <3> QED
      BY <3>2 DEF Promise!Next
  <2>3. CASE alloc.state \in FreeStates
    <3>1. Phase = "free" /\ Given = [s \in Services |-> 0]
      BY <2>3, PhaseValue, KeptValue DEF FreeStates, NoIds
    <3>2. Kept = [s \in Services |-> 0]
      BY <2>3, KeptValue DEF PlainInv, TerminalIsFree, Tracked, FreeStates
    <3>3. Promise!Ask
      BY <1>1, <1>2, <1>4, <2>1, <3>1, <3>2 DEF Promise!Ask, Promise!None
    <3> QED
      BY <3>3 DEF Promise!Next
  <2>4. CASE alloc.state \notin FreeStates \cup {"accepted"}
    <3>1. Phase = "pending" /\ Given = [s \in Services |-> 0]
      BY <2>4, PhaseValue, KeptValue DEF NoIds
    <3> QED
      BY <1>1, <1>2, <1>4, <2>1, <3>1, Stutters
  <2> QED
    BY <2>2, <2>3, <2>4
<1>7. CASE /\ alloc'.state = "released"
           /\ \A s \in Services : rows[s].rid \notin held[s]
  <2>1. Phase' = "free" /\ Given' = [s \in Services |-> 0]
    BY <1>7, PhaseValueNext, KeptValue DEF FreeStates, NoIds
  <2>2. Kept = [s \in Services |-> 0]
    BY <1>7, KeptValue DEF Tracked
  <2>3. CASE alloc.state \in FreeStates
    <3>1. Phase = "free" /\ Given = [s \in Services |-> 0]
      BY <2>3, PhaseValue, KeptValue DEF FreeStates, NoIds
    <3> QED
      BY <1>1, <1>2, <1>4, <2>1, <3>1, Stutters
  <2>4. CASE alloc.state \notin FreeStates
    <3>1. Phase \in {"pending", "granted"}
      BY <2>4, PhaseValue
    <3>2. Promise!Free
      BY <1>1, <1>2, <1>3, <1>4, <2>1, <2>2, <3>1 DEF Promise!Free, Promise!None
    <3> QED
      BY <3>2 DEF Promise!Next
  <2> QED
    BY <2>3, <2>4
<1> QED
  BY <1>1, <1>5, <1>6, <1>7

\* A call without its handler gives a reservation back, of an attempt that was not
\* granted or of a job that ends; one that makes a reservation finds no row naming it.
LEMMA StrayStep ==
  ASSUME TypeInv, PlainInv, PromiseInv, NEW c \in stray, StrayRuns(c)
  PROVE  [Promise!Next]_(Promise!vars)
<1>1. /\ c.service \in Services
      /\ UNCHANGED <<ops, alloc, rows, runtime>>
      /\ \A t \in Services \ {c.service} : held'[t] = held[t]
      /\ \/ held'[c.service] = held[c.service]
         \/ held'[c.service] = held[c.service] \cup {nextId}
         \/ c.kind = "release" /\ held'[c.service] = held[c.service] \ {c.rid}
  BY StrayFacts
<1>2. PICK s \in Services : s = c.service
  BY <1>1
<1>3. NoReleaseBegun' <=> NoReleaseBegun
  BY <1>1, EndSame
<1>4. rows[s].rid # nextId
  BY DEF TypeInv, TypeOK, PlainInv, FreshIds, Row
<1>5. \A t \in Services \ {s} : Tracked(t)' <=> Tracked(t)
  BY <1>1, <1>2 DEF Tracked
<1>6. CASE c.kind = "release" /\ held'[s] = held[s] \ {c.rid}
  <2>1. alloc.state \notin FreeStates \cup {"accepted"} \/ ~ NoReleaseBegun
    BY <1>6 DEF PromiseInv, StraysKnown, FreeStates
  <2>2. Tracked(s)' => Tracked(s)
    BY <1>1, <1>6 DEF Tracked
  <2> QED
    BY <1>1, <1>3, <1>5, <2>1, <2>2, QuietStep, GiveBackStep
<1>7. CASE held'[s] \in {held[s], held[s] \cup {nextId}}
  <2>1. Tracked(s)' <=> Tracked(s)
    BY <1>1, <1>4, <1>7 DEF Tracked
  <2> QED
    BY <1>1, <1>3, <1>5, <2>1, QuietStep
<1> QED
  BY <1>1, <1>2, <1>6, <1>7

\* A QPM restarts and keeps nothing.
LEMMA RestartStep ==
  ASSUME TypeInv, NEW s \in Services, QpmRestart(s)
  PROVE  [Promise!Next]_(Promise!vars)
<1>1. /\ UNCHANGED <<ops, alloc, rows>>
      /\ runtime' = [runtime EXCEPT ![s] = @ + 1]
      /\ held'[s] = {} /\ \A t \in Services \ {s} : held'[t] = held[t]
  BY DEF TypeInv, TypeOK, QpmRestart, journal
<1>2. /\ ~ Tracked(s)'
      /\ \A t \in Services \ {s} : /\ Tracked(t)' <=> Tracked(t)
                                   /\ rows'[t].rid = rows[t].rid
  BY <1>1 DEF Tracked
<1>3. Kept' = [Kept EXCEPT ![s] = 0]
  BY <1>2, KeptValue
<1>4. Promise!Restart(s)
  BY <1>1, <1>3, EndSame, AllocationSame DEF Promise!Restart
<1> QED
  BY <1>4 DEF Promise!Next

\* Every step of a plain job is a step of JobReservations or leaves it alone.
LEMMA PromiseStep ==
  ASSUME PlainJob, TypeInv, PlainInv, PromiseInv, [Next]_vars
  PROVE  [Promise!Next]_(Promise!vars)
<1>1. CASE ReserveStep
  BY <1>1, OperationStep, BeginAllocationStep, ResolveStep, ReserveCallStep,
     RecordResultStep, AcceptStep, BeginRollbackStep, UndoCallStep, RecordUndoStep,
     SettleStep
     DEF ReserveStep
<1>2. CASE \E r \in Releases : BeginRelease(r)
  BY <1>2, OperationStep
<1>3. CASE \/ VerifyRelease \/ SkipTerminal("serve")
           \/ JournalFails("serve") \/ Abandon("serve")
           \/ UNCHANGED vars
  <2>1. UNCHANGED <<ops, alloc, rows, held, runtime>>
    BY <1>3, SkipTerminalFacts
       DEF VerifyRelease, JournalFails, Abandon, vars, journal, qpm
  <2> QED
    BY <2>1, EndSame, ReturnStep
<1>4. CASE ReleaseStep("serve")
  BY <1>3, <1>4, ReleaseCallStep, RecordReleaseStep, CompleteReleaseStep DEF ReleaseStep
<1>5. CASE \/ \E c \in stray : StrayRuns(c)
           \/ \E s \in Services : QpmRestart(s)
  BY <1>5, StrayStep, RestartStep
<1> QED
  BY <1>1, <1>2, <1>3, <1>4, <1>5, PlainSteps

\* The initial state maps to the initial state.
LEMMA PromiseStart ==
  ASSUME Init
  PROVE  Promise!Init
<1>1. alloc.state = "none" /\ runtime = [s \in Services |-> 1]
  BY DEF Init, NoAllocation
<1>2. Phase = "free" /\ Given = [s \in Services |-> 0]
  BY <1>1, PhaseValue, KeptValue DEF FreeStates, NoIds
<1>3. \A s \in Services : ~ Tracked(s)
  BY DEF Init, Tracked
<1>4. Kept = [s \in Services |-> 0]
  BY <1>3, KeptValue
<1>5. NoReleaseBegun
  BY DEF Init, NoReleaseBegun, NoOperation
<1> QED
  BY <1>1, <1>2, <1>4, <1>5 DEF Promise!Init, Promise!None

\* For a job without components, service.py over the journal implements
\* JobReservations, whatever fails and whenever the gateway dies: the reservations are
\* granted all or none, kept until a release begins, and never left behind by an
\* allocation that says it is free.
THEOREM PromiseKept ==
  ASSUME PlainJob
  PROVE  Spec => KeepsPromise
<1>1. Init => Promise!Init
  BY PromiseStart
<1>2. Promised /\ [Next]_vars => [Promise!Next]_(Promise!vars)
  BY PromiseStep DEF Promised, PlainTypeInv
<1> QED
  BY <1>1, <1>2, PromisedCorrect, PTL DEF Spec, KeepsPromise, Promise!Spec

-----------------------------------------------------------------------------
(* Every job.                                                              *)


\* An attempt was abandoned: nothing starts another one before the release.
Stuck == ~ Attempting /\ alloc.state \in {"reserving", "extending", "rolling-back"}

\* There is an accepted set: that of the allocation, or the one being extended.
Settled == alloc.state = "accepted" \/ (Attempting /\ plan.extends)
SettledServices == IF Attempting THEN plan.services ELSE alloc.services

\* The QPM incarnation that made a reservation holds it, unless it is gone.
Backed(s, rid, b) == (b = runtime[s] /\ rid \in held[s]) \/ b < runtime[s]

\* The rows name what the accepted set names, and that is held.
SettledIsBacked ==
  Settled =>
    \A s \in Services :
      IF s \in SettledServices
      THEN /\ rows[s].rid # 0 /\ rows[s].rid = alloc.response.ids[s]
           /\ Backed(s, rows[s].rid, rows[s].runtime)
      ELSE alloc.response.ids[s] = 0

\* The services that an attempt reserves.
Target == alloc.services \ plan.services

\* What an attempt is for, and what it leaves alone.
AttemptForm ==
  /\ pc["serve"] \in {"idle", "allocate"} =>
       plan = NoPlan /\ \A s \in Services : acc[s].rid = 0
  /\ Attempting =>
       /\ alloc.state \in {"reserving", "extending", "rolling-back"}
       /\ alloc.owner = req["serve"].owner
       /\ req["serve"].services \subseteq alloc.services
       /\ plan.services \subseteq alloc.services
       /\ IF plan.extends THEN plan.response = alloc.response
          ELSE plan = NoPlan /\ alloc.response.ids = NoIds
       /\ \A s \in plan.services : acc[s].rid = 0

\* An attempt has made and recorded the reservations it has passed.
AttemptBacked ==
  /\ pc["serve"] \in {"resolve", "call", "record", "accept"} =>
       /\ todo["serve"] \subseteq Target
       /\ \A s \in Services \ Target : acc[s].rid = 0
       /\ \A s \in Target \ todo["serve"] :
            /\ acc[s].rid # 0 /\ rows[s].rid = acc[s].rid
            /\ rows[s].runtime = acc[s].runtime
            /\ Backed(s, acc[s].rid, acc[s].runtime)
  /\ pc["serve"] = "record" /\ outcome["serve"] = "accepted" =>
       \A s \in Services :
         Least(s, todo["serve"]) =>
           acc[s].rid # 0 /\ acc[s].runtime = bind /\ Backed(s, acc[s].rid, bind)
  /\ pc["serve"] = "accept" => todo["serve"] = {}

\* A release call without its handler is of an abandoned attempt.
StraysStuck == \A c \in stray : c.kind = "release" => Stuck

\* What was answered, or is about to be, is part of what the allocation says.
AnswersCurrent ==
  /\ \A k \in OperationKeys, s \in Services :
       ops[k].response.ids[s] # 0 => ops[k].response.ids[s] = alloc.response.ids[s]
  /\ pc["serve"] = "finish" =>
       /\ \A s \in Services : answer.ids[s] # 0 => answer.ids[s] = alloc.response.ids[s]
       /\ answer.kind = "accepted" =>
            /\ alloc.state = "accepted" /\ alloc.owner = req["serve"].owner
            /\ req["serve"].services \subseteq alloc.services
  /\ pc["serve"] \in {"rollback", "undo", "undone", "settle"} => answer.ids = NoIds
  /\ alloc.state \in {"none", "delayed", "rejected", "rolled-back"} =>
       alloc.response.ids = NoIds /\ alloc.response.kind # "accepted"

\* A request that was accepted is within the accepted set.
AcceptedWithin ==
  \A r \in Reserves :
    ops[OperationKey(r)].request = r /\ ops[OperationKey(r)].response.kind = "accepted" =>
      \/ Stuck
      \/ Settled /\ alloc.owner = r.owner /\ r.services \subseteq SettledServices

BeforeEnd ==
  /\ alloc.state \notin {"released", "release-incomplete"}
  /\ SettledIsBacked /\ AttemptForm /\ AttemptBacked
  /\ StraysStuck /\ AnswersCurrent /\ AcceptedWithin

\* The daemon handles the request of the operation it began.
Handling ==
  /\ pc["admin"] = "idle"
  /\ nextId >= 1
  /\ req["serve"] \in Releases => ~ NoReleaseBegun
  /\ pc["serve"] # "idle" => ops[OperationKey(req["serve"])].request = req["serve"]

ExtensionInv == Handling /\ (NoReleaseBegun => BeforeEnd)

-----------------------------------------------------------------------------
(* What the steps do, beyond the facts stated above for a plain job.       *)

\* begin_allocation refuses, answers, extends the accepted set or reserves anew.
LEMMA BeginAllocationCases ==
  ASSUME "admin" \notin Events, TypeInv, BeginAllocation
  PROVE  /\ pc["serve"] = "allocate" /\ req["serve"] \in Reserves
         /\ UNCHANGED <<ops, rows, held, runtime, nextId, stray>>
         /\ pc'["admin"] = pc["admin"]
         /\ \/ Return("serve") /\ UNCHANGED alloc
            \/ /\ pc'["serve"] = "finish" /\ answer' = alloc.response
               /\ alloc.owner = req["serve"].owner
               /\ \/ alloc.state = "accepted" /\ req["serve"].services \subseteq alloc.services
                  \/ alloc.state \in {"rejected", "release-incomplete"}
               /\ UNCHANGED <<alloc, req, plan, acc>>
            \/ /\ pc'["serve"] = "resolve"
               /\ alloc.state = "accepted" /\ alloc.owner = req["serve"].owner
               /\ plan'.extends /\ plan'.services = alloc.services
               /\ plan'.response = alloc.response
               /\ todo'["serve"] = req["serve"].services \ alloc.services
               /\ alloc'.state = "extending" /\ alloc'.owner = alloc.owner
               /\ alloc'.services = alloc.services \cup req["serve"].services
               /\ alloc'.response = alloc.response
               /\ UNCHANGED <<req, acc>>
            \/ /\ pc'["serve"] = "resolve"
               /\ alloc.state \in {"none", "delayed", "rolled-back", "rejected",
                                   "release-incomplete"}
               /\ todo'["serve"] = req["serve"].services
               /\ alloc'.state = "reserving" /\ alloc'.owner = req["serve"].owner
               /\ alloc'.services = req["serve"].services
               /\ alloc'.response = NoResponse
               /\ UNCHANGED <<req, plan, acc>>
<1>1. PICK r \in Reserves : r = req["serve"] /\ pc["serve"] = "allocate" /\ read = alloc
  BY DEF TypeInv, Control, ReadCurrent, BeginAllocation
<1>2. \A l : Goto("serve", l) => pc'["serve"] = l /\ pc'["admin"] = pc["admin"]
  BY DEF TypeInv, TypeOK, Goto, Proc
<1>3. Return("serve") => pc'["admin"] = pc["admin"]
  BY ReturnFacts
<1>4. \A S : todo' = [todo EXCEPT !["serve"] = S] => todo'["serve"] = S
  BY DEF TypeInv, TypeOK, Proc
<1>5. UNCHANGED <<ops, rows, held, runtime, nextId, stray>>
  BY DEF BeginAllocation, qpm
<1>6. CASE Return("serve") /\ UNCHANGED alloc
  BY <1>1, <1>3, <1>5, <1>6
<1>7. CASE /\ AllocationReplays(alloc, rows, r)
           /\ answer' = alloc.response
           /\ Goto("serve", "finish")
           /\ UNCHANGED <<alloc, req, loop, plan, acc, bind>>
  <2>1. /\ alloc.owner = r.owner
        /\ \/ alloc.state = "accepted" /\ r.services \subseteq alloc.services
           \/ alloc.state \in {"rejected", "release-incomplete"}
    BY <1>7 DEF AllocationReplays, AllocationRefused, Missing
  <2> QED
    BY <1>1, <1>2, <1>5, <1>7, <2>1
<1>8. CASE /\ AllocationExtends(alloc, rows, r)
           /\ plan' = [extends |-> TRUE, services |-> alloc.services,
                       response |-> alloc.response]
           /\ todo' = [todo EXCEPT !["serve"] = Missing(alloc, r)]
           /\ alloc' = ExtendAllocation(alloc, alloc, r)
           /\ Goto("serve", "resolve")
           /\ UNCHANGED <<req, snap, outcome, failed, acc, bind, answer>>
  <2>1. alloc.state = "accepted" /\ alloc.owner = r.owner
    BY <1>8 DEF AllocationExtends, AllocationRefused
  <2>2. todo'["serve"] = r.services \ alloc.services
    BY <1>4, <1>8 DEF Missing
  <2>3. /\ alloc'.state = "extending" /\ alloc'.owner = alloc.owner
        /\ alloc'.services = alloc.services \cup r.services
        /\ alloc'.response = alloc.response
    BY <1>8 DEF TypeInv, TypeOK, Allocation, ExtendAllocation
  <2> QED
    BY <1>1, <1>2, <1>5, <1>8, <2>1, <2>2, <2>3
<1>9. CASE /\ AllocationReserves(alloc, rows, r)
           /\ todo' = [todo EXCEPT !["serve"] = r.services]
           /\ alloc' = ReserveAllocation(alloc, r)
           /\ Goto("serve", "resolve")
           /\ UNCHANGED <<req, snap, outcome, failed, plan, acc, bind, answer>>
  <2>1. alloc.state \in {"none", "delayed", "rolled-back", "rejected", "release-incomplete"}
    BY <1>9 DEF AllocationReserves
  <2>2. /\ alloc'.state = "reserving" /\ alloc'.owner = r.owner
        /\ alloc'.services = r.services /\ alloc'.response = NoResponse
    BY <1>9 DEF ReserveAllocation
  <2> QED
    BY <1>1, <1>2, <1>4, <1>5, <1>9, <2>1, <2>2
<1> QED
  BY <1>1, <1>6, <1>7, <1>8, <1>9 DEF BeginAllocation

\* An attempt that gives up answers with no reservations.
LEMMA RollbackAnswer ==
  ASSUME TypeInv
  PROVE  /\ \A k : StartRollback(k) => answer'.ids = NoIds
         /\ \A l : Goto("serve", l) => pc'["serve"] = l /\ pc'["admin"] = pc["admin"]
BY DEF TypeInv, TypeOK, StartRollback, Reply, Goto, Proc

\* A turn of the loop up to the pending row.
LEMMA ResolveCases ==
  ASSUME TypeInv, Resolve
  PROVE  \E s \in Services :
           /\ pc["serve"] = "resolve" /\ Least(s, todo["serve"])
           /\ pc'["serve"] \in {"rollback", "call"}
           /\ pc'["serve"] = "rollback" => answer'.ids = NoIds
           /\ pc'["admin"] = pc["admin"]
           /\ UNCHANGED <<ops, alloc, held, runtime, nextId, stray, req, todo, plan, acc>>
           /\ \A t \in Services \ {s} : rows'[t] = rows[t]
<1>1. PICK s \in Services :
        /\ pc["serve"] = "resolve"
        /\ Least(s, todo["serve"])
        /\ UNCHANGED <<ops, alloc, held, runtime, nextId, stray, req, todo, plan, acc>>
        /\ \/ /\ rows' = RecordReservation(rows, s, PendingRow(s))
              /\ Goto("serve", "call")
           \/ /\ StartRollback("failed")
              /\ UNCHANGED rows
  BY DEF Resolve, qpm, loop
<1>2. \A t \in Services \ {s} : rows'[t] = rows[t]
  BY <1>1 DEF TypeInv, TypeOK, RecordReservation
<1> QED
  BY <1>1, <1>2, RollbackAnswer DEF StartRollback

\* The reserve call makes a reservation of the incarnation that was resolved, or none
\* that its handler knows of.
LEMMA ReserveCallCases ==
  ASSUME TypeInv, ReserveCall
  PROVE  \E s \in Services :
           /\ pc["serve"] = "call" /\ Least(s, todo["serve"])
           /\ pc'["serve"] \in {"rollback", "record"}
           /\ pc'["serve"] = "rollback" => answer'.ids = NoIds
           /\ pc'["admin"] = pc["admin"]
           /\ nextId' \in {nextId, nextId + 1}
           /\ UNCHANGED <<ops, alloc, rows, runtime, stray, req, todo, plan, bind>>
           /\ \A t \in Services \ {s} : held'[t] = held[t] /\ acc'[t] = acc[t]
           /\ held[s] \subseteq held'[s]
           /\ \/ acc' = acc /\ outcome'["serve"] # "accepted"
              \/ /\ runtime[s] = bind /\ nextId \in held'[s]
                 /\ acc'[s].rid = nextId /\ acc'[s].runtime = bind
<1>1. PICK s \in Services, x \in {"accepted", "delayed", "rejected", "failed"} :
        /\ pc["serve"] = "call"
        /\ Least(s, todo["serve"])
        /\ QpmReserve(s, bind, x)
        /\ outcome' = [outcome EXCEPT !["serve"] = x]
        /\ IF x = "failed"
           THEN StartRollback("failed") /\ UNCHANGED acc
           ELSE /\ acc' = IF x = "accepted"
                          THEN [acc EXCEPT ![s] = [rid |-> nextId, runtime |-> bind]]
                          ELSE acc
                /\ Goto("serve", "record")
        /\ UNCHANGED <<ops, alloc, rows, stray, req, todo, plan, bind>>
  BY DEF ReserveCall, journal
<1>2. /\ pc'["serve"] \in {"rollback", "record"}
      /\ pc'["serve"] = "rollback" => answer'.ids = NoIds
      /\ pc'["admin"] = pc["admin"]
  BY <1>1, RollbackAnswer DEF StartRollback
<1>3. /\ runtime' = runtime
      /\ \A t \in Services \ {s} : held'[t] = held[t]
      /\ held[s] \subseteq held'[s]
      /\ nextId' \in {nextId, nextId + 1}
      /\ x = "accepted" => runtime[s] = bind /\ nextId \in held'[s]
  BY <1>1 DEF TypeInv, TypeOK, QpmReserve, QpmCreates, qpm
<1>4. outcome'["serve"] = x
  BY <1>1 DEF TypeInv, TypeOK, Proc
<1>5. /\ \A t \in Services \ {s} : acc'[t] = acc[t]
      /\ x = "accepted" => acc'[s].rid = nextId /\ acc'[s].runtime = bind
      /\ x # "accepted" => acc' = acc
  BY <1>1 DEF TypeInv, TypeOK, Accepted
<1> QED
  BY <1>1, <1>2, <1>3, <1>4, <1>5

\* Its result is recorded, or cannot be.
LEMMA RecordResultCases ==
  ASSUME TypeInv, RecordResult
  PROVE  \E s \in Services :
           /\ pc["serve"] = "record" /\ Least(s, todo["serve"])
           /\ pc'["serve"] \in {"rollback", "resolve", "accept"}
           /\ pc'["serve"] = "rollback" => answer'.ids = NoIds
           /\ pc'["admin"] = pc["admin"]
           /\ UNCHANGED <<ops, alloc, held, runtime, nextId, stray, req, plan, acc>>
           /\ \A t \in Services \ {s} : rows'[t] = rows[t]
           /\ pc'["serve"] # "rollback" =>
                /\ outcome["serve"] = "accepted"
                /\ rows'[s].rid = acc[s].rid /\ rows'[s].runtime = bind
                /\ todo'["serve"] = todo["serve"] \ {s}
           /\ pc'["serve"] = "accept" => todo["serve"] = {s}
<1>1. PICK s \in Services :
        /\ pc["serve"] = "record"
        /\ Least(s, todo["serve"])
        /\ UNCHANGED <<ops, alloc, held, runtime, nextId, stray, req, plan, acc>>
        /\ \/ /\ rows' = RecordReservation(rows, s, ResultRow(s))
              /\ todo' = [todo EXCEPT !["serve"] = @ \ {s}]
              /\ IF outcome["serve"] # "accepted"
                 THEN StartRollback(outcome["serve"])
                 ELSE Goto("serve", IF todo["serve"] = {s} THEN "accept"
                                                           ELSE "resolve")
           \/ StartRollback("failed") /\ UNCHANGED rows
  BY DEF RecordResult, qpm
<1>2. \A t \in Services \ {s} : rows'[t] = rows[t]
  BY <1>1 DEF TypeInv, TypeOK, RecordReservation
<1>3. /\ pc'["serve"] \in {"rollback", "resolve", "accept"}
      /\ pc'["serve"] = "rollback" => answer'.ids = NoIds
      /\ pc'["admin"] = pc["admin"]
      /\ pc'["serve"] = "accept" => todo["serve"] = {s}
      /\ pc'["serve"] # "rollback" =>
           /\ outcome["serve"] = "accepted"
           /\ rows' = RecordReservation(rows, s, ResultRow(s))
           /\ todo' = [todo EXCEPT !["serve"] = @ \ {s}]
  BY <1>1, RollbackAnswer DEF StartRollback
<1>4. pc'["serve"] # "rollback" =>
        /\ rows'[s].rid = acc[s].rid /\ rows'[s].runtime = bind
        /\ todo'["serve"] = todo["serve"] \ {s}
  BY <1>3 DEF TypeInv, TypeOK, RecordReservation, ResultRow, Proc
<1> QED
  BY <1>1, <1>2, <1>3, <1>4

\* The steps of the rollback, but the last: they touch the services of the attempt.
LEMMA RollbackCases ==
  ASSUME TypeInv, BeginRollback \/ UndoCall \/ RecordUndo
  PROVE  /\ pc["serve"] \in {"rollback", "undo", "undone"}
         /\ pc'["serve"] \in {"undo", "undone", "settle"}
         /\ pc'["admin"] = pc["admin"]
         /\ UNCHANGED <<ops, runtime, nextId, stray, req, plan, answer>>
         /\ alloc'.state \in {alloc.state, "rolling-back"}
         /\ alloc'.owner = alloc.owner /\ alloc'.services = alloc.services
         /\ alloc'.response = alloc.response
         /\ \A s \in Services :
              /\ acc[s].rid = 0 => rows'[s] = rows[s] /\ held'[s] = held[s]
              /\ acc'[s].rid \in {0, acc[s].rid}
<1>1. CASE BeginRollback
  BY <1>1 DEF TypeInv, TypeOK, Allocation, BeginRollback, SetAllocationState, Goto, Proc,
     qpm, attempt
<1>2. CASE UndoCall
  <2>1. PICK s \in Services, x \in {"ok", "failed", "refused"} :
          /\ pc["serve"] = "undo"
          /\ Greatest(s, AcceptedServices)
          /\ QpmRelease(s, acc[s].rid, acc[s].runtime, x)
          /\ Goto("serve", "undone")
          /\ UNCHANGED <<ops, alloc, rows, stray, req, plan, acc, answer>>
    BY <1>2 DEF UndoCall, journal, attempt
  <2>2. /\ runtime' = runtime /\ nextId' = nextId
        /\ \A t \in Services \ {s} : held'[t] = held[t]
    BY <2>1, QpmReleaseFacts
  <2>3. acc[s].rid # 0
    BY <2>1 DEF Greatest, AcceptedServices
  <2> QED
    BY <2>1, <2>2, <2>3, RollbackAnswer
<1>3. CASE RecordUndo
  <2>1. PICK s \in Services :
          /\ pc["serve"] = "undone"
          /\ Greatest(s, AcceptedServices)
          /\ \/ rows' = RecordReservation(rows, s, UndoRow(s))
             \/ UNCHANGED rows
          /\ acc' = [acc EXCEPT ![s] = [rid |-> 0, runtime |-> 0]]
          /\ Goto("serve", IF AcceptedServices = {s} THEN "settle" ELSE "undo")
          /\ UNCHANGED <<ops, alloc, held, runtime, nextId, stray, req, plan, answer>>
    BY <1>3 DEF RecordUndo, qpm
  <2>2. acc[s].rid # 0
    BY <2>1 DEF Greatest, AcceptedServices
  <2>3. /\ \A t \in Services \ {s} : rows'[t] = rows[t]
        /\ \A t \in Services : acc'[t].rid \in {0, acc[t].rid}
    BY <2>1 DEF TypeInv, TypeOK, RecordReservation
  <2>4. pc'["serve"] \in {"undo", "settle"} /\ pc'["admin"] = pc["admin"]
    BY <2>1, RollbackAnswer
  <2> QED
    BY <2>1, <2>2, <2>3, <2>4
<1> QED
  BY <1>1, <1>2, <1>3

\* The set is complete.
LEMMA AcceptCases ==
  ASSUME TypeInv, Accept
  PROVE  /\ pc["serve"] = "accept" /\ pc'["serve"] = "finish" /\ pc'["admin"] = pc["admin"]
         /\ UNCHANGED <<ops, rows, held, runtime, nextId, stray, req, plan, acc>>
         /\ alloc'.state = "accepted" /\ alloc'.owner = alloc.owner
         /\ alloc'.services = alloc.services
         /\ alloc'.response.ids = AcceptedIds /\ answer'.ids = AcceptedIds
<1>1. /\ pc["serve"] = "accept"
      /\ answer' = [kind |-> "accepted", ids |-> AcceptedIds]
      /\ alloc' = CompleteAllocation(alloc, "accepted", answer')
      /\ Goto("serve", "finish")
      /\ UNCHANGED <<ops, rows, held, runtime, nextId, stray, req, plan, acc>>
  BY DEF Accept, qpm
<1>2. /\ alloc'.state = "accepted" /\ alloc'.owner = alloc.owner
      /\ alloc'.services = alloc.services /\ alloc'.response = answer'
  BY <1>1 DEF TypeInv, TypeOK, Allocation, CompleteAllocation
<1>3. answer'.ids = AcceptedIds
  BY <1>1
<1> QED
  BY <1>1, <1>2, <1>3, RollbackAnswer

\* The rollback is over: back to the set that was extended, or to none.
LEMMA SettleCases ==
  ASSUME TypeInv, Settle
  PROVE  /\ pc["serve"] = "settle"
         /\ UNCHANGED <<ops, rows, held, runtime, nextId, stray>>
         /\ \/ Return("serve")
            \/ /\ pc'["serve"] = "finish" /\ pc'["admin"] = pc["admin"]
               /\ UNCHANGED <<req, plan, acc, answer>>
         /\ answer.kind # "accepted"
         /\ alloc'.owner = alloc.owner
         /\ \/ /\ plan.extends /\ alloc'.state = "accepted"
               /\ alloc'.services = plan.services /\ alloc'.response = plan.response
            \/ ~ plan.extends /\ alloc' = alloc /\ Return("serve")
            \/ /\ ~ plan.extends /\ alloc'.state \in {"delayed", "rejected", "rolled-back"}
               /\ alloc'.response = answer
<1>1. /\ pc["serve"] = "settle"
      /\ UNCHANGED <<ops, rows, held, runtime, nextId, stray>>
      /\ \/ Return("serve")
         \/ ~ failed["serve"] /\ Goto("serve", "finish") /\ UNCHANGED <<req, plan, acc, answer>>
      /\ failed["serve"] => Return("serve")
  BY DEF Settle, qpm, attempt
<1>2. answer.kind \in {"delayed", "rejected", "failed"}
  BY <1>1 DEF TypeInv, Control
<1>3. \/ Return("serve")
      \/ /\ pc'["serve"] = "finish" /\ pc'["admin"] = pc["admin"]
         /\ UNCHANGED <<req, plan, acc, answer>>
  BY <1>1, RollbackAnswer
<1>4. CASE plan.extends
  <2>1. /\ alloc'.state = "accepted" /\ alloc'.owner = alloc.owner
        /\ alloc'.services = plan.services /\ alloc'.response = plan.response
    BY <1>4 DEF TypeInv, TypeOK, Allocation, Settle, RestoreAcceptedAllocation
  <2> QED
    BY <1>1, <1>2, <1>3, <1>4, <2>1
<1>5. CASE ~ plan.extends /\ failed["serve"]
  BY <1>1, <1>2, <1>5 DEF Settle
<1>6. CASE ~ plan.extends /\ ~ failed["serve"]
  <2>1. alloc' = CompleteAllocation(alloc, SettledState(answer.kind), answer)
    BY <1>6 DEF Settle
  <2>2. alloc'.owner = alloc.owner /\ alloc'.response = answer
    BY <2>1 DEF TypeInv, TypeOK, Allocation, CompleteAllocation
  <2>3. alloc'.state \in {"delayed", "rejected", "rolled-back"}
    BY <1>2, <2>1 DEF TypeInv, TypeOK, Allocation, CompleteAllocation, SettledState
  <2> QED
    BY <1>1, <1>2, <1>3, <1>6, <2>2, <2>3
<1> QED
  BY <1>4, <1>5, <1>6

-----------------------------------------------------------------------------
(* Before the release of the job begins, every step preserves BeforeEnd.   *)

\* The handler returns and its attempt, if it was in one, is abandoned.
LEMMA ReturnExtended ==
  ASSUME TypeInv, BeforeEnd, Return("serve"),
         UNCHANGED <<ops, alloc, rows, held, runtime>>,
         \A c \in stray' : c.kind = "release" => c \in stray \/ Attempting
  PROVE  BeforeEnd'
<1>1. /\ pc'["serve"] = "idle" /\ plan' = NoPlan
      /\ \A s \in Services : acc'[s].rid = 0
      /\ ~ Attempting'
  BY ReturnFacts
<1>2. Attempting => Stuck'
  BY <1>1 DEF BeforeEnd, AttemptForm, Stuck
<1>3. Stuck => Stuck'
  BY <1>1 DEF Stuck
<1>4. alloc.state = "accepted" => ~ Attempting
  BY DEF BeforeEnd, AttemptForm
<1>5. SettledIsBacked'
  BY <1>1, <1>4 DEF BeforeEnd, SettledIsBacked, Settled, SettledServices, Backed
<1>6. AttemptForm' /\ AttemptBacked'
  BY <1>1 DEF AttemptForm, AttemptBacked
<1>7. StraysStuck'
  BY <1>2, <1>3 DEF BeforeEnd, StraysStuck
<1>8. AnswersCurrent'
  BY <1>1 DEF BeforeEnd, AnswersCurrent
<1>9. AcceptedWithin'
  BY <1>1, <1>2, <1>3, <1>4
     DEF BeforeEnd, AcceptedWithin, Settled, SettledServices
<1> QED
  BY <1>5, <1>6, <1>7, <1>8, <1>9 DEF BeforeEnd

\* A step of an attempt that touches only services of its own: what is left to show.
LEMMA AttemptExtended ==
  ASSUME TypeInv, BeforeEnd, Attempting, Attempting', AttemptBacked',
         UNCHANGED <<ops, runtime, stray, req, plan>>,
         alloc'.state \in {alloc.state, "rolling-back"}, alloc'.owner = alloc.owner,
         alloc'.services = alloc.services, alloc'.response = alloc.response,
         \A s \in plan.services : /\ rows'[s] = rows[s] /\ held'[s] = held[s]
                                  /\ acc'[s].rid = 0,
         pc'["serve"] \in {"rollback", "undo", "undone", "settle"} => answer'.ids = NoIds
  PROVE  BeforeEnd'
<1>0. pc'["serve"] \notin {"idle", "allocate", "finish"}
  BY DEF Attempting
<1>1. alloc.state \in {"reserving", "extending", "rolling-back"} /\ alloc'.state \in
        {"reserving", "extending", "rolling-back"}
  BY DEF BeforeEnd, AttemptForm
<1>2. SettledIsBacked'
  BY <1>1 DEF BeforeEnd, SettledIsBacked, Settled, SettledServices, Backed
<1>3. AttemptForm'
  BY <1>0, <1>1 DEF BeforeEnd, AttemptForm
<1>4. StraysStuck'
  BY DEF BeforeEnd, StraysStuck, Stuck
<1>5. AnswersCurrent'
  BY <1>0, <1>1 DEF BeforeEnd, AnswersCurrent
<1>6. AcceptedWithin'
  BY <1>1 DEF BeforeEnd, AcceptedWithin, Settled, SettledServices, Stuck
<1> QED
  BY <1>1, <1>2, <1>3, <1>4, <1>5, <1>6 DEF BeforeEnd

\* The services that an attempt has still to reserve are not of the accepted set.
LEMMA TodoIsNew ==
  ASSUME TypeInv, BeforeEnd, NEW s \in Services, Least(s, todo["serve"]),
         pc["serve"] \in {"resolve", "call", "record"}
  PROVE  /\ s \in todo["serve"] /\ s \in Target /\ s \notin plan.services
         /\ \A t \in plan.services : t \in Services \ {s} /\ acc[t].rid = 0
<1>1. s \in todo["serve"] /\ s \in Target
  BY DEF Least, BeforeEnd, AttemptBacked
<1>2. \A t \in plan.services : t \in Services /\ acc[t].rid = 0
  BY DEF TypeInv, TypeOK, Plan, BeforeEnd, AttemptForm, Attempting
<1> QED
  BY <1>1, <1>2 DEF Target

\* begin_allocation: an attempt starts with nothing, beside the accepted set or
\* without one.
LEMMA BeginAllocationExtended ==
  ASSUME "admin" \notin Events, TypeInv, BeforeEnd, BeginAllocation
  PROVE  BeforeEnd'
<1>0. /\ pc["serve"] = "allocate" /\ req["serve"] \in Reserves
      /\ UNCHANGED <<ops, rows, held, runtime, stray>>
      /\ ~ Attempting
      /\ plan = NoPlan /\ \A s \in Services : acc[s].rid = 0
  BY BeginAllocationCases DEF BeforeEnd, AttemptForm, Attempting
<1>1. CASE Return("serve") /\ UNCHANGED alloc
  BY <1>0, <1>1, ReturnExtended
<1>2. CASE /\ pc'["serve"] = "finish" /\ answer' = alloc.response
           /\ alloc.owner = req["serve"].owner
           /\ \/ alloc.state = "accepted" /\ req["serve"].services \subseteq alloc.services
              \/ alloc.state \in {"rejected", "release-incomplete"}
           /\ UNCHANGED <<alloc, req, plan, acc>>
  <2>1. ~ Attempting'
    BY <1>2 DEF Attempting
  <2>2. SettledIsBacked' /\ AcceptedWithin' /\ StraysStuck'
    BY <1>0, <1>2, <2>1
       DEF BeforeEnd, SettledIsBacked, Settled, SettledServices, Backed, AcceptedWithin,
           Stuck, StraysStuck
  <2>3. AttemptForm' /\ AttemptBacked'
    BY <1>2, <2>1 DEF AttemptForm, AttemptBacked
  <2>4. AnswersCurrent'
    BY <1>0, <1>2 DEF BeforeEnd, AnswersCurrent
  <2> QED
    BY <1>2, <2>2, <2>3, <2>4 DEF BeforeEnd
<1>3. CASE /\ pc'["serve"] = "resolve"
           /\ alloc.state = "accepted" /\ alloc.owner = req["serve"].owner
           /\ plan'.extends /\ plan'.services = alloc.services
           /\ plan'.response = alloc.response
           /\ todo'["serve"] = req["serve"].services \ alloc.services
           /\ alloc'.state = "extending" /\ alloc'.owner = alloc.owner
           /\ alloc'.services = alloc.services \cup req["serve"].services
           /\ alloc'.response = alloc.response
           /\ UNCHANGED <<req, acc>>
  <2>1. Attempting'
    BY <1>3 DEF Attempting
  <2>2. alloc.services \subseteq Services
    BY DEF TypeInv, TypeOK, Allocation
  <2>3. SettledIsBacked'
    BY <1>0, <1>3, <2>1
       DEF BeforeEnd, SettledIsBacked, Settled, SettledServices, Backed
  <2>4. AcceptedWithin'
    BY <1>0, <1>3, <2>1
       DEF BeforeEnd, AcceptedWithin, Settled, SettledServices, Stuck
  <2>5. StraysStuck'
    BY <1>0, <1>3 DEF BeforeEnd, StraysStuck, Stuck
  <2>6. AttemptForm'
    BY <1>0, <1>3, <2>1, <2>2 DEF AttemptForm
  <2>7. AttemptBacked'
    BY <1>0, <1>3 DEF AttemptBacked, Target
  <2>8. AnswersCurrent'
    BY <1>0, <1>3 DEF BeforeEnd, AnswersCurrent
  <2> QED
    BY <1>3, <2>3, <2>4, <2>5, <2>6, <2>7, <2>8 DEF BeforeEnd
<1>4. CASE /\ pc'["serve"] = "resolve"
           /\ alloc.state \in {"none", "delayed", "rolled-back", "rejected",
                               "release-incomplete"}
           /\ todo'["serve"] = req["serve"].services
           /\ alloc'.state = "reserving" /\ alloc'.owner = req["serve"].owner
           /\ alloc'.services = req["serve"].services
           /\ alloc'.response = NoResponse
           /\ UNCHANGED <<req, plan, acc>>
  <2>1. Attempting' /\ ~ plan.extends /\ plan.services = {}
    BY <1>0, <1>4 DEF Attempting, NoPlan
  <2>2. ~ Settled /\ ~ Stuck
    BY <1>0, <1>4 DEF Settled, Stuck
  <2>3. \A s \in Services : alloc.response.ids[s] = 0 /\ alloc'.response.ids[s] = 0
    BY <1>4 DEF BeforeEnd, AnswersCurrent, NoResponse, Reply, NoIds
  <2>4. SettledIsBacked'
    BY <1>4, <2>1 DEF SettledIsBacked, Settled
  <2>5. AcceptedWithin'
    BY <1>0, <2>2 DEF BeforeEnd, AcceptedWithin
  <2>6. StraysStuck'
    BY <1>0, <2>2 DEF BeforeEnd, StraysStuck
  <2>7. AttemptForm'
    BY <1>0, <1>4, <2>1 DEF AttemptForm, NoResponse, Reply
  <2>8. AttemptBacked'
    BY <1>0, <1>4, <2>1 DEF AttemptBacked, Target
  <2>9. AnswersCurrent'
    BY <1>0, <1>4, <2>3 DEF BeforeEnd, AnswersCurrent
  <2> QED
    BY <1>4, <2>4, <2>5, <2>6, <2>7, <2>8, <2>9 DEF BeforeEnd
<1> QED
  BY <1>1, <1>2, <1>3, <1>4, BeginAllocationCases

\* A turn of the loop of _reserve_services.
LEMMA LoopExtended ==
  ASSUME TypeInv, Handling, BeforeEnd, Resolve \/ ReserveCall \/ RecordResult
  PROVE  BeforeEnd'
<1>1. CASE Resolve
  <2>1. PICK s \in Services :
          /\ pc["serve"] = "resolve" /\ Least(s, todo["serve"])
          /\ pc'["serve"] \in {"rollback", "call"}
          /\ pc'["serve"] = "rollback" => answer'.ids = NoIds
          /\ UNCHANGED <<ops, alloc, held, runtime, stray, req, todo, plan, acc>>
          /\ \A t \in Services \ {s} : rows'[t] = rows[t]
    BY <1>1, ResolveCases
  <2>2. Attempting /\ Attempting'
    BY <2>1 DEF Attempting
  <2>3. /\ s \in todo["serve"]
        /\ \A t \in plan.services : t \in Services \ {s} /\ acc[t].rid = 0
    BY <2>1, TodoIsNew
  <2>4. alloc.services \subseteq Services
    BY DEF TypeInv, TypeOK, Allocation
  <2>5. AttemptBacked'
    BY <2>1, <2>3, <2>4 DEF BeforeEnd, AttemptBacked, Target, Backed
  <2> QED
    BY <2>1, <2>2, <2>3, <2>5, AttemptExtended
<1>2. CASE ReserveCall
  <2>1. PICK s \in Services :
          /\ pc["serve"] = "call" /\ Least(s, todo["serve"])
          /\ pc'["serve"] \in {"rollback", "record"}
          /\ pc'["serve"] = "rollback" => answer'.ids = NoIds
          /\ UNCHANGED <<ops, alloc, rows, runtime, stray, req, todo, plan, bind>>
          /\ \A t \in Services \ {s} : held'[t] = held[t] /\ acc'[t] = acc[t]
          /\ held[s] \subseteq held'[s]
          /\ \/ acc' = acc /\ outcome'["serve"] # "accepted"
             \/ /\ runtime[s] = bind /\ nextId \in held'[s]
                /\ acc'[s].rid = nextId /\ acc'[s].runtime = bind
    BY <1>2, ReserveCallCases
  <2>2. Attempting /\ Attempting'
    BY <2>1 DEF Attempting
  <2>3. /\ s \in todo["serve"] /\ s \in Target
        /\ \A t \in plan.services : t \in Services \ {s} /\ acc[t].rid = 0
    BY <2>1, TodoIsNew
  <2>4. alloc.services \subseteq Services /\ nextId # 0
    BY DEF TypeInv, TypeOK, Allocation, Handling
  <2>5. \A t \in Services : Least(t, todo["serve"]) => t = s
    BY <2>1, RequestAssumption DEF Least
  <2>6. /\ todo["serve"] \subseteq Target
        /\ \A t \in Services \ Target : acc[t].rid = 0
        /\ \A t \in Target \ todo["serve"] :
             /\ acc[t].rid # 0 /\ rows[t].rid = acc[t].rid
             /\ rows[t].runtime = acc[t].runtime
             /\ Backed(t, acc[t].rid, acc[t].runtime)
    BY <2>1 DEF BeforeEnd, AttemptBacked
  <2>7. Target' = Target
    BY <2>1 DEF Target
  <2>8. \A t \in Target \ todo["serve"] : t \in Services \ {s}
    BY <2>3, <2>4 DEF Target
  <2>9. AttemptBacked'
    <3>1. \A t \in Services \ Target : acc'[t].rid = 0
      BY <2>1, <2>3, <2>6
    <3>2. \A t \in Target \ todo["serve"] :
            /\ acc'[t].rid # 0 /\ rows'[t].rid = acc'[t].rid
            /\ rows'[t].runtime = acc'[t].runtime
            /\ Backed(t, acc[t].rid, acc[t].runtime)'
      BY <2>1, <2>6, <2>8 DEF Backed
    <3>3. outcome'["serve"] = "accepted" =>
            acc'[s].rid # 0 /\ acc'[s].runtime = bind' /\ Backed(s, acc[s].rid, bind)'
      BY <2>1, <2>4 DEF Backed
    <3> QED
      BY <2>1, <2>5, <2>6, <2>7, <3>1, <3>2, <3>3 DEF AttemptBacked, Least
  <2> QED
    BY <2>1, <2>2, <2>3, <2>9, AttemptExtended
<1>3. CASE RecordResult
  <2>1. PICK s \in Services :
          /\ pc["serve"] = "record" /\ Least(s, todo["serve"])
          /\ pc'["serve"] \in {"rollback", "resolve", "accept"}
          /\ pc'["serve"] = "rollback" => answer'.ids = NoIds
          /\ UNCHANGED <<ops, alloc, held, runtime, stray, req, plan, acc>>
          /\ \A t \in Services \ {s} : rows'[t] = rows[t]
          /\ pc'["serve"] # "rollback" =>
               /\ outcome["serve"] = "accepted"
               /\ rows'[s].rid = acc[s].rid /\ rows'[s].runtime = bind
               /\ todo'["serve"] = todo["serve"] \ {s}
          /\ pc'["serve"] = "accept" => todo["serve"] = {s}
    BY <1>3, RecordResultCases
  <2>2. Attempting /\ Attempting'
    BY <2>1 DEF Attempting
  <2>3. /\ s \in todo["serve"]
        /\ \A t \in plan.services : t \in Services \ {s} /\ acc[t].rid = 0
    BY <2>1, TodoIsNew
  <2>4. alloc.services \subseteq Services
    BY DEF TypeInv, TypeOK, Allocation
  <2>5. AttemptBacked'
    <3>1. CASE pc'["serve"] = "rollback"
      BY <3>1 DEF AttemptBacked
    <3>2. CASE pc'["serve"] # "rollback"
      <4>1. acc[s].rid # 0 /\ acc[s].runtime = bind /\ Backed(s, acc[s].rid, bind)
        BY <2>1, <3>2 DEF BeforeEnd, AttemptBacked
      <4>2. \A t \in Target \ (todo["serve"] \ {s}) :
              /\ acc[t].rid # 0 /\ rows'[t].rid = acc[t].rid
              /\ rows'[t].runtime = acc[t].runtime
              /\ Backed(t, acc[t].rid, acc[t].runtime)
        BY <2>1, <2>4, <3>2, <4>1 DEF BeforeEnd, AttemptBacked, Target
      <4>3. /\ todo'["serve"] = todo["serve"] \ {s} /\ todo["serve"] \subseteq Target
            /\ \A t \in Services \ Target : acc[t].rid = 0
        BY <2>1, <3>2 DEF BeforeEnd, AttemptBacked
      <4> QED
        BY <2>1, <3>2, <4>2, <4>3 DEF AttemptBacked, Target, Backed
    <3> QED
      BY <3>1, <3>2
  <2> QED
    BY <2>1, <2>2, <2>3, <2>5, AttemptExtended
<1> QED
  BY <1>1, <1>2, <1>3

\* A step of the rollback leaves the accepted set alone.
LEMMA RollbackExtended ==
  ASSUME TypeInv, BeforeEnd, BeginRollback \/ UndoCall \/ RecordUndo
  PROVE  BeforeEnd'
<1>1. /\ pc["serve"] \in {"rollback", "undo", "undone"}
      /\ pc'["serve"] \in {"undo", "undone", "settle"}
      /\ UNCHANGED <<ops, runtime, stray, req, plan, answer>>
      /\ alloc'.state \in {alloc.state, "rolling-back"}
      /\ alloc'.owner = alloc.owner /\ alloc'.services = alloc.services
      /\ alloc'.response = alloc.response
      /\ \A s \in Services :
           /\ acc[s].rid = 0 => rows'[s] = rows[s] /\ held'[s] = held[s]
           /\ acc'[s].rid \in {0, acc[s].rid}
  BY RollbackCases
<1>2. Attempting /\ Attempting'
  BY <1>1 DEF Attempting
<1>3. AttemptBacked'
  BY <1>1 DEF AttemptBacked
<1>4. \A s \in plan.services : s \in Services /\ acc[s].rid = 0
  BY <1>2 DEF TypeInv, TypeOK, Plan, BeforeEnd, AttemptForm
<1>5. answer'.ids = NoIds
  BY <1>1 DEF BeforeEnd, AnswersCurrent
<1>6. \A s \in plan.services : /\ rows'[s] = rows[s] /\ held'[s] = held[s]
                               /\ acc'[s].rid = 0
  BY <1>1, <1>4
<1> QED
  BY <1>1, <1>2, <1>3, <1>5, <1>6, AttemptExtended

\* complete_allocation of an accepted set: it is the set that the attempt has made,
\* and the one that it extends.
LEMMA AcceptExtended ==
  ASSUME TypeInv, BeforeEnd, Accept
  PROVE  BeforeEnd'
<1>1. /\ pc["serve"] = "accept" /\ pc'["serve"] = "finish"
      /\ UNCHANGED <<ops, rows, held, runtime, stray, req, plan, acc>>
      /\ alloc'.state = "accepted" /\ alloc'.owner = alloc.owner
      /\ alloc'.services = alloc.services
      /\ alloc'.response.ids = AcceptedIds /\ answer'.ids = AcceptedIds
  BY AcceptCases
<1>2. Attempting /\ ~ Attempting'
  BY <1>1 DEF Attempting
<1>3. /\ alloc.state # "accepted" /\ plan.services \subseteq alloc.services
      /\ alloc.owner = req["serve"].owner
      /\ req["serve"].services \subseteq alloc.services
      /\ alloc.services \subseteq Services
      /\ \A s \in plan.services : acc[s].rid = 0
  BY <1>2 DEF TypeInv, TypeOK, Allocation, BeforeEnd, AttemptForm
<1>4. /\ \A s \in Services \ Target : acc[s].rid = 0
      /\ \A s \in Target :
           /\ acc[s].rid # 0 /\ rows[s].rid = acc[s].rid
           /\ rows[s].runtime = acc[s].runtime
           /\ Backed(s, acc[s].rid, acc[s].runtime)
  BY <1>1 DEF BeforeEnd, AttemptBacked
<1>5. \A s \in Services : alloc'.response.ids[s] =
        IF acc[s].rid # 0 THEN acc[s].rid ELSE plan.response.ids[s]
  BY <1>1 DEF AcceptedIds
<1>6. \A s \in Services :
        IF s \in plan.services
        THEN /\ plan.extends /\ rows[s].rid # 0 /\ rows[s].rid = alloc.response.ids[s]
             /\ plan.response.ids[s] = alloc.response.ids[s]
             /\ Backed(s, rows[s].rid, rows[s].runtime)
        ELSE plan.response.ids[s] = 0 /\ alloc.response.ids[s] = 0
  <2>1. CASE plan.extends
    BY <1>2, <2>1
       DEF BeforeEnd, AttemptForm, SettledIsBacked, Settled, SettledServices
  <2>2. CASE ~ plan.extends
    <3>1. plan = NoPlan /\ alloc.response.ids = NoIds
      BY <1>2, <2>2 DEF BeforeEnd, AttemptForm
    <3> QED
      BY <3>1 DEF NoPlan, NoResponse, Reply, NoIds
  <2> QED
    BY <2>1, <2>2
<1>7. \A s \in Services :
        IF s \in alloc.services
        THEN /\ rows[s].rid # 0 /\ rows[s].rid = alloc'.response.ids[s]
             /\ Backed(s, rows[s].rid, rows[s].runtime)
        ELSE alloc'.response.ids[s] = 0
  BY <1>3, <1>4, <1>5, <1>6 DEF Target
<1>8. \A s \in Services : alloc.response.ids[s] # 0 =>
        alloc'.response.ids[s] = alloc.response.ids[s]
  BY <1>3, <1>5, <1>6
<1>9. SettledIsBacked'
  BY <1>1, <1>2, <1>7 DEF SettledIsBacked, SettledServices, Backed
<1>10. AttemptForm' /\ AttemptBacked'
  BY <1>1, <1>2 DEF AttemptForm, AttemptBacked
<1>11. StraysStuck'
  BY <1>1, <1>2 DEF BeforeEnd, StraysStuck, Stuck
<1>12. AnswersCurrent'
  <2>1. \A k \in OperationKeys, s \in Services :
          ops'[k].response.ids[s] # 0 =>
            ops'[k].response.ids[s] = alloc'.response.ids[s]
    BY <1>1, <1>8 DEF BeforeEnd, AnswersCurrent
  <2> QED
    BY <1>1, <1>3, <2>1 DEF AnswersCurrent
<1>13. AcceptedWithin'
  BY <1>1, <1>2, <1>3
     DEF BeforeEnd, AcceptedWithin, Settled, SettledServices, Stuck
<1> QED
  BY <1>1, <1>9, <1>10, <1>11, <1>12, <1>13 DEF BeforeEnd

\* The end of a rollback: the set that was extended is the accepted one again, or
\* the allocation has none.
LEMMA SettleExtended ==
  ASSUME TypeInv, BeforeEnd, Settle
  PROVE  BeforeEnd'
<1>1. /\ pc["serve"] = "settle"
      /\ UNCHANGED <<ops, rows, held, runtime, stray>>
      /\ \/ Return("serve")
         \/ pc'["serve"] = "finish" /\ UNCHANGED <<req, plan, acc, answer>>
      /\ answer.kind # "accepted"
      /\ alloc'.owner = alloc.owner
      /\ \/ /\ plan.extends /\ alloc'.state = "accepted"
            /\ alloc'.services = plan.services /\ alloc'.response = plan.response
         \/ ~ plan.extends /\ alloc' = alloc /\ Return("serve")
         \/ /\ ~ plan.extends /\ alloc'.state \in {"delayed", "rejected", "rolled-back"}
            /\ alloc'.response = answer
  BY SettleCases
<1>2. Attempting
  BY <1>1 DEF Attempting
<1>3. /\ alloc.state \in {"reserving", "extending", "rolling-back"}
      /\ answer.ids = NoIds
      /\ plan.extends => plan.response = alloc.response
      /\ ~ plan.extends => alloc.response.ids = NoIds
  BY <1>1, <1>2 DEF BeforeEnd, AttemptForm, AnswersCurrent
<1>4. /\ pc'["serve"] \in {"idle", "finish"} /\ ~ Attempting'
      /\ pc'["serve"] = "idle" => plan' = NoPlan /\ \A s \in Services : acc'[s].rid = 0
      /\ pc'["serve"] = "finish" => answer' = answer
  BY <1>1, ReturnFacts DEF Attempting
<1>5. CASE ~ plan.extends /\ alloc' = alloc /\ Return("serve")
  BY <1>1, <1>5, ReturnExtended
<1>6. CASE alloc' # alloc \/ ~ Return("serve") \/ plan.extends
  <2>1. \/ /\ plan.extends /\ alloc'.state = "accepted"
           /\ alloc'.services = plan.services /\ alloc'.response = alloc.response
        \/ /\ ~ plan.extends /\ alloc'.state \in {"delayed", "rejected", "rolled-back"}
           /\ alloc'.response.ids = NoIds /\ alloc'.response.kind # "accepted"
    BY <1>1, <1>3, <1>6
  <2>2. alloc'.response.ids = alloc.response.ids
    BY <1>3, <2>1
  <2>3. SettledIsBacked'
    BY <1>1, <1>2, <1>4, <2>1
       DEF BeforeEnd, SettledIsBacked, Settled, SettledServices, Backed
  <2>4. AttemptForm' /\ AttemptBacked'
    BY <1>4 DEF AttemptForm, AttemptBacked
  <2>5. StraysStuck'
    BY <1>1, <1>2 DEF BeforeEnd, StraysStuck, Stuck
  <2>6. AnswersCurrent'
    <3>1. \A s \in Services : NoIds[s] = 0
      BY DEF NoIds
    <3> QED
      BY <1>1, <1>3, <1>4, <2>1, <2>2, <3>1 DEF BeforeEnd, AnswersCurrent
  <2>7. AcceptedWithin'
    BY <1>1, <1>2, <1>3, <1>4, <2>1
       DEF BeforeEnd, AcceptedWithin, Settled, SettledServices, Stuck
  <2> QED
    BY <2>1, <2>3, <2>4, <2>5, <2>6, <2>7 DEF BeforeEnd
<1> QED
  BY <1>5, <1>6

\* begin_operation of a reserve: the operation has no answer yet.
LEMMA BeginReserveExtended ==
  ASSUME TypeInv, BeforeEnd, NEW r \in Reserves, BeginReserve(r)
  PROVE  BeforeEnd'
<1>1. /\ pc["serve"] = "idle" /\ pc'["serve"] = "allocate"
      /\ UNCHANGED <<alloc, rows, held, runtime, stray, plan, acc>>
      /\ ops' = StartOperation(ops, r)
  BY DEF TypeInv, TypeOK, BeginReserve, Goto, Proc, qpm, attempt
<1>2. ~ Attempting /\ ~ Attempting'
  BY <1>1 DEF Attempting
<1>3. \A k \in OperationKeys :
        \/ ops'[k] = ops[k]
        \/ ops'[k].response = NoResponse
  BY <1>1 DEF TypeInv, TypeOK, StartOperation
<1>4. NoResponse.kind = "none" /\ \A s \in Services : NoResponse.ids[s] = 0
  BY DEF NoResponse, Reply, NoIds
<1>5. SettledIsBacked' /\ StraysStuck'
  BY <1>1, <1>2
     DEF BeforeEnd, SettledIsBacked, Settled, SettledServices, Backed, StraysStuck, Stuck
<1>6. AttemptForm' /\ AttemptBacked'
  BY <1>1, <1>2 DEF BeforeEnd, AttemptForm, AttemptBacked
<1>7. AnswersCurrent'
  BY <1>1, <1>3, <1>4 DEF BeforeEnd, AnswersCurrent
<1>8. AcceptedWithin'
  <2>1. \A q \in Reserves : OperationKey(q) \in OperationKeys
    BY DEF OperationKeys, Requests
  <2> QED
    BY <1>1, <1>2, <1>3, <1>4, <2>1
       DEF BeforeEnd, AcceptedWithin, Settled, SettledServices, Stuck
<1> QED
  BY <1>1, <1>5, <1>6, <1>7, <1>8 DEF BeforeEnd

\* complete_operation: what is answered is what the allocation says.
LEMMA FinishExtended ==
  ASSUME TypeInv, Handling, BeforeEnd, Finish
  PROVE  BeforeEnd'
<1>1. PICK q : q = req["serve"]
  OBVIOUS
<1>2. /\ pc["serve"] = "finish" /\ q \in Requests
      /\ UNCHANGED <<alloc, rows, held, runtime, stray>>
      /\ Return("serve")
      /\ \A k \in OperationKeys :
           \/ ops'[k] = ops[k]
           \/ /\ k = OperationKey(q) /\ ops'[k].response = answer
              /\ ops'[k].request = ops[k].request
  BY <1>1 DEF TypeInv, TypeOK, Control, Finish, CompleteOperation, Operation, qpm
<1>3. /\ ~ Attempting /\ ~ Attempting'
      /\ pc'["serve"] = "idle" /\ plan' = NoPlan
      /\ \A s \in Services : acc'[s].rid = 0
  BY <1>2, ReturnFacts DEF Attempting
<1>4. SettledIsBacked' /\ StraysStuck'
  BY <1>2, <1>3
     DEF BeforeEnd, SettledIsBacked, Settled, SettledServices, Backed, StraysStuck, Stuck
<1>5. AttemptForm' /\ AttemptBacked'
  BY <1>3 DEF AttemptForm, AttemptBacked
<1>6. AnswersCurrent'
  <2>1. \A k \in OperationKeys, s \in Services :
          ops'[k].response.ids[s] # 0 =>
            ops'[k].response.ids[s] = alloc'.response.ids[s]
    BY <1>2 DEF BeforeEnd, AnswersCurrent
  <2> QED
    BY <1>2, <1>3, <2>1 DEF BeforeEnd, AnswersCurrent
<1>7. AcceptedWithin'
  <2> SUFFICES ASSUME NEW r \in Reserves, ops'[OperationKey(r)].request = r,
                      ops'[OperationKey(r)].response.kind = "accepted"
               PROVE  \/ Stuck'
                      \/ /\ Settled' /\ alloc'.owner = r.owner
                         /\ r.services \subseteq SettledServices'
    BY DEF AcceptedWithin
  <2>1. OperationKey(r) \in OperationKeys
    BY DEF OperationKeys, Requests
  <2>2. CASE ops'[OperationKey(r)] = ops[OperationKey(r)]
    BY <1>2, <1>3, <2>2 DEF BeforeEnd, AcceptedWithin, Settled, SettledServices, Stuck
  <2>3. CASE /\ OperationKey(r) = OperationKey(q)
             /\ ops'[OperationKey(r)].response = answer
             /\ ops'[OperationKey(r)].request = ops[OperationKey(r)].request
    <3>1. r = q
      BY <1>1, <1>2, <2>3 DEF Handling
    <3>2. /\ alloc.state = "accepted" /\ alloc.owner = r.owner
          /\ r.services \subseteq alloc.services
      BY <1>1, <1>2, <2>3, <3>1 DEF BeforeEnd, AnswersCurrent
    <3> QED
      BY <1>2, <1>3, <3>2 DEF Settled, SettledServices
  <2> QED
    BY <1>2, <2>1, <2>2, <2>3
<1> QED
  BY <1>2, <1>4, <1>5, <1>6, <1>7 DEF BeforeEnd

\* The call that an abandoned handler leaves: a release only when it was undoing an
\* attempt, or releasing the job.
LEMMA PendingRelease ==
  ASSUME TypeInv, NEW c \in PendingCalls("serve"), c.kind = "release"
  PROVE  pc["serve"] \in {"undo", "release"}
<1>1. CASE pc["serve"] = "call"
  BY <1>1 DEF PendingCalls
<1>2. CASE pc["serve"] \notin {"call", "undo", "release"}
  BY <1>2 DEF PendingCalls
<1> QED
  BY <1>1, <1>2

\* The handler is cancelled, or its process dies, or the journal fails.
LEMMA AbandonExtended ==
  ASSUME TypeInv, Handling, NoReleaseBegun, BeforeEnd,
         Abandon("serve") \/ JournalFails("serve")
  PROVE  BeforeEnd'
<1>1. /\ Return("serve") /\ UNCHANGED <<ops, alloc, rows, held, runtime>>
      /\ stray' \subseteq stray \cup PendingCalls("serve")
  BY DEF Abandon, JournalFails, journal, qpm
<1>2. pc["serve"] # "release"
  BY DEF TypeInv, Control, Handling
<1>3. \A c \in PendingCalls("serve") : c.kind = "release" => Attempting
  BY <1>2, PendingRelease DEF Attempting
<1> QED
  BY <1>1, <1>3, ReturnExtended

\* A call without its handler takes nothing from an accepted set, and a QPM that
\* restarts is another incarnation than the one that made a reservation.
LEMMA QpmExtended ==
  ASSUME TypeInv, BeforeEnd,
         (\E c \in stray : StrayRuns(c)) \/ \E s \in Services : QpmRestart(s)
  PROVE  BeforeEnd'
<1>1. /\ stray' \subseteq stray
      /\ UNCHANGED <<ops, alloc, rows, pc, req, todo, outcome, plan, acc, bind, answer>>
      /\ \/ Stuck
         \/ \A s \in Services : \/ runtime'[s] = runtime[s] /\ held[s] \subseteq held'[s]
                                \/ runtime'[s] = runtime[s] + 1
  <2>1. CASE \E c \in stray : StrayRuns(c)
    <3>1. PICK c \in stray : StrayRuns(c)
      BY <2>1
    <3>2. UNCHANGED <<bind, answer>>
      BY <3>1 DEF StrayRuns, attempt
    <3>3. c.kind = "release" => Stuck
      BY DEF BeforeEnd, StraysStuck
    <3> QED
      BY <3>1, <3>2, <3>3, StrayFacts
  <2>2. CASE \E s \in Services : QpmRestart(s)
    BY <2>2 DEF TypeInv, TypeOK, QpmRestart, journal, loop, attempt
  <2> QED
    BY <2>1, <2>2
<1>2. /\ Attempting' <=> Attempting
      /\ Settled' <=> Settled
      /\ Stuck' <=> Stuck
      /\ SettledServices' = SettledServices /\ Target' = Target
  BY <1>1 DEF Attempting, Settled, Stuck, SettledServices, Target
<1>3. Stuck \/ \A s \in Services, rid, b \in Nat : Backed(s, rid, b) => Backed(s, rid, b)'
  BY <1>1 DEF Backed, TypeInv, TypeOK
<1>4. /\ \A s \in Services : /\ rows[s].rid \in Nat /\ rows[s].runtime \in Nat
                             /\ acc[s].rid \in Nat /\ acc[s].runtime \in Nat
      /\ bind \in Nat /\ alloc.services \subseteq Services
  BY DEF TypeInv, TypeOK, Row, Accepted, Allocation
<1>5. Stuck => ~ Settled /\ ~ Attempting
  BY DEF Stuck, Settled
<1>6. SettledIsBacked'
  <2>1. \A s \in Services :
          Settled /\ Backed(s, rows[s].rid, rows[s].runtime) =>
            Backed(s, rows[s].rid, rows[s].runtime)'
    BY <1>1, <1>3, <1>4, <1>5 DEF Backed
  <2> QED
    BY <1>1, <1>2, <2>1 DEF BeforeEnd, SettledIsBacked
<1>7. AttemptForm'
  BY <1>1, <1>2 DEF BeforeEnd, AttemptForm
<1>8. AttemptBacked'
  <2>1. CASE ~ Attempting
    BY <1>2, <2>1 DEF AttemptBacked, Attempting
  <2>2. CASE Attempting
    <3>1. \A s \in Services :
            /\ Backed(s, acc[s].rid, acc[s].runtime) =>
                 Backed(s, acc[s].rid, acc[s].runtime)'
            /\ Backed(s, acc[s].rid, bind) => Backed(s, acc[s].rid, bind)'
      BY <1>1, <1>3, <1>4, <1>5, <2>2 DEF Backed
    <3>2. \A s \in Services : Least(s, todo["serve"])' <=> Least(s, todo["serve"])
      BY <1>1 DEF Least
    <3> QED
      BY <1>1, <1>2, <1>4, <3>1, <3>2 DEF BeforeEnd, AttemptBacked, Target
  <2> QED
    BY <2>1, <2>2
<1>9. StraysStuck' /\ AnswersCurrent' /\ AcceptedWithin'
  BY <1>1, <1>2 DEF BeforeEnd, StraysStuck, AnswersCurrent, AcceptedWithin
<1> QED
  BY <1>1, <1>6, <1>7, <1>8, <1>9 DEF BeforeEnd

-----------------------------------------------------------------------------
(* Without the operator's command, ExtensionInv is inductive.              *)

\* The steps of the daemon, and of the QPMs and their calls.
LEMMA DaemonSteps ==
  ASSUME "admin" \notin Events, Handling, [Next]_vars
  PROVE  \/ ReserveStep
         \/ \E r \in Releases : BeginRelease(r)
         \/ VerifyRelease \/ ReleaseStep("serve")
         \/ JournalFails("serve") \/ (Abandon("serve") /\ pc["serve"] # "idle")
         \/ \E c \in stray : StrayRuns(c)
         \/ \E s \in Services : QpmRestart(s)
         \/ UNCHANGED vars
<1>1. pc["admin"] = "idle"
  BY DEF Handling
<1>2. CASE RetryRelease
  BY <1>2 DEF RetryRelease
<1>3. CASE \E p \in Proc : ReleaseStep(p)
  BY <1>1, <1>3
     DEF Proc, ReleaseStep, SkipTerminal, ReleaseCall, RecordRelease, CompleteRelease
<1>4. CASE Fault
  <2>1. CASE Cancel \/ \E p \in Proc : JournalFails(p) \/ Crash(p)
    BY <1>1, <2>1 DEF Cancel, Awaits, JournalFails, Crash, Proc
  <2> QED
    BY <1>4, <2>1 DEF Fault
<1> QED
  BY <1>2, <1>3, <1>4 DEF Next

\* A step of a handler keeps its request, or ends the handler.
LEMMA HandlerKeeps ==
  ASSUME "admin" \notin Events, TypeInv,
         \/ BeginAllocation \/ Resolve \/ ReserveCall \/ RecordResult \/ Accept
         \/ BeginRollback \/ UndoCall \/ RecordUndo \/ Settle
         \/ VerifyRelease \/ ReleaseStep("serve")
         \/ JournalFails("serve") \/ (Abandon("serve") /\ pc["serve"] # "idle")
  PROVE  /\ pc["serve"] # "idle" /\ pc'["admin"] = pc["admin"]
         /\ UNCHANGED ops
         /\ Return("serve") \/ UNCHANGED req
<1>1. Return("serve") => pc'["admin"] = pc["admin"]
  BY ReturnFacts
<1>2. CASE \/ BeginAllocation \/ Resolve \/ ReserveCall \/ RecordResult \/ Accept
           \/ BeginRollback \/ UndoCall \/ RecordUndo \/ Settle
  BY <1>1, <1>2, BeginAllocationCases, ResolveCases, ReserveCallCases, RecordResultCases,
     AcceptCases, RollbackCases, SettleCases
<1>3. CASE VerifyRelease
  <2>1. /\ pc["serve"] = "verify" /\ UNCHANGED ops
        /\ Return("serve") \/ (ReadRows("serve") /\ UNCHANGED req)
    BY <1>3 DEF VerifyRelease, journal
  <2>2. ReadRows("serve") => pc'["admin"] = pc["admin"]
    BY DEF ReadRows, Goto, TypeInv, TypeOK, Proc
  <2> QED
    BY <1>1, <2>1, <2>2
<1>4. CASE ReleaseStep("serve")
  <2>1. /\ pc["serve"] # "idle" /\ UNCHANGED ops
        /\ \/ Return("serve")
           \/ UNCHANGED req /\ \E l : Goto("serve", l)
    BY <1>4 DEF ReleaseStep, SkipTerminal, ReleaseCall, RecordRelease, CompleteRelease,
       NextRow, journal
  <2> QED
    BY <1>1, <2>1, RollbackAnswer
<1>5. CASE JournalFails("serve") \/ (Abandon("serve") /\ pc["serve"] # "idle")
  BY <1>1, <1>5 DEF JournalFails, Abandon, journal
<1> QED
  BY <1>2, <1>3, <1>4, <1>5

\* The daemon goes on with the request of the operation it began.
LEMMA HandlingStep ==
  ASSUME "admin" \notin Events, TypeInv, FreshIds, FreshIds', Handling, [Next]_vars
  PROVE  Handling'
<1>0. nextId' >= 1
  BY DEF FreshIds
<1>1. \A q \in Requests \cup {NoRequest} : q \in Requests => q # NoRequest
  BY RequestAssumption
<1>2. CASE UNCHANGED ops /\ Return("serve")
  <2>1. pc'["serve"] = "idle" /\ pc'["admin"] = pc["admin"] /\ req'["serve"] = NoRequest
    BY <1>2, ReturnFacts
  <2> QED
    BY <1>0, <2>1, RequestAssumption DEF Handling, Requests
<1>3. CASE UNCHANGED <<ops, req>> /\ pc["serve"] # "idle" /\ pc'["admin"] = pc["admin"]
  BY <1>0, <1>3 DEF Handling, NoReleaseBegun
<1>4. CASE UNCHANGED <<ops, req, pc>>
  BY <1>0, <1>4 DEF Handling, NoReleaseBegun
<1>5. ASSUME NEW r \in Requests, ops' = StartOperation(ops, r),
             req' = [req EXCEPT !["serve"] = r], NEW l, Goto("serve", l),
             r \in Releases => ~ NoReleaseBegun'
      PROVE  Handling'
  <2>1. pc'["admin"] = pc["admin"] /\ req'["serve"] = r
    BY <1>5 DEF TypeInv, TypeOK, Goto, Proc
  <2>2. ops'[OperationKey(r)].request = r
    BY <1>5 DEF TypeInv, TypeOK, StartOperation, OperationKeys
  <2> QED
    BY <1>0, <1>5, <2>1, <2>2 DEF Handling
<1>6. CASE \E r \in Reserves : BeginReserve(r)
  <2>1. PICK r \in Reserves : BeginReserve(r)
    BY <1>6
  <2>2. r \in Requests /\ r \notin Releases
    BY RequestAssumption DEF Requests
  <2> QED
    BY <1>5, <2>1, <2>2 DEF BeginReserve
<1>7. CASE \E r \in Releases : BeginRelease(r)
  BY <1>5, <1>7, OperationFacts DEF BeginRelease, Requests
<1>8. CASE Finish
  <2>1. pc'["serve"] = "idle" /\ pc'["admin"] = pc["admin"] /\ req'["serve"] = NoRequest
    BY <1>8, ReturnFacts DEF Finish
  <2> QED
    BY <1>0, <2>1, RequestAssumption DEF Handling, Requests
<1>9. CASE \/ BeginAllocation \/ Resolve \/ ReserveCall \/ RecordResult \/ Accept
           \/ BeginRollback \/ UndoCall \/ RecordUndo \/ Settle
           \/ VerifyRelease \/ ReleaseStep("serve")
           \/ JournalFails("serve") \/ (Abandon("serve") /\ pc["serve"] # "idle")
  BY <1>2, <1>3, <1>9, HandlerKeeps
<1>10. CASE \/ \E c \in stray : StrayRuns(c)
            \/ \E s \in Services : QpmRestart(s)
            \/ UNCHANGED vars
  BY <1>4, <1>10 DEF StrayRuns, QpmRestart, vars, journal
<1> QED
  BY <1>6, <1>7, <1>8, <1>9, <1>10, DaemonSteps DEF ReserveStep

\* A release that has begun stays begun.
LEMMA BegunStays ==
  ASSUME "admin" \notin Events, TypeInv, Handling, [Next]_vars
  PROVE  ~ NoReleaseBegun => ~ NoReleaseBegun'
<1>1. CASE UNCHANGED ops
  BY <1>1 DEF NoReleaseBegun
<1>2. CASE Finish \/ (\E r \in Releases : BeginRelease(r)) \/ \E r \in Reserves : BeginReserve(r)
  BY <1>2, OperationFacts
<1>3. CASE \/ \E c \in stray : StrayRuns(c)
           \/ \E s \in Services : QpmRestart(s)
           \/ UNCHANGED vars
  BY <1>1, <1>3 DEF StrayRuns, QpmRestart, vars, journal
<1> QED
  BY <1>1, <1>2, <1>3, HandlerKeeps, DaemonSteps DEF ReserveStep

\* Before the release begins, a step keeps what the answers and the rows say.
LEMMA BeforeEndStep ==
  ASSUME "admin" \notin Events, TypeInv, Handling, NoReleaseBegun, NoReleaseBegun',
         BeforeEnd, [Next]_vars
  PROVE  BeforeEnd'
<1>1. CASE ReserveStep
  BY <1>1, BeginReserveExtended, BeginAllocationExtended, LoopExtended, AcceptExtended,
     RollbackExtended, SettleExtended, FinishExtended DEF ReserveStep
<1>2. CASE \E r \in Releases : BeginRelease(r)
  BY <1>2, OperationFacts
<1>3. CASE VerifyRelease \/ ReleaseStep("serve")
  <2>1. pc["serve"] \in {"verify", "release", "released", "tidy"}
    BY <1>3 DEF VerifyRelease, ReleaseStep, SkipTerminal, ReleaseCall, RecordRelease,
       CompleteRelease
  <2> QED
    BY <2>1 DEF TypeInv, Control, Handling
<1>4. CASE JournalFails("serve") \/ Abandon("serve")
  BY <1>4, AbandonExtended
<1>5. CASE (\E c \in stray : StrayRuns(c)) \/ \E s \in Services : QpmRestart(s)
  BY <1>5, QpmExtended
<1>6. CASE UNCHANGED vars
  <2>1. UNCHANGED <<ops, alloc, rows, held, runtime, stray, pc, req, todo, outcome, plan,
                    acc, bind, answer>>
    BY <1>6 DEF vars, journal, qpm, loop, attempt
  <2>2. SettledIsBacked' /\ AttemptForm' /\ AttemptBacked'
    BY <2>1 DEF BeforeEnd, SettledIsBacked, AttemptForm, AttemptBacked, Settled,
       SettledServices, Backed, Target, Least, Attempting
  <2>3. StraysStuck' /\ AnswersCurrent' /\ AcceptedWithin'
    BY <2>1 DEF BeforeEnd, StraysStuck, AnswersCurrent, AcceptedWithin, Settled,
       SettledServices, Stuck, Attempting
  <2> QED
    BY <2>1, <2>2, <2>3 DEF BeforeEnd
<1> QED
  BY <1>1, <1>2, <1>3, <1>4, <1>5, <1>6, DaemonSteps

\* Nothing is reserved, answered or asked.
LEMMA InitExtension ==
  ASSUME Init
  PROVE  FreshIds /\ ExtensionInv
<1>1. /\ pc["serve"] = "idle" /\ pc["admin"] = "idle" /\ req["serve"] = NoRequest
      /\ plan = NoPlan /\ nextId = 1 /\ stray = {}
      /\ alloc = NoAllocation
      /\ \A s \in Services : acc[s].rid = 0
      /\ \A k \in OperationKeys : ops[k] = NoOperation
  BY DEF Init, Proc, NoneAccepted
<1>2. FreshIds
  BY DEF Init, FreshIds, NoRows, NoRow, NoneAccepted, Proc
<1>3. Handling
  BY <1>1, RequestAssumption DEF Handling, Requests
<1>4. /\ NoResponse.kind = "none" /\ NoResponse.ids = NoIds
      /\ \A s \in Services : NoResponse.ids[s] = 0
  BY DEF NoResponse, Reply, NoIds
<1>5. ~ Attempting
  BY <1>1 DEF Attempting
<1>6. SettledIsBacked /\ AttemptForm /\ AttemptBacked /\ StraysStuck
  BY <1>1, <1>5 DEF SettledIsBacked, Settled, AttemptForm, AttemptBacked, StraysStuck,
     NoAllocation
<1>7. AnswersCurrent
  BY <1>1, <1>4 DEF AnswersCurrent, NoOperation, NoAllocation
<1>8. AcceptedWithin
  BY <1>1, <1>4 DEF AcceptedWithin, NoOperation, OperationKeys, Requests
<1> QED
  BY <1>1, <1>2, <1>3, <1>6, <1>7, <1>8 DEF ExtensionInv, BeforeEnd, NoAllocation

Extended == TypeInv /\ FreshIds /\ ExtensionInv

\* Extended is an invariant of every job while the operator leaves it alone.
LEMMA ExtensionCorrect ==
  ASSUME "admin" \notin Events
  PROVE  Spec => []Extended
<1>1. Init => Extended
  BY InitType, InitExtension DEF Extended
<1>2. Extended /\ [Next]_vars => Extended'
  <2> SUFFICES ASSUME Extended, [Next]_vars PROVE Extended'
    OBVIOUS
  <2>1. TypeInv' /\ FreshIds'
    BY NextType, FreshStep DEF Extended
  <2>2. Handling'
    BY <2>1, HandlingStep DEF Extended, ExtensionInv
  <2>3. NoReleaseBegun' => BeforeEnd'
    BY BegunStays, BeforeEndStep DEF Extended, ExtensionInv
  <2> QED
    BY <2>1, <2>2, <2>3 DEF Extended, ExtensionInv
<1> QED
  BY <1>1, <1>2, PTL DEF Spec

-----------------------------------------------------------------------------
(* The theorems about every job, before its release.                       *)

\* However the components of a job extend its allocation, repeat their requests, fail,
\* time out or crash: before teardown, reservation_context hands out exactly the ids of
\* the accepted response, and each is held by the QPM incarnation that made it, or that
\* QPM has restarted.
THEOREM LookupBacked ==
  ASSUME "admin" \notin Events
  PROVE  Spec => []LookupIsBacked
<1>1. Extended => LookupIsBacked
  <2> SUFFICES ASSUME Extended, LookupSucceeds(alloc, rows), NoReleaseBegun
               PROVE  /\ ReservationContext(alloc, rows) = alloc.response.ids
                      /\ \A s \in alloc.services :
                           rows[s].rid \in held[s] \/ rows[s].runtime # runtime[s]
    BY DEF LookupIsBacked
  <2>1. /\ alloc.state = "accepted" /\ alloc.services \subseteq Services
        /\ alloc.response.ids \in [Services -> Nat]
        /\ \A s \in Services : rows[s].runtime \in Nat /\ runtime[s] \in Nat
    BY DEF LookupSucceeds, Extended, TypeInv, TypeOK, Allocation, Response, Row
  <2>2. ~ Attempting
    BY <2>1 DEF Extended, ExtensionInv, BeforeEnd, AttemptForm
  <2>3. \A s \in Services :
          IF s \in alloc.services
          THEN /\ rows[s].rid = alloc.response.ids[s]
               /\ Backed(s, rows[s].rid, rows[s].runtime)
          ELSE alloc.response.ids[s] = 0
    BY <2>1, <2>2
       DEF Extended, ExtensionInv, BeforeEnd, SettledIsBacked, Settled, SettledServices
  <2>4. ReservationContext(alloc, rows) = alloc.response.ids
    BY <2>1, <2>3 DEF ReservationContext
  <2> QED
    BY <2>1, <2>3, <2>4 DEF Backed
<1> QED
  BY <1>1, ExtensionCorrect, PTL

\* Before teardown, complete_operation has stored no two answers that name different
\* reservations of one service: each component of the job, and each repeat of a request
\* under a new id, was told of the same reservation.
THEOREM AnswersCorrect ==
  ASSUME "admin" \notin Events
  PROVE  Spec => [](NoReleaseBegun => AnswersAgree)
<1>1. Extended => (NoReleaseBegun => AnswersAgree)
  BY DEF Extended, ExtensionInv, BeforeEnd, AnswersCurrent, AnswersAgree
<1> QED
  BY <1>1, ExtensionCorrect, PTL

\* A reserve that was accepted and is repeated after other components extended the
\* allocation is answered, by begin_operation and accepted_allocation, with what a lookup
\* of the job returns, and not with the smaller set that was stored for it.
THEOREM ReplayCorrect ==
  ASSUME "admin" \notin Events
  PROVE  Spec => []ReplayIsCurrent
<1>1. Extended => ReplayIsCurrent
  <2> SUFFICES ASSUME Extended, LookupSucceeds(alloc, rows), NoReleaseBegun,
                      NEW r \in Reserves, ops[OperationKey(r)].request = r,
                      ops[OperationKey(r)].response.kind = "accepted"
               PROVE  ReplayedReserve(r) = ReservationContext(alloc, rows)
    BY DEF ReplayIsCurrent
  <2>1. /\ alloc.state = "accepted" /\ alloc.services \subseteq Services
        /\ alloc.response.ids \in [Services -> Nat]
        /\ \A s \in alloc.services : rows[s].rid # 0
    BY DEF LookupSucceeds, Extended, TypeInv, TypeOK, Allocation, Response
  <2>2. ~ Attempting
    BY <2>1 DEF Extended, ExtensionInv, BeforeEnd, AttemptForm
  <2>3. \A s \in Services : alloc.response.ids[s] =
          IF s \in alloc.services THEN rows[s].rid ELSE 0
    BY <2>1, <2>2
       DEF Extended, ExtensionInv, BeforeEnd, SettledIsBacked, Settled, SettledServices
  <2>4. alloc.owner = r.owner /\ r.services \subseteq alloc.services
    BY <2>1, <2>2
       DEF Extended, ExtensionInv, BeforeEnd, AcceptedWithin, Stuck, SettledServices
  <2>5. ~ AcceptedConflicts(alloc, r) /\ AcceptedAllocation(alloc) = alloc.response.ids
    BY <2>1, <2>4 DEF AcceptedConflicts, AcceptedAllocation
  <2>6. alloc.response.ids # NoIds
    <3>1. PICK s \in r.services : TRUE
      BY RequestAssumption
    <3>2. alloc.response.ids[s] # 0
      BY <2>1, <2>3, <2>4, <3>1
    <3> QED
      BY <2>1, <2>4, <3>1, <3>2 DEF NoIds
  <2>7. ReplayedReserve(r) = alloc.response.ids
    BY <2>5, <2>6 DEF ReplayedReserve
  <2> QED
    BY <2>1, <2>3, <2>7 DEF ReservationContext
<1> QED
  BY <1>1, ExtensionCorrect, PTL
=============================================================================
