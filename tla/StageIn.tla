------------------------------- MODULE StageIn -------------------------------
(***************************************************************************)
(* The stage-in of one job: Slurm polls slurm_bb_test_data_in, which has   *)
(* the helper send one evaluate request, always under the same request id, *)
(* and the gateway (_evaluate) asks every QPM of the request.              *)
(*                                                                         *)
(* The gateway keeps one operations row for the request.  A poll that its  *)
(* caller has given up (the helper's own timeout) is still served, and the *)
(* next poll waits for it at the allocation lock: slots are the requests   *)
(* the gateway has accepted and not yet answered.                          *)
(***************************************************************************)
EXTENDS Naturals

CONSTANTS
  Services,   \* the QPM services of the request, in the order sorted() gives
  Slots,      \* bound: the requests that may be at the gateway at once
  NoSlot,     \* no request
  Events      \* what may go wrong

AllEvents ==
  {"down",      \* a QPM cannot be resolved, or its evaluate raises
   "delay",     \* a QPM reports a delay
   "verify",    \* Slurm cannot verify the job
   "giveup",    \* the helper stops waiting for the gateway
   "journal",   \* a journal write raises
   "cancel",    \* the request timeout of the server cancels the handler
   "crash"}     \* the gateway dies and comes back

ASSUME StageInAssumption ==
  /\ Services \subseteq Nat /\ Services # {}
  /\ Slots # {} /\ NoSlot \notin Slots
  /\ Events \subseteq AllEvents

VARIABLES
  op,        \* the operations row: its state
  stored,    \* and the decision of its response
  slot,      \* each request at the gateway
  serving,   \* the request that holds the allocation lock
  asked,     \* what each QPM has answered in this evaluation
  live,      \* the request Slurm's present poll waits for
  reply,     \* what that poll got
  job,       \* where the job is for Slurm
  broken,    \* a handler ended between the first and the last of its writes
  steady     \* the QPMs and Slurm answer from now on (fairness)

vars == <<op, stored, slot, serving, asked, live, reply, job, broken, steady>>

Decisions == {"accepted", "delayed", "rejected"}
Replies == Decisions \cup {"error"}
Unasked == [s \in Services |-> "none"]

TypeOK ==
  /\ op \in {"absent", "started", "retryable", "complete"}
  /\ stored \in Replies \cup {"none"}
  /\ slot \in [Slots -> {"free", "queued", "verified", "asking"}]
  /\ serving \in Slots \cup {NoSlot}
  /\ asked \in [Services -> Decisions \cup {"none"}]
  /\ live \in Slots \cup {NoSlot}
  /\ reply \in Replies \cup {"none"}
  /\ job \in {"staging", "staged", "cancelled"}
  /\ broken \in BOOLEAN
  /\ steady \in BOOLEAN

Init ==
  /\ op = "absent"
  /\ stored = "none"
  /\ slot = [p \in Slots |-> "free"]
  /\ serving = NoSlot
  /\ asked = Unasked
  /\ live = NoSlot
  /\ reply = "none"
  /\ job = "staging"
  /\ broken = FALSE
  /\ steady = FALSE

\* A failure that is possible, until the environment is steady.
May(event) == event \in Events /\ ~ steady

-----------------------------------------------------------------------------
(* Slurm and the helper.                                                   *)

\* slurm_bb_test_data_in runs the helper, which sends evaluate.
Poll(p) ==
  /\ job = "staging"
  /\ live = NoSlot
  /\ reply = "none"
  /\ slot[p] = "free"
  /\ live' = p
  /\ slot' = [slot EXCEPT ![p] = "queued"]
  /\ UNCHANGED <<op, stored, serving, asked, reply, job, broken, steady>>

\* The helper's timeout: exit status 30.  The gateway does not notice.
GiveUp ==
  /\ May("giveup")
  /\ live # NoSlot
  /\ live' = NoSlot
  /\ reply' = "error"
  /\ UNCHANGED <<op, stored, slot, serving, asked, job, broken, steady>>

\* Mutant of StagedAs: everything but a rejection passes.
StagedUnlessRejected(answer) == IF answer = "rejected" THEN "cancelled" ELSE "staged"

\* What slurm_bb_test_data_in makes of the helper's exit status: a delay and a
\* failure are busy, a rejection cancels the job.
StagedAs(answer) ==
  CASE answer = "accepted" -> "staged"
    [] answer = "rejected" -> "cancelled"
    [] OTHER -> "staging"

PollEnds ==
  /\ reply # "none"
  /\ job' = StagedAs(reply)
  /\ reply' = "none"
  /\ UNCHANGED <<op, stored, slot, serving, asked, live, broken, steady>>

-----------------------------------------------------------------------------
(* The gateway.                                                            *)

\* The handler ends: the lock is free, and the poll, if it still waits, has its
\* answer.
Answer(p, answer) ==
  /\ slot' = [slot EXCEPT ![p] = "free"]
  /\ serving' = NoSlot
  /\ asked' = Unasked
  /\ live' = IF live = p THEN NoSlot ELSE live
  /\ reply' = IF live = p THEN answer ELSE reply

\* handle takes the lock and verify_reserve asks Slurm; a failure is an error.
Verify(p) ==
  /\ slot[p] = "queued"
  /\ serving = NoSlot
  /\ \/ /\ slot' = [slot EXCEPT ![p] = "verified"]
        /\ serving' = p
        /\ UNCHANGED <<asked, live, reply>>
     \/ May("verify") /\ Answer(p, "error")
  /\ UNCHANGED <<op, stored, job, broken, steady>>

\* Mutant of OperationStarts: only a row in use is not started again.
StartsUnlessStarted == op # "started"

\* begin_operation finds a row to start, the first time or again.
OperationStarts == op \in {"absent", "retryable"}

\* begin_operation: start the row, replay a complete one, or refuse.
Begin(p) ==
  /\ slot[p] = "verified"
  /\ \/ /\ OperationStarts
        /\ op' = "started"
        /\ stored' = "none"
        /\ slot' = [slot EXCEPT ![p] = "asking"]
        /\ UNCHANGED <<serving, asked, live, reply>>
     \/ /\ ~ OperationStarts
        /\ Answer(p, IF op = "complete" THEN stored ELSE "error")
        /\ UNCHANGED <<op, stored>>
  /\ UNCHANGED <<job, broken, steady>>

\* The QPMs not asked yet, and the next one in order.
ToAsk == {s \in Services : asked[s] = "none"}
NextToAsk(s) == s \in ToAsk /\ \A t \in ToAsk : s <= t

\* Mutant of Evaluate: a failed evaluation is not journaled.
EvaluateForgets(p) ==
  \E s \in Services :
    /\ slot[p] = "asking"
    /\ NextToAsk(s)
    /\ \/ \E d \in Decisions :
            /\ d = "delayed" => May("delay")
            /\ asked' = [asked EXCEPT ![s] = d]
            /\ UNCHANGED <<op, stored, slot, serving, live, reply>>
       \/ May("down") /\ Answer(p, "error") /\ UNCHANGED <<op, stored>>
    /\ UNCHANGED <<job, broken, steady>>

\* One turn of _evaluate_services; a QPM that fails ends the evaluation, which
\* _journal_failed_evaluation makes retryable.
Evaluate(p) ==
  \E s \in Services :
    /\ slot[p] = "asking"
    /\ NextToAsk(s)
    /\ \/ \E d \in Decisions :
            /\ d = "delayed" => May("delay")
            /\ asked' = [asked EXCEPT ![s] = d]
            /\ UNCHANGED <<op, stored, slot, serving, live, reply>>
       \/ /\ May("down")
          /\ op' = "retryable"
          /\ stored' = "error"
          /\ Answer(p, "error")
    /\ UNCHANGED <<job, broken, steady>>

\* The decision over the answers of all services.
Decision ==
  CASE \E s \in Services : asked[s] = "rejected" -> "rejected"
    [] \A s \in Services : asked[s] = "accepted" -> "accepted"
    [] OTHER -> "delayed"

\* Mutant of FinalState: a delayed evaluation is final.
AlwaysFinal(decision) == "complete"

\* A delayed evaluation may be repeated.
FinalState(decision) == IF decision = "delayed" THEN "retryable" ELSE "complete"

\* complete_operation and the answer.
Complete(p) ==
  /\ slot[p] = "asking"
  /\ ToAsk = {}
  /\ op' = FinalState(Decision)
  /\ stored' = Decision
  /\ Answer(p, Decision)
  /\ UNCHANGED <<job, broken, steady>>

\* A journal write raises: in begin_operation, in _journal_failed_evaluation, or
\* in complete_operation.  The handler answers an error.
JournalFails(p) ==
  /\ May("journal")
  /\ slot[p] = "verified" \/ (slot[p] = "asking" /\ (ToAsk = {} \/ May("down")))
  /\ broken' = (broken \/ slot[p] = "asking")
  /\ Answer(p, "error")
  /\ UNCHANGED <<op, stored, job, steady>>

\* The request timeout of the server cancels the handler at an await.  No
\* "except Exception" sees it; the connection is closed without an answer.
Cancel(p) ==
  /\ May("cancel")
  /\ slot[p] \in {"queued", "asking"}
  /\ slot' = [slot EXCEPT ![p] = "free"]
  /\ serving' = IF serving = p THEN NoSlot ELSE serving
  /\ asked' = IF serving = p THEN Unasked ELSE asked
  /\ live' = IF live = p THEN NoSlot ELSE live
  /\ reply' = IF live = p THEN "error" ELSE reply
  /\ broken' = (broken \/ slot[p] = "asking")
  /\ UNCHANGED <<op, stored, job, steady>>

\* The gateway dies and restarts on its journal: every connection is closed.
Crash ==
  /\ May("crash")
  /\ slot' = [p \in Slots |-> "free"]
  /\ serving' = NoSlot
  /\ asked' = Unasked
  /\ live' = NoSlot
  /\ reply' = IF live # NoSlot THEN "error" ELSE reply
  /\ broken' = (broken \/ \E p \in Slots : slot[p] = "asking")
  /\ UNCHANGED <<op, stored, job, steady>>

\* From now on nothing fails and no QPM is busy.
Settle ==
  /\ ~ steady
  /\ steady' = TRUE
  /\ UNCHANGED <<op, stored, slot, serving, asked, live, reply, job, broken>>

-----------------------------------------------------------------------------
Handler == \E p \in Slots : Verify(p) \/ Begin(p) \/ Evaluate(p) \/ Complete(p)

Polling == (\E p \in Slots : Poll(p)) \/ PollEnds

Next ==
  \/ Polling
  \/ GiveUp
  \/ Handler
  \/ \E p \in Slots : JournalFails(p) \/ Cancel(p)
  \/ Crash
  \/ Settle

\* Slurm keeps polling, the handler of a request goes on, and outages end.
Fairness == WF_vars(Polling) /\ WF_vars(Handler) /\ WF_vars(Settle)

Spec == Init /\ [][Next]_vars /\ Fairness

-----------------------------------------------------------------------------
(* Properties.                                                             *)

\* A job leaves stage-in only on an evaluation in which every QPM accepted, and
\* is cancelled only on one in which some QPM rejected: Slurm acts on a decision
\* that the journal holds as final.
StagedOnDecision ==
  /\ job = "staged" => op = "complete" /\ stored = "accepted"
  /\ job = "cancelled" => op = "complete" /\ stored = "rejected"

\* A final decision stands: a request that its poll has given up, and that the
\* gateway serves later, neither repeats the evaluation nor replaces its outcome.
DecisionIsFinal ==
  [][op = "complete" => op' = "complete" /\ stored' = stored]_vars

\* "each poll must reach the QPMs again": whatever QPMs, Slurm and callers do, a
\* failed or delayed evaluation whose handler ran to its end leaves the operation
\* repeatable, never in the state that refuses the next poll (_evaluate).
FailuresRepeatable == ~ broken /\ serving = NoSlot => op # "started"

\* Once the outages end, a job leaves stage-in, unless a handler was interrupted
\* in the middle of an evaluation: no poll is refused for ever.
StageInEnds == (job = "staging") ~> (job # "staging" \/ broken)
==============================================================================
