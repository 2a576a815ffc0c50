---------------------------- MODULE StageInProofs ----------------------------
(***************************************************************************)
(* The safety properties of StageIn, for any number of QPMs and of polls   *)
(* at the gateway, and whatever of AllEvents goes wrong.                   *)
(***************************************************************************)
EXTENDS StageIn, TLAPS

\* One request holds the allocation lock, and it alone has been verified.
LockInv ==
  \A p \in Slots : slot[p] \in {"verified", "asking"} <=> serving = p

\* The row is started while its evaluation runs, and stays so only when the
\* handler was interrupted; a complete row holds a decision.
RowInv ==
  /\ \A p \in Slots : slot[p] = "asking" => op = "started"
  /\ op = "started" => broken \/ \E p \in Slots : slot[p] = "asking"
  /\ op = "complete" => stored \in {"accepted", "rejected"}

\* What a poll was told, and what Slurm made of it, is in the row.
DecidedInv ==
  \A decision \in {"accepted", "rejected"} :
    \/ reply = decision
    \/ decision = "accepted" /\ job = "staged"
    \/ decision = "rejected" /\ job = "cancelled"
    => op = "complete" /\ stored = decision

Inv == TypeOK /\ LockInv /\ RowInv /\ DecidedInv

\* The job is in stage-in, and nothing was asked.
LEMMA InitInv == Init => Inv
  BY StageInAssumption
  DEF Init, Inv, TypeOK, LockInv, RowInv, DecidedInv, Replies, Decisions, Unasked

\* Slurm leaves stage-in only on these two answers (slurm_bb_test_data_in).
LEMMA StagedAsFacts ==
  ASSUME NEW answer
  PROVE  /\ StagedAs(answer) \in {"staging", "staged", "cancelled"}
         /\ StagedAs(answer) = "staged" => answer = "accepted"
         /\ StagedAs(answer) = "cancelled" => answer = "rejected"
<1>1. CASE answer = "accepted"
  BY <1>1 DEF StagedAs
<1>2. CASE answer = "rejected"
  BY <1>2 DEF StagedAs
<1>3. CASE answer \notin {"accepted", "rejected"}
  <2>1. StagedAs(answer) = "staging"
    BY <1>3 DEF StagedAs
  <2> QED
    BY <2>1
<1> QED
  BY <1>1, <1>2, <1>3

\* A decision is one of three (_evaluate).
LEMMA DecisionFacts == Decision \in Decisions
<1>1. CASE \E s \in Services : asked[s] = "rejected"
  BY <1>1 DEF Decision, Decisions
<1>2. CASE /\ ~ \E s \in Services : asked[s] = "rejected"
           /\ \A s \in Services : asked[s] = "accepted"
  BY <1>2 DEF Decision, Decisions
<1>3. CASE /\ ~ \E s \in Services : asked[s] = "rejected"
           /\ ~ \A s \in Services : asked[s] = "accepted"
  BY <1>3 DEF Decision, Decisions
<1> QED
  BY <1>1, <1>2, <1>3

\* A step of Slurm and of the helper keeps the invariant.
LEMMA SlurmStep ==
  ASSUME Inv, Polling \/ GiveUp \/ Settle
  PROVE  Inv'
<1> USE DEF Inv, TypeOK, LockInv, RowInv, DecidedInv, Replies, Decisions
<1>1. CASE \E p \in Slots : Poll(p)
  BY <1>1, StageInAssumption DEF Poll
<1>2. CASE PollEnds
  BY <1>2, StagedAsFacts DEF PollEnds
<1>3. CASE GiveUp
  BY <1>3 DEF GiveUp
<1>4. CASE Settle
  BY <1>4 DEF Settle
<1> QED
  BY <1>1, <1>2, <1>3, <1>4 DEF Polling

\* A step of the handler of a request (handle and _evaluate).
LEMMA HandlerStep ==
  ASSUME Inv, NEW p \in Slots, Verify(p) \/ Begin(p) \/ Evaluate(p) \/ Complete(p)
  PROVE  Inv'
<1> USE StageInAssumption
    DEF Inv, TypeOK, LockInv, RowInv, DecidedInv, Replies, Decisions, Answer, Unasked
<1>1. CASE Verify(p)
  BY <1>1 DEF Verify
<1>2. CASE Begin(p)
  BY <1>2 DEF Begin, OperationStarts
<1>3. CASE Evaluate(p)
  BY <1>3 DEF Evaluate
<1>4. CASE Complete(p)
  BY <1>4, DecisionFacts DEF Complete, FinalState
<1> QED
  BY <1>1, <1>2, <1>3, <1>4

\* A failed journal write, a cancelled handler and a restart.
LEMMA FailureStep ==
  ASSUME Inv, (\E p \in Slots : JournalFails(p) \/ Cancel(p)) \/ Crash
  PROVE  Inv'
<1> USE StageInAssumption
    DEF Inv, TypeOK, LockInv, RowInv, DecidedInv, Replies, Decisions, Answer, Unasked
<1>1. ASSUME NEW p \in Slots, JournalFails(p) PROVE Inv'
  BY <1>1 DEF JournalFails
<1>2. ASSUME NEW p \in Slots, Cancel(p) PROVE Inv'
  BY <1>2 DEF Cancel
<1>3. CASE Crash
  BY <1>3 DEF Crash
<1> QED
  BY <1>1, <1>2, <1>3

\* Every step keeps the invariant.
LEMMA NextInv == Inv /\ [Next]_vars => Inv'
<1> SUFFICES ASSUME Inv, [Next]_vars PROVE Inv'
  OBVIOUS
<1>1. CASE Next
  BY <1>1, SlurmStep, HandlerStep, FailureStep DEF Next, Handler
<1>2. CASE UNCHANGED vars
  BY <1>2 DEF Inv, TypeOK, LockInv, RowInv, DecidedInv, vars
<1> QED
  BY <1>1, <1>2

\* The invariant, from which the theorems follow.
LEMMA InvCorrect == Spec => []Inv
  BY InitInv, NextInv, PTL DEF Spec

\* Slurm lets a job out of stage-in, or cancels it, only on a decision that the
\* journal holds as final, whatever polls were given up, repeated or cut off.
THEOREM StagedCorrect == Spec => []StagedOnDecision
<1>1. Inv => StagedOnDecision
  BY DEF Inv, DecidedInv, StagedOnDecision
<1> QED
  BY <1>1, InvCorrect, PTL

\* A failed or delayed evaluation whose handler ran to its end never leaves the
\* operation in the state that refuses the next poll.
THEOREM RepeatableCorrect == Spec => []FailuresRepeatable
<1>1. Inv => FailuresRepeatable
  BY StageInAssumption DEF Inv, LockInv, RowInv, FailuresRepeatable
<1> QED
  BY <1>1, InvCorrect, PTL

\* A request that is served late neither repeats a final evaluation nor replaces
\* its outcome (begin_operation, complete_operation).
THEOREM FinalCorrect == Spec => DecisionIsFinal
<1>1. ASSUME Inv, [Next]_vars, op = "complete"
      PROVE  op' = "complete" /\ stored' = stored
  <2> USE DEF Inv, RowInv, Answer
  <2>1. ASSUME NEW p \in Slots, Evaluate(p) PROVE FALSE
    BY <1>1, <2>1 DEF Evaluate
  <2>2. ASSUME NEW p \in Slots, Complete(p) PROVE FALSE
    BY <1>1, <2>2 DEF Complete
  <2>3. ASSUME NEW p \in Slots, Begin(p) PROVE UNCHANGED <<op, stored>>
    BY <1>1, <2>3 DEF Begin, OperationStarts
  <2>4. ASSUME NEW p \in Slots,
               Poll(p) \/ Verify(p) \/ JournalFails(p) \/ Cancel(p)
        PROVE  UNCHANGED <<op, stored>>
    BY <2>4 DEF Poll, Verify, JournalFails, Cancel
  <2>5. CASE PollEnds \/ GiveUp \/ Settle \/ Crash \/ UNCHANGED vars
    BY <1>1, <2>5 DEF PollEnds, GiveUp, Settle, Crash, vars
  <2> QED
    BY <1>1, <2>1, <2>2, <2>3, <2>4, <2>5 DEF Next, Polling, Handler
<1>2. Inv /\ [Next]_vars
        => [op = "complete" => op' = "complete" /\ stored' = stored]_vars
  BY <1>1
<1> QED
  BY <1>2, InvCorrect, PTL DEF Spec, DecisionIsFinal
==============================================================================
