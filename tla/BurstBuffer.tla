----------------------------- MODULE BurstBuffer -----------------------------
(***************************************************************************)
(* The life of a Slurm job in the burst-buffer provider: stage-in, the     *)
(* pre-run loop of burst_buffer.lua, the helper qfw_slurm_bb.py with its   *)
(* state files, and teardown.                                              *)
(*                                                                         *)
(* The job is plain (one element in Jobs) or heterogeneous: one Slurm job  *)
(* for each component, whose canonical job is Leader.  Slurm runs the      *)
(* hooks of the components at the same time and ends them together.        *)
(*                                                                         *)
(* The gateway is what the helper sees of it (GatewayService has its       *)
(* inside): it serializes the requests of the canonical job, repeats its   *)
(* answers, extends an accepted set by the services of another component,  *)
(* refuses to reserve beside a reservation that a failed attempt left, and *)
(* answers the constant request id of the teardown with what the first     *)
(* release came to.  Components that name the same service describe the    *)
(* same workload.                                                          *)
(***************************************************************************)
EXTENDS Naturals

CONSTANTS
  Jobs, Leader,          \* the Slurm jobs of the allocation, the canonical one
  Asks,                  \* the QPM services in the directive of each job
  MaxAttempts,           \* max_reservation_attempts
  Retries,               \* reservation_retries
  RetryDelay,            \* reservation_retry_delay
  RetryBudget,           \* reservation_retry_budget
  WaitInterval,          \* reservation_wait_interval
  WaitBudget,            \* reservation_wait_budget
  ClusterConfigured,     \* settings.cluster is set
  CallTimes,             \* the seconds that a helper call may take
  MaxRestarts,           \* bound on the times Slurm requeues the job
  Horizon,               \* bound: the clock and the count of a pre-run stop here
  Events                 \* what may happen besides the normal course

AllEvents ==
  {"fail",         \* a call ends in an error and leaves nothing reserved
   "incomplete",   \* a reserve fails, or is cut off, and leaves a reservation
   "lost",         \* the gateway acts, the helper or the driver does not see it
   "unwritable",   \* the state directory cannot be written
   "unresolved",   \* a release leaves a reservation at its QPM
   "cancel",       \* the user cancels the job while its pre-run goes on
   "requeue"}      \* Slurm requeues the job

ASSUME BurstBufferAssumption ==
  /\ Leader \in Jobs
  /\ \A j \in Jobs : Asks[j] # {}
  /\ MaxAttempts \in Nat \ {0}
  /\ {Retries, RetryDelay, RetryBudget, WaitInterval, WaitBudget} \subseteq Nat
  /\ CallTimes \subseteq Nat /\ CallTimes # {}
  /\ ClusterConfigured \in BOOLEAN
  /\ MaxRestarts \in Nat
  /\ Horizon \in Nat /\ Horizon > RetryBudget /\ Horizon > 1 + Retries + WaitBudget
  /\ Events \subseteq AllEvents

VARIABLES
  gateway,    \* what the gateway has for the canonical job
  file,       \* the state file of each job
  phase,      \* where Slurm has each job
  hook,       \* where its pre-run or teardown hook is
  seen,       \* the record the helper has read
  result,     \* what the driver returned
  tries, retried, delay, elapsed,   \* the locals of the Lua loop
  restarts,   \* how often Slurm has requeued the job
  ran         \* history: the application has run since it was last queued

loop == <<tries, retried, delay, elapsed>>
life == <<restarts, ran>>
vars == <<gateway, file, phase, hook, seen, result, loop, life>>

FileStates ==
  {"missing", "evaluation-accepted", "evaluation-delayed", "evaluation-rejected",
   "evaluation-error", "reservation-accepted", "reservation-delayed",
   "reservation-rejected", "reservation-error", "reservation-exhausted",
   "released", "release-unresolved"}
Record == [state : FileStates, attempts : Nat, job : Jobs]
NoFile == [state |-> "missing", attempts |-> 0, job |-> Leader]

\* What the gateway has: the state of the allocation ("free": a delayed or failed
\* reserve left a row and no reservation; "incomplete": a reserve that did not end,
\* or whose rollback failed), its services or those of the request it rejected,
\* the components whose reserve operation ended in a rejection, and the release
\* operation: never begun, begun and never completed ("started"), or its answer.
GatewayStates ==
  {"none", "free", "held", "incomplete", "rejected", "released", "unresolved"}
ReleaseOps == {"none", "started", "released", "unresolved"}

Results == {"none", "accepted", "delayed", "rejected", "error", "timeout",
            "exhausted", "released", "unresolved"}

\* hook: the helper has read its file ("read"), the driver has returned
\* ("called"), the Lua loop pauses ("pause").
TypeOK ==
  /\ gateway \in [state : GatewayStates, services : SUBSET UNION {Asks[j] : j \in Jobs},
                 refused : SUBSET Jobs, release : ReleaseOps]
  /\ file \in [Jobs -> Record]
  /\ phase \in [Jobs -> {"staging", "prerun", "ready", "ending", "gone"}]
  /\ hook \in [Jobs -> {"none", "read", "called", "pause"}]
  /\ seen \in [Jobs -> Record]
  /\ result \in [Jobs -> Results]
  /\ tries \in [Jobs -> Nat]
  /\ retried \in [Jobs -> 0..Retries]
  /\ delay \in [Jobs -> Nat]
  /\ elapsed \in [Jobs -> 0..Horizon]
  /\ restarts \in 0..MaxRestarts
  /\ ran \in BOOLEAN

FirstTry == [j \in Jobs |-> 0]

Init ==
  /\ gateway = [state |-> "none", services |-> {}, refused |-> {}, release |-> "none"]
  /\ file = [j \in Jobs |-> NoFile]
  /\ phase = [j \in Jobs |-> "staging"]
  /\ hook = [j \in Jobs |-> "none"]
  /\ seen = [j \in Jobs |-> NoFile]
  /\ result = [j \in Jobs |-> "none"]
  /\ tries = FirstTry
  /\ retried = FirstTry
  /\ delay = [j \in Jobs |-> RetryDelay]
  /\ elapsed = FirstTry
  /\ restarts = 0
  /\ ran = FALSE

\* Seconds pass in the pre-run of job j.
Later(j, seconds) ==
  IF elapsed[j] + seconds < Horizon THEN elapsed[j] + seconds ELSE Horizon

\* write_state replaces the file.
Writes(paths, record) ==
  file' = [j \in Jobs |-> IF j \in paths THEN record ELSE file[j]]

\* write_state raises, before or after it has replaced a file of paths, which are
\* written beginning with first.
WriteFails(paths, first, record) ==
  /\ "unwritable" \in Events
  /\ \E done \in SUBSET paths :
       /\ done # {} => first \in done
       /\ Writes(done, record)

\* Slurm ends the job: the pre-run hooks still running are killed, and every
\* component goes to teardown.
EndJob ==
  /\ phase' = [j \in Jobs |-> "ending"]
  /\ hook' = [j \in Jobs |-> "none"]
  /\ result' = [j \in Jobs |-> "none"]
  /\ seen' = [j \in Jobs |-> NoFile]

-----------------------------------------------------------------------------
(* What the gateway answers, and the driver.                               *)

Gateway(state, services) == [gateway EXCEPT !.state = state, !.services = services]

Refuses(j, g) == <<"rejected", [g EXCEPT !.refused = @ \cup {j}]>>

\* The driver takes an accepted answer that names the services of its request and
\* no other: admission_response_process.
AcceptedAs(j, services) == IF services = Asks[j] THEN "accepted" ELSE "error"

\* The gateway reserves a set from the start: a failure is rolled back, or leaves
\* the allocation incomplete.
NewSet(j) ==
  {<<"accepted", Gateway("held", Asks[j])>>, <<"delayed", Gateway("free", {})>>,
   Refuses(j, Gateway("rejected", Asks[j]))}
  \cup (IF "fail" \in Events THEN {<<"error", Gateway("free", {})>>} ELSE {})
  \cup (IF "incomplete" \in Events
        THEN {<<"error", Gateway("incomplete", Asks[j])>>} ELSE {})

\* A component that names other services extends the set, and is answered with the
\* whole of it.  When the extension fails the set is restored, unless the request
\* was cut off: the allocation then stays "extending".
Extended(j) ==
  LET all == gateway.services \cup Asks[j]
  IN  {<<AcceptedAs(j, all), Gateway("held", all)>>}
      \cup (IF Asks[j] \subseteq gateway.services THEN {}
            ELSE {<<"delayed", gateway>>, Refuses(j, gateway)}
                 \cup (IF "incomplete" \in Events
                       THEN {<<"error", gateway>>,
                             <<"error", Gateway("incomplete", gateway.services)>>} ELSE {}))

\* A reserve request of job j: <<answer, what the gateway then has>>.  Once a
\* release was answered as unresolved, a request is reserved again if its content
\* is not that of the last one, and refused if it is.
Reserves(j) ==
  CASE j \in gateway.refused -> {<<"rejected", gateway>>}
    [] j \notin gateway.refused /\ gateway.state = "held" -> Extended(j)
    [] j \notin gateway.refused /\ gateway.state = "rejected" ->
         IF gateway.services = Asks[j] THEN {Refuses(j, gateway)} ELSE NewSet(j)
    [] j \notin gateway.refused /\ gateway.state \in {"incomplete", "released"} ->
         {<<"error", gateway>>}
    [] j \notin gateway.refused /\ gateway.state = "unresolved" ->
         {<<"error", gateway>>}
         \cup (IF \E k \in Jobs : Asks[k] # Asks[j] THEN NewSet(j) ELSE {})
    [] OTHER -> NewSet(j)

\* A release request for the canonical job: the first one that is carried out is
\* answered for ever, and one that finds no allocation, or that Slurm cannot
\* verify, leaves its operation begun: it is refused ever after.
Releases ==
  LET Answered(state) ==
        <<state, [gateway EXCEPT !.state = state, !.services = {}, !.release = state]>>
      refused == <<"error", [gateway EXCEPT !.release = "started"]>>
  IN  CASE gateway.release \in {"released", "unresolved"} -> {<<gateway.release, gateway>>}
        [] gateway.release = "started" -> {refused}
        [] gateway.release = "none" /\ gateway.state = "none" -> {refused}
        [] OTHER -> {Answered("released")}
             \cup (IF "unresolved" \in Events /\ gateway.state \in {"held", "incomplete"}
                   THEN {Answered("unresolved")} ELSE {})
             \cup (IF "fail" \in Events THEN {refused} ELSE {})

\* What the driver reports of an answer: the answer, or a failure of its own or
\* of the helper's timeout with the same effect at the gateway, or a failure
\* that did not reach it.
Driver(answers) ==
  answers
  \cup (IF "lost" \in Events
        THEN {<<r, a[2]>> : a \in answers, r \in {"error", "timeout"}} ELSE {})
  \cup (IF "fail" \in Events
        THEN {<<r, gateway>> : r \in {"error", "timeout"}} ELSE {})

-----------------------------------------------------------------------------
(* Stage-in.                                                               *)

\* One poll: slurm_bb_test_data_in runs the helper's evaluation, which writes
\* the canonical file and keeps the number of attempts in it.  A rejection
\* cancels the job; a failed write is status 30, and the poll is repeated, as it
\* is after a driver that fails without a result.
StageIn(j) ==
  \E answer \in {"accepted", "delayed", "rejected", "error"} :
    LET record == [state |-> CASE answer = "accepted" -> "evaluation-accepted"
                               [] answer = "delayed" -> "evaluation-delayed"
                               [] answer = "rejected" -> "evaluation-rejected"
                               [] OTHER -> "evaluation-error",
                   attempts |-> file[Leader].attempts, job |-> Leader]
    IN  /\ phase[j] = "staging"
        /\ \/ /\ Writes({Leader}, record)
              /\ CASE answer = "accepted" ->
                        /\ phase' = [phase EXCEPT ![j] = "prerun"]
                        /\ UNCHANGED <<hook, seen, result>>
                   [] answer = "rejected" -> EndJob
                   [] OTHER -> UNCHANGED <<phase, hook, seen, result>>
           \/ /\ WriteFails({Leader}, Leader, record)
              /\ UNCHANGED <<phase, hook, seen, result>>
        /\ UNCHANGED <<gateway, loop, life>>

-----------------------------------------------------------------------------
(* Pre-run.                                                                *)

\* The Lua loop runs the helper, the first time once every component is staged;
\* reservation reads the number of attempts.
Attempt(j) ==
  /\ phase[j] = "prerun"
  /\ hook[j] = "pause" \/ (hook[j] = "none" /\ \A k \in Jobs : phase[k] # "staging")
  /\ hook' = [hook EXCEPT ![j] = "read"]
  /\ seen' = [seen EXCEPT ![j] = file[Leader]]
  /\ tries' = [tries EXCEPT ![j] = IF @ < Horizon THEN @ + 1 ELSE @]
  /\ UNCHANGED <<gateway, file, phase, result, retried, delay, elapsed, life>>

Exhausted(j) == seen[j].attempts >= MaxAttempts

\* The driver runs, unless the attempts are exhausted.
Reserve(j) ==
  \E seconds \in CallTimes :
    /\ phase[j] = "prerun"
    /\ hook[j] = "read"
    /\ IF Exhausted(j)
       THEN result' = [result EXCEPT ![j] = "exhausted"] /\ UNCHANGED gateway
       ELSE \E a \in Driver(Reserves(j)) :
              /\ result' = [result EXCEPT ![j] = a[1]]
              /\ gateway' = a[2]
    /\ hook' = [hook EXCEPT ![j] = "called"]
    /\ elapsed' = [elapsed EXCEPT ![j] = Later(j, seconds)]
    /\ UNCHANGED <<file, phase, seen, tries, retried, delay, life>>

\* The record that reservation writes, and where: an accepted one also under the
\* component's own id.  A timeout of the driver writes nothing.
ReservedRecord(j) ==
  [state |-> CASE result[j] = "accepted" -> "reservation-accepted"
               [] result[j] = "delayed" -> "reservation-delayed"
               [] result[j] = "rejected" -> "reservation-rejected"
               [] result[j] = "exhausted" -> "reservation-exhausted"
               [] OTHER -> "reservation-error",
   attempts |-> IF result[j] = "exhausted" THEN seen[j].attempts
                                           ELSE seen[j].attempts + 1,
   job |-> Leader]
ReservedPaths(j) ==
  CASE result[j] = "timeout" -> {}
    [] result[j] = "accepted" -> {Leader, j}
    [] OTHER -> {Leader}

\* Mutant of ExitStatus: a failed reserve is taken for a success.
ExitStatusZero(answer) == IF answer \in {"rejected", "exhausted"} THEN 20 ELSE 0

\* The exit status of the helper.
ExitStatus(answer) ==
  CASE answer = "accepted" -> 0
    [] answer = "delayed" -> 10
    [] answer \in {"rejected", "exhausted"} -> 20
    [] OTHER -> 30

\* Mutant of MayWait: the pause itself is not counted.
MayWaitLonger(j) == WaitInterval > 0 /\ elapsed[j] <= WaitBudget

\* The Lua loop goes on after a delay, and after a failure.
MayWait(j) == WaitInterval > 0 /\ elapsed[j] + WaitInterval <= WaitBudget
MayRetry(j) == retried[j] < Retries /\ elapsed[j] + delay[j] <= RetryBudget

\* Mutant of CountRetry: the retries are not counted.
CountNoRetry(j) == UNCHANGED <<retried, delay>>

\* The next pause after a failure is twice as long.
CountRetry(j) ==
  /\ retried' = [retried EXCEPT ![j] = @ + 1]
  /\ delay' = [delay EXCEPT ![j] = 2 * @]

\* The loop pauses before it runs the helper again.
Pause(j, seconds) ==
  /\ hook' = [hook EXCEPT ![j] = "pause"]
  /\ elapsed' = [elapsed EXCEPT ![j] = Later(j, seconds)]
  /\ result' = [result EXCEPT ![j] = "none"]
  /\ UNCHANGED <<phase, seen, tries>>

\* What the loop does with an exit status: it ends with success, pauses, or gives
\* the job up: fail_job cancels it before it returns an error to Slurm.
AfterStatus(j, status) ==
  \/ /\ status = 0
     /\ phase' = [phase EXCEPT ![j] = "ready"]
     /\ hook' = [hook EXCEPT ![j] = "none"]
     /\ result' = [result EXCEPT ![j] = "none"]
     /\ UNCHANGED <<seen, loop>>
  \/ /\ status = 10
     /\ MayWait(j)
     /\ Pause(j, WaitInterval)
     /\ UNCHANGED <<retried, delay>>
  \/ /\ status = 30
     /\ MayRetry(j)
     /\ Pause(j, delay[j])
     /\ CountRetry(j)
  \/ /\ \/ status = 20
        \/ status = 10 /\ ~ MayWait(j)
        \/ status = 30 /\ ~ MayRetry(j)
     /\ EndJob
     /\ UNCHANGED loop

\* The helper writes its record and exits; a write that raises is status 30.
Recorded(j) ==
  /\ phase[j] = "prerun"
  /\ hook[j] = "called"
  /\ \/ /\ Writes(ReservedPaths(j), ReservedRecord(j))
        /\ AfterStatus(j, ExitStatus(result[j]))
     \/ /\ WriteFails(ReservedPaths(j), Leader, ReservedRecord(j))
        /\ AfterStatus(j, 30)
  /\ UNCHANGED <<gateway, life>>

-----------------------------------------------------------------------------
(* The job ends.                                                           *)

\* The application, which runs once every pre-run has succeeded, finishes.
JobFinishes ==
  /\ \A j \in Jobs : phase[j] = "ready"
  /\ EndJob
  /\ ran' = TRUE
  /\ UNCHANGED <<gateway, file, loop, restarts>>

\* The user cancels the job; Slurm kills its hooks.
UserCancels ==
  /\ "cancel" \in Events
  /\ \E j \in Jobs : phase[j] = "prerun"
  /\ EndJob
  /\ UNCHANGED <<gateway, file, loop, life>>

\* Mutant of Releasable: only what teardown itself has tried before.
ReleasableAgain(record) == record.state \in {"missing", "release-unresolved"}

\* File states on which release sends a request; a missing file is
\* "release-recovery".
Releasable(record) ==
  record.state \in {"missing", "reservation-accepted", "release-unresolved"}

\* locate_state: the file of the job itself, which the teardown hook does not
\* know to be a component; without a configured cluster, the canonical file that
\* the job's own file names.
TeardownPath(j) == IF ClusterConfigured THEN j ELSE file[j].job

\* slurm_bb_job_teardown: the helper reads the file, and has nothing to do unless
\* its state is to be released.  Without a file the record names the job of the
\* path, and without a configured cluster the helper then fails.
Teardown(j) ==
  LET path == TeardownPath(j)
      record == file[path]
      lost == file[j].state = "missing" /\ ~ ClusterConfigured
  IN  /\ phase[j] = "ending"
      /\ hook[j] = "none"
      /\ \/ /\ Releasable(record)
            /\ ~ lost
            /\ hook' = [hook EXCEPT ![j] = "read"]
            /\ seen' = [seen EXCEPT ![j] =
                 IF record.state = "missing" THEN [record EXCEPT !.job = path] ELSE record]
            /\ UNCHANGED phase
         \/ /\ ~ Releasable(record) \/ lost
            /\ phase' = [phase EXCEPT ![j] = "gone"]
            /\ UNCHANGED <<hook, seen>>
      /\ UNCHANGED <<gateway, file, result, loop, life>>

\* The driver sends the release for the job that the record names: the gateway has
\* no allocation of a component's own job.
TeardownRelease(j) ==
  /\ phase[j] = "ending"
  /\ hook[j] = "read"
  /\ IF seen[j].job = Leader
     THEN \E a \in Driver(Releases) :
            /\ result' = [result EXCEPT ![j] = a[1]]
            /\ gateway' = a[2]
     ELSE result' = [result EXCEPT ![j] = "error"] /\ UNCHANGED gateway
  /\ hook' = [hook EXCEPT ![j] = "called"]
  /\ UNCHANGED <<file, phase, seen, loop, life>>

\* Mutant of ReleaseState: a driver that fails is taken to have nothing to release.
ReleaseStateFailed(outcome) == IF outcome = "unresolved" THEN "release-unresolved" ELSE "released"

ReleaseState(outcome) == IF outcome = "released" THEN "released" ELSE "release-unresolved"

\* The helper writes the outcome to the file it has read and to the canonical
\* file; the hook returns success in any case.
TeardownRecorded(j) ==
  LET path == IF ClusterConfigured THEN j ELSE seen[j].job
      record == [seen[j] EXCEPT !.state = ReleaseState(result[j])]
  IN  /\ phase[j] = "ending"
      /\ hook[j] = "called"
      /\ \/ Writes({path, seen[j].job}, record)
         \/ WriteFails({path, seen[j].job}, path, record)
      /\ phase' = [phase EXCEPT ![j] = "gone"]
      /\ hook' = [hook EXCEPT ![j] = "none"]
      /\ seen' = [seen EXCEPT ![j] = NoFile]
      /\ result' = [result EXCEPT ![j] = "none"]
      /\ UNCHANGED <<gateway, loop, life>>

\* Slurm requeues the job after its teardown: its reserve requests have a new id.
Requeue ==
  /\ "requeue" \in Events
  /\ restarts < MaxRestarts
  /\ \A j \in Jobs : phase[j] = "gone"
  /\ restarts' = restarts + 1
  /\ ran' = FALSE
  /\ phase' = [j \in Jobs |-> "staging"]
  /\ tries' = FirstTry
  /\ retried' = FirstTry
  /\ delay' = [j \in Jobs |-> RetryDelay]
  /\ elapsed' = FirstTry
  /\ gateway' = [gateway EXCEPT !.refused = {}]
  /\ UNCHANGED <<file, hook, seen, result>>

-----------------------------------------------------------------------------
PreRun(j) == Attempt(j) \/ Reserve(j) \/ Recorded(j)

TearDown(j) == Teardown(j) \/ TeardownRelease(j) \/ TeardownRecorded(j)

Next ==
  \/ \E j \in Jobs : StageIn(j) \/ PreRun(j) \/ TearDown(j)
  \/ JobFinishes \/ UserCancels \/ Requeue

\* A hook that Slurm has started runs on.
Fairness == \A j \in Jobs : WF_vars(PreRun(j)) /\ WF_vars(TearDown(j))

Spec == Init /\ [][Next]_vars /\ Fairness

-----------------------------------------------------------------------------
(* Properties.                                                             *)

\* An application starts only with its reservations held: every pre-run that
\* reported success, also after lost answers and retries, left the gateway with
\* the accepted set, and nothing has released it since.
RunsReserved == (\A j \in Jobs : phase[j] = "ready") =>
    gateway.state = "held" /\ \A j \in Jobs : Asks[j] \subseteq gateway.services

\* A component whose services are reserved by its call is told so: the helper and
\* the gateway do not differ on what was accepted.
AcceptedIsReported ==
  \A j \in Jobs :
    phase[j] = "prerun" /\ hook[j] = "called" /\ ~ Exhausted(j)
      /\ gateway.state = "held" /\ Asks[j] \subseteq gateway.services
    => result[j] = "accepted"

\* A job whose application ran is released by its teardown: whatever was lost,
\* failed or was written by another component on the way, each component's state
\* file led its teardown to the release of the canonical job, and what the gateway
\* has not released at the end is reported as unresolved by the file that each
\* teardown reads (one that could not be written still says that the set was
\* accepted).
RanIsReleased ==
  ran /\ (\A j \in Jobs : phase[j] = "gone") /\ gateway.state # "released"
    => \A j \in Jobs :
         file[TeardownPath(j)].state \in {"release-unresolved"}
           \cup (IF "unwritable" \in Events THEN {"reservation-accepted"} ELSE {})

\* Pre-run keeps the nodes for a bounded time: it starts an attempt after the
\* first only within the larger budget, counted from the first attempt, and never
\* makes more than its retries and the waits that fit in the budget.
PreRunBounded ==
  \A j \in Jobs :
    /\ hook[j] = "pause" => elapsed[j] <= RetryBudget \/ elapsed[j] <= WaitBudget
    /\ tries[j] <= 1 + Retries +
         (IF WaitInterval > 0 THEN WaitBudget \div WaitInterval ELSE 0)

\* Every pre-run ends: with the application started or the job cancelled.
PreRunEnds ==
  \A j \in Jobs : (phase[j] = "prerun" /\ hook[j] # "none") ~> (phase[j] # "prerun")

\* "unresolved release details remain in protected state": a state file that
\* reports an unresolved release says so until the release is resolved.
UnresolvedKept ==
  [][\A j \in Jobs :
       file[j].state = "release-unresolved" /\ gateway'.state \in {"held", "incomplete", "unresolved"}
         => file'[j].state = "release-unresolved"]_vars
==============================================================================
