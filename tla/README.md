# A TLA+ model of qfw-slurm

qfw-slurm reserves quantum services (QPMs) for Slurm jobs. A job that names
QPUs is evaluated while it is pending (stage-in), reserved once its nodes are
assigned (pre-run), and released when it ends (teardown). The hard part is not
any of the three calls. It is that a reservation lives at a QPM, is known by a
row of the gateway's journal and by a state file of the controller, and that the
three must agree while calls fail, replies are lost, handlers are cancelled,
processes die and requests are repeated.

This directory holds the specifications of that part, the TLC configurations
that check them on small instances, and the proofs of the results that hold
for every instance.

## 1. Inventory

| Component | State | Operations | What makes it correct |
| --- | --- | --- | --- |
| Gateway journal (`journal.py`) | SQLite tables `operations`, `allocations`, `reservations` | one or a few statements per method, each committed by itself | a row that names a held reservation is not overwritten or closed |
| Gateway service (`service.py`) | one lock per (cluster, job); locals of the running handler | evaluate, reserve (with rollback and extension), release, retry-release, lookup | at most one reservation per QPM and job; a released allocation holds nothing; repeats agree |
| Gateway server (`server.py`, `__main__.py`, `authentication.py`) | connections, tasks | read, authenticate, dispatch with a timeout, answer; stop | what a caller concludes from an answer, or from none, is true; a stop ends |
| QFw adapter (`defw_client.py`) and the QPMs | bindings to a QPM incarnation; the reservations held | resolve, evaluate, reserve, release | a malformed acceptance is given back |
| Slurm verifier (`slurm_verifier.py`) | none; reads Slurm's job table | verify a reserve, a release, a lookup; find the canonical id | a user gets, and gives back, only his own reservations, also when ids are reused |
| QSGP codec (`protocol.py`, `src/protocol/qsgp_*.c`) | none | encode, decode, store and restore a response | the two implementations agree on every frame |
| Burst-buffer provider (`burst_buffer.lua`) | locals of the pre-run loop | test_data_in, pre_run, teardown | nodes are held for a bounded time; a failed job is cancelled, never requeued |
| Burst-buffer helper (`qfw_slurm_bb.py`) | one state file per job | evaluate, reserve, release | teardown releases what a job ran on |
| Native client (`operations.c`, `reservation_transaction.c`, `qsgp_client.c`, `qsgp_io.c`) | one exchange | build a request, send, check the answer | client and gateway agree on what was accepted |
| Driver (`qfw_slurm_driver.c`) | none | command line around the native client | |
| Options, environment, SPANK plugin, job-submit | option values of one command | callbacks, validation, translation | a step gets the reservations of its job |
| Inspection commands (`qfw_slurm_inspect`) | what was read so far | qfw-squeue, qfw-sinfo: read Slurm, the directory and each QPM, join | what is printed was so, and what is missing is said |
| Configuration, launcher | none | start-up | |

How they interact: Slurm runs the hooks of `burst_buffer.lua`, each of which
runs the helper; the helper runs the driver; the driver sends one QSGP request,
under an id that is a hash of the job, its epoch and the operation, and waits
for the answer. The gateway takes one request of a job at a time and calls the
QPMs in threads. `retry-release` is a command of the operator: another process
on the same journal. A step's SPANK plugin asks the gateway for the reservations
that the job holds.

Hard behaviours, each an entry of `hazards` in PROJECT.json with its line: one
QPM of several that fails, and the rollback that fails too; crashes and
cancellations between a QPM call and its row; repeats under the same or a new
request id; the operator's process; QPM restarts; polls given up and served
later; the components of a heterogeneous job on one state file; the window
between the gateway's acceptance and the helper's write; budgets and attempt
limits of pre-run; jobs that end, and ids that are reused, between two queries
of one verification; a response that cannot be encoded after its request has
been committed; a stop beside running tasks; a listing put together from reads
of different moments.

## 2. Plan

Done, in this order: `GatewayJournal` and `GatewayService`, the core;
`StageIn` and `BurstBuffer`, the hooks that drive it; the proofs about
`GatewayService`; then what surrounds it: `Codec` and `Wire`, `Identity`,
`Exchange`, `Inspection`; and `JobReservations`, the abstract specification that
`GatewayService` implements (`GatewayRefinement`).

How the modules compose: `GatewayService` extends `GatewayJournal`;
`GatewayRefinement` extends `GatewayService` and instantiates `JobReservations`;
`Wire` extends `Codec`. The other modules meet at an interface that each states:
`BurstBuffer` takes the gateway as the summary of `GatewayService`, `Exchange`
takes a handler as one effect and its threads, `Identity` takes the transactions as the steps
that other requests see, `Wire` takes frames where `Exchange` takes how far the
server gets with them.

Proved since: the refinement of `JobReservations` for a plain job, the properties of
heterogeneous jobs before their release, and the safety properties of `StageIn`,
`BurstBuffer`, `Identity`, `Exchange`, `Inspection` and `Wire` (section 5). Every
invariant and every safety property of a passing run is now a theorem; the liveness
properties stay with TLC.

## 3. Modules

### GatewayJournal

The tables of one (cluster, canonical job) pair as values, and the methods of
`Journal` as operators on them: the gateway keys its rows and its lock by that
pair, so jobs do not interact. A request is a record with the fields that the
journal compares: sender, operation, request id and scope (`OperationKey`), and
the content behind the two fingerprints. A response is its kind and the
reservation id it names for each service. `begin_allocation` is four predicates
(`AllocationRefused`, `AllocationReplays`, `AllocationExtends`,
`AllocationReserves`), exactly one of which holds, and the writes of the last
two. Diagnostics and timestamps are left out.

### GatewayService

Two processes: `serve`, the daemon, in which the allocation lock lets one
handler of the job run; and `admin`, `retry-release`. `pc` says where a handler
is; each step is one QPM call or one statement of the journal, because a handler
gives way at each `await` and a crash may fall between statements: the connection is
opened with `isolation_level=None` (journal.py:69), so that each statement commits by
itself and the transactions that the code seems to open do not exist. Where two
statements follow each other and no other process writes what the second one reads,
they are one step. `begin_allocation` is two: `BeginReserve` reads the row into `read`,
and `BeginAllocation` decides on what was read and writes onto what is there then; the
operator's process may complete the allocation in between. `ReleaseCall` has both awaits
of `_release_one`, and their outcomes where the QPM restarts between them. `Labels` lists
the correspondence. The QPMs are `held` (the ids that each holds), `runtime` (its
incarnation) and `nextId`. A call whose handler was cancelled or died is kept in
`stray`, and may execute at any later time: `asyncio.to_thread` does not stop the
thread.

| Action | Code |
| --- | --- |
| BeginReserve, BeginAllocation | `_reserve` up to the plan |
| Resolve, ReserveCall, RecordResult | one turn of `_reserve_services` |
| Accept, Settle, Finish | the rest of `_reserve`, `_journal_failed_attempt` |
| BeginRollback, UndoCall, RecordUndo | `_rollback` |
| BeginRelease, VerifyRelease, SkipTerminal, ReleaseCall, RecordRelease, CompleteRelease | `_release`, `_release_one` |
| RetryRelease | `retry_release` |
| JournalFails, Cancel, Crash, StrayRuns, QpmRestart | faults |

`Events` selects the faults of a run. `down`: a QPM cannot be reached and
nothing happens there. `lost`: the call takes effect and raises. `refuse`: a
release is answered with a refusing status. A request that begins no operation
(a replay, a conflict) changes nothing and is not a step; what a replay answers
is `ReplayedReserve`.

### StageIn

The polls of one job under one request id. `slot` is a request at the gateway,
`live` the one the present poll waits for; a poll that the helper gave up is
still served. `steady` becomes true once and ends all faults: liveness is
promised only if outages end. `broken` remembers that a handler ended between
the first and the last of its journal writes.

### BurstBuffer

One Slurm job, or the components of a heterogeneous one, through stage-in,
pre-run and teardown. `file` is the state file of each job, `seen` what the
helper read before its driver call and uses after it, `hook` the place between.
Time is `elapsed` of each pre-run, advanced by calls and pauses, and stops at
`Horizon`. The gateway is reduced to what the helper can tell of it: `gateway` is
the summary of GatewayService for one job. `Reserves` is what a reserve request comes
to, by the state of the allocation: a new set (`NewSet`), which may fail and be rolled
back, or fail and leave a reservation (`incomplete`: a rollback that does not complete,
a handler that was cut off); an extension of an accepted one (`Extended`); or a refusal.
`Releases` has the release operation, whose id is constant: what it first came to is
answered for ever, and one that was begun and not completed is refused ever after.
`AcceptedAs` is the native client's comparison of an accepted answer with its request.
Teardown is three steps: the helper reads its file (`Teardown`), the driver runs
(`TeardownRelease`), the outcome is written (`TeardownRecorded`). `ran` remembers that
the application has run.

`unwritable` lets `write_state` raise before or after it replaced the file.
`Requeue` starts the job again with the files it left.

### JobReservations and GatewayRefinement

What a job may rely on, without rows, rollbacks or processes: it asks,
reservations are kept for it one by one, it is granted all of them or none, the
grant names what is kept and stands until the job's end begins, and the job is
free again only when nothing is kept. `GatewayRefinement` maps the journal and
the QPMs to it: the state of the allocation is the phase (`Phase`), a row that
names a held reservation and is not terminal is a kept one (`Kept`), the
response of an accepted allocation is the grant (`Given`), and the end has begun
once a release operation is journaled. A QPM that restarts loses what it kept,
in both. `KeepsPromise` is the abstract specification as a property of
`GatewayService`. The mapping is meant for a plain job: with components, the set
that is granted grows.

### Codec and Wire

`Codec` has both implementations of the wire format side by side: what each
encoder writes and refuses, what each decoder reads and refuses. A frame is its
header and a sequence of TLVs; a TLV is a field, its size, its flags and its
value; a text is a name for its content, its length and whether it contains a
NUL or is not UTF-8. No bytes are put together: lengths, counts, widths, order,
repetition and presence are what the two could disagree on. Number widths are
scaled (`U32`, `U64`); the limits on lengths and counts are those of the code.

`Wire` moves messages through it. `Attributes`, `ItemAttributes`, `MayBeNone` and
`IsMessage` are the dataclasses of protocol.py: which attributes a message and its
items have, which of them may be None, and the type of each. The samples are
messages in this sense (`WireAssumption`). In stage `compose` a sample is changed field by
field; in `sent` its frame is changed as well, header and TLVs; in `ask` QPMs reply
anything and the gateway builds its answer as `_normalize_admission` and
`_reserve_services` do, which `ClientOutcome` reads as `admission_response_process`
does, up to the size of the variable into which it formats an accepted set (`JsonFits`;
the largest set of service names always fits, for names that JSON need not escape).

Where the two sides differ is part of the properties: C accepts text that is
not UTF-8 and job 0 as a leader (`OnlyC`; the driver refuses the latter), and the
client accepts error codes that the gateway does not know and two release
results for one service. `AnswerIsUnderstood` is stated within `Printable`:
`encode_response` refuses a diagnostic with a NUL, a runtime identity of more
than 256 bytes and a generation outside 64 bits, none of which the adapter
checks, and the server then drops the connection although the reservation is
committed. `Exchange` has that case (`Encode`).

### Identity

Slurm's job table (`table`), which changes at any step: jobs are submitted, run,
end, are purged, and their ids given to other jobs. `Procs` handlers run, one per
id that is named (`LockFree`): a lookup by the id of a component takes another
lock than the requests of its leader. A handler asks slurmctld in a step of its
own and uses the answer later. `LeaderFields` are the ways Slurm writes that a
job has no leader. The transactions are those of `GatewayService` for one service,
cut where another request can see them. `ops` are the operation rows of releases: one
that was begun and whose verification failed refuses every later release under its id
(`Repeated`). The request timeout (`Cancel`) frees the lock, and leaves a QPM call that
was under way in `stray`, from where it may reach the QPM at any later time.

Results of the model that the properties allow. The thread of a cancelled reserve
may reserve after the job's release was answered, and no row names what it reserves:
`TornDownStaysFree` excepts exactly that (`lost`). A job that gets the reused id of a
job of the same user finds that job's allocation, reservations that were not released
included. A job requeued after its teardown is refused, as its allocation is released.
And a release for an ended job is verified only in the listed states:
`_release_states` (slurm_verifier.py:63) has neither DEADLINE nor BOOT_FAIL, so that the
teardown of a job that ends so is refused, while docs/detailed-design-workflow.md:475
says "Allocation termination, cancellation, and failed pre-run all enter the
burst-buffer teardown path". No property is stated of it: the states in which jobs end
are Slurm's, and the property would only compare two lists.

### Exchange

Calls of native clients beside a gateway that may be stopped. `client` is where
`gateway_exchange` is, `task` the server's task for the connection, from its
creation by the event loop (`created`) to its end; each wait can time out at any
moment. `effect` says whether the handler has begun and has done what was asked;
a handler that is cancelled may have done it. `threads` are the QPM calls under way:
no timeout bounds them, and they outlive their handler. `server` is the serve command:
`Unbind`, `WaitClosed`, `WaitClients`, `GatherCancelled` are the steps of `close`,
`CancelRest` and `Exit` the end of `asyncio.run`, which cancels the tasks that are left
and joins the threads. `waits` is TRUE where `wait_closed` waits for the
connections (Python 3.12 and later) and FALSE where it does not. In the latter
case a task that was created and has not run yet is not in the set that `close`
waits for, and runs beside a closed journal until `CancelRest`. The last wait of a task,
for its writer to close (server.py:141), has no timeout either; it ends when the transport
has sent the answer or the client has gone, which the client's deadline sees to.

`StopEnds` therefore has two ends: the process exits, or all its tasks have ended, the
journal is closed, and it waits for a QPM call that has not returned. On the
client's side the resolution of the gateway's name (`getaddrinfo`, qsgp_io.c:94) has no
deadline; `CallEnds` takes it to return.

### Inspection

One run of qfw-squeue or qfw-sinfo: read Slurm, read the directory, ask one QPM
after the other, join. The world changes between the reads, up to `MaxEvents`
times. `always` and `ever` record what was so at each and at some moment of the
command: no more can be asked of a listing that takes no lock. The join is
`Matches` and `QuantumState` for qfw-squeue and `Merged` for qfw-sinfo.

`queue` has what Slurm gives as a job's state, a list of names, of which `_job` keeps
the first (`FirstText`); `CombinedState` is the priority of the five states that
`_combined_slurm_state` knows and the first in the alphabet beside them (`Alphabet`).
A QPM gives each allocation a state (`Standings`), which `QuantumState` prints when it is
not a live one. A QPM that is ready and in state DOWN, or in none, is `stateless` and
shown DOWN. `site` says whether the site configuration can be read. `SqueueComplete` is
stated for queues that name their cluster (`named`): without a name the join is by id, and
gives up where two clusters have the id.

Observed and allowed: a QPM that is registered and does not answer is shown with
host `-`, so `qfw-sinfo <node>` for its node says that the node is unknown;
qfw-sinfo exits 0 although a QPM did not answer, since its row says DOWN; a
reservation without a queued job has no row; `canonical_job_id` takes only an
absent leader and 0 for "no leader", where the verifier also knows Slurm's
no-value numbers.

## 4. Runs

| Run | Shows |
| --- | --- |
| `plain` | one plain job, two request ids and a release, with failing calls and writes, cancelled handlers, QPM restarts and crashes: the gateway implements `JobReservations`; never two reservations at a QPM; an incomplete rollback blocks; released means free; no row is lost while its reservation is held; `PlainInv` holds |
| `operator` | with the operator's process, and a QPM that may restart: an incomplete rollback or release is resolved in the end, or only rows of a QPM incarnation that is gone are left, which `retry_release` (service.py:758) counts as unresolved each time |
| `hetero` | three components with overlapping services, lost replies, refused releases: a lookup is backed, one reservation of a service for all, also in replays |
| `stagein` | polls end, and act on a journaled decision, which stands; a failed evaluation stays repeatable |
| `prerun` | attempts and time of pre-run are bounded, the application runs on held reservations, a job that ran is released or its file says that it is not |
| `components` | two components on one file, one with a QPM more: pre-run ends, the application runs on held reservations, a job that ran is released or reported, no teardown hides an unresolved release |
| `wire` | every message kind with up to two changes of its fields or of its frame, and every pair of QPM replies: the C and the Python side agree, a stored response is replayed as the same frame, the client takes an answer for what the replies amount to |
| `identity` | two users, two ids and three jobs: nobody is handed another user's reservation or gives it back, a job that was torn down gets none again but from a thread that outlived its handler, a job in use is served |
| `exchange` | two calls and a stop: a response means done, a local failure or INVALID_REQUEST means nothing was done, calls end, and so does a stop but for QPM calls that do not return |
| `inspection` | both commands while something changes: exit status 0 means complete, a row joins one allocation, no configured service is missing |

Two runs expect a violation: they show where the code does something else than
its documentation says, and each has an entry under `findings` with the quoted
line.

| Run | Shows |
| --- | --- |
| `extension` | an incomplete rollback of an extension is hidden by restoring the accepted set, and the next component writes over the failed row |
| `extended` | the native client refuses the gateway's answer to an extension |

The same modules show more differences of this kind, under other constants:

- `RolledBackIsFree` fails in MCGatewayOperator.cfg with `Events = {"refuse"}`:
  `_rollback` (service.py:579) does not look at the status in the reply, so a refused
  release is journaled as complete, while journal.py:287 says "Nothing is held".
- `NeverForget`, checked alone, fails in MCGatewayPlain.cfg with `Reserves <- SharedReserves`:
  `begin_allocation` (journal.py:313) reserves again from release-incomplete when
  the content differs, and the pending row erases the id of the unresolved
  reservation, while man/man8/qfw-slurm-gateway.8:106 says "Unresolved release
  results remain journaled for an operator retry".
- `StageInEnds` and `FailuresRepeatable` except an operation whose handler was cancelled
  (`broken`): the server's timeout (server.py:99) raises CancelledError, which
  "except Exception" does not see, the operation stays started, and every later
  poll is refused, while service.py:281-286 says "each poll must reach the QPMs
  again".
- That teardown leaves nothing held,
  `(\A j \in Jobs : phase[j] = "gone") => gateway.state # "held"`, is no invariant of
  MCBurstBuffer.cfg, even with one event only. `Events = {"unwritable"}`: when `write_state`
  fails after the reserve, the file says evaluation-accepted, for which release
  (qfw_slurm_bb.py:320) sends no request, while docs/recipes/test-spank-integration.md:118
  says "If controller retry state cannot be written after QPMd commits a reservation,
  teardown still sends allocation-wide release". `Events = {"cancel"}`: a job cancelled
  after the gateway's acceptance and before the helper's write. `Events = {"lost"}`: a last
  attempt whose answer is lost. No event, but two components of different QPMs
  (`Asks <- OwnQpu`): a component whose rejection or failure replaces the accepted record of
  the canonical file. An incomplete rollback (`incomplete`) leaves its reservation the same
  way: the file says reservation-error, and only the operator's retry-release reaches
  it. `RanIsReleased` is what remains: it is about jobs whose application ran.
- `UnresolvedKept` fails with `requeue`: the stage-in of a requeued job replaces the
  record of an unresolved release.
- Where Slurm lists COMPLETED and COMPLETING for a job, in this order, `_job`
  (slurm.py:110) keeps the first, and a job that completes and is reserved is shown ACTIVE,
  while man/man1/qfw-squeue.1:34 says "RELEASING identifies a completing job whose QPM
  reservation is still visible". `QuietMatchesManual` speaks of the state that is kept.

What the passing runs leave out is as much a result: `AtMostOneReservation` is
checked without `lost`, since a reserve whose reply is lost is repeated and the
QPM makes a second reservation; `NeverForget`, `ReleasedIsFree` and `KeepsPromise`
without `refuse` and `admin`, for the reasons above and because the operator's
process writes rows that it read earlier.

Each module of the system has a `TypeOK`, but for `Wire`, whose types are in `WireInv`
(section 5). That of GatewayService is checked and proved; the others state the types
of the variables and hold in the runs of their modules.

### Bounds

Two QPM services are enough for a partial failure with a rollback of one
reservation, three for an extension of two services that is rolled back in part.
`MaxReservations` bounds the ids handed out: with four, both services are
reserved twice, with two (`operator`) each once or one twice. `MaxRuntime` is a bound for each QPM: 2 lets it restart once. Two reserve requests
of the same content are a requeued job; one release is what a job has, since its
id is constant. In `operator` one of the two QPMs may restart, so that a row that cannot
be resolved lies beside one that can; the daemon's own release runs beside the operator's. StageIn has three slots: the live poll, one given up and one
queued behind it. In BurstBuffer the budgets are small numbers chosen so that each
of the limits (retries, retry budget, wait budget, attempts) is the first to be
reached in some behaviour; `Horizon` lies above all of them.

In `wire`, `U32` = 16 and `U64` = 20 leave values on both sides of either width;
two changes are enough for a field and its partner (the two heterogeneous
fields, a decision and a result) or for a message and its frame; text lengths,
item counts and the frame size are tried at the limit and one beyond. In
`identity`, three jobs on two ids are a job, its successor under the same id and a
component; two handlers are enough, since the lock lets one run per id, and a cancelled
one leaves its thread and its place. In
`exchange` one call is well-formed and the other any of the four kinds; two calls
let one be in its handler while the other is closing or not yet registered. In
`inspection` one change may fall between any two reads; two jobs are a
heterogeneous job or two ordinary ones, one of them in each of the states of the
priority, in COMPLETED and COMPLETING, or in none, and another cluster has a job of the
same id.

`CHECK_DEADLOCK FALSE` is set because a job that is over takes no more steps.

### Fairness

StageIn: Slurm polls on and the handler runs (weak fairness), and outages end
(`Settle`). BurstBuffer: a hook that Slurm started runs on; nothing is assumed of
the user, the application or requeueing. GatewayService has fairness only in
`OperatorSpec`: the operator repeats `retry-release`, his process runs, and a QPM
that is asked again and again is resolved and answers some release (for each service,
strong fairness of `ReleaseCall` with outcome `ok` or `stale`). The daemon gets none. Exchange: the deadlines of
the client and the timeouts of the server pass, the code between two waits runs,
and a stop that has begun goes on (weak fairness); nothing is assumed of signals,
of the network, of the other side, of a handler's return, or of the return of a QPM
call in a thread.

## 5. Proofs

Each theorem holds for every set of services, requests, jobs, users or calls, every
choice of faults and every bound that its module's ASSUME admits, and under the
hypothesis in the last column, if any. The properties are those that the runs
check.

| Theorem | Property | Assumes |
| --- | --- | --- |
| **GatewayServiceProofs** | | |
| `TypeOKCorrect` | `TypeOK` | |
| `RollbackSafe` | `RolledBackIsFree` | `"refuse" \notin Events` |
| `ReleasedSafe` | `ReleasedIsFree` | `PlainJob` |
| `JournalRemembers` | `NeverForget` | `PlainJob` |
| **GatewayJobProofs** | | |
| `PlainSafe` | `PlainInv` | `PlainJob` |
| `RollbackRefused` | `IncompleteRollbackRefused` | `PlainJob` |
| `OneReservation` | `AtMostOneReservation` | `PlainJob`, `"lost" \notin Events` |
| `PromiseKept` | `KeepsPromise` (refinement of `JobReservations`) | `PlainJob` |
| `LookupBacked` | `LookupIsBacked` | `"admin" \notin Events` |
| `AnswersCorrect` | `AnswersAgree`, until the release begins | `"admin" \notin Events` |
| `ReplayCorrect` | `ReplayIsCurrent` | `"admin" \notin Events` |
| **StageInProofs** | | |
| `StagedCorrect`, `RepeatableCorrect`, `FinalCorrect` | `StagedOnDecision`, `FailuresRepeatable`, `DecisionIsFinal` | |
| **BurstBufferProofs** | | |
| `ReservedCorrect`, `BoundedCorrect` | `RunsReserved`, `PreRunBounded` | |
| `UnresolvedCorrect` | `UnresolvedKept` | `MaxRestarts = 0` |
| `RanCorrect` | `RanIsReleased` | |
| **IdentityProofs** | | |
| `OwnCorrect`, `OwnerCorrect` | `OwnReservations`, `JournalNamesOwner` | |
| `TornDownCorrect`, `ServedCorrect` | `TornDownStaysFree`, `InUseIsServed` | |
| `OnlyOwnerCorrect` | `OnlyOwnerReleases` | |
| **ExchangeProofs** | | |
| `OutcomeCorrect` | `OutcomeIsTrue` | |
| **InspectionProofs** | | |
| `SqueueCorrect`, `RowCorrect`, `QuietCorrect`, `SinfoCorrect` | `SqueueComplete`, `RowIsOneAllocation`, `QuietMatchesManual`, `ServicesListed` | |
| **WireProofs** | | |
| `WireTyped` | the inductive invariant `WireInv` | |
| `RoundTripHolds`, `DecodersAgreeHolds`, `AcceptedIsWritableHolds` | `RoundTrip`, `DecodersAgree`, `AcceptedIsWritable` | |
| `ReplayIdenticalHolds`, `AnswerIsUnderstoodHolds` | `ReplayIdentical`, `AnswerIsUnderstood` | |

The hypotheses are the ones that section 4 shows to be needed. `PlainJob`: the
reserve requests of the job have one content (their ids differ freely), and neither
`refuse` nor `admin` occurs; all other faults may. `"lost"`: a reserve whose reply is
lost is repeated, and the QPM makes a second reservation. `"admin"`: the operator's
process writes rows that it read earlier. `MaxRestarts = 0`: the counterexample of
`UnresolvedKept`. `AnswersAgree` is proved until the release begins, and the condition is
needed: once a release has freed the rows and its last write fails, a late component is
served (journal.py:313) with new reservations, beside the answers stored before. The run
`hetero` has no release.

### The gateway

Types are inductive only together with `Control`, which says what each label
implies of the handler's request and answer. `ReadCurrent` says that, without the operator,
the row that `begin_allocation` read is the row that it writes to: from there on the two
steps are one for the proofs that exclude `admin`. `RolledBackIsFree` needs two
more facts: ids are handed out once (`FreshIds`), so that a new reservation never
revives an old row, and between the QPM's answer and the row the reservation
stays dropped (`UndoneIsFree`). The results on a plain job need `PlainInv`:
nothing extends an allocation (`OneContent`); a QPM holds only what its present
incarnation made (`HeldByIncarnation`), which is why a stale incarnation may be
skipped; terminal rows and idle allocations name nothing that is held
(`TerminalIsFree`); while an attempt runs, every held reservation that a row
names is the attempt's own or a failure of its rollback (`AttemptOwnsRows`); and
while a release runs, every row it has passed is free or counted as unresolved
(`ReleaseCoversRows`). Each is preserved action by action; the run `plain`
checks `PlainInv` on its instance.

`PlainInv` says what is true of the rows that name something. The refinement also
needs that nothing is missing, which is `PromiseInv`: a row whose rollback failed
stays in an allocation that nothing reserves again (`FailedIsKept`); the services that
an attempt has passed are reserved, and recorded in their rows (`Covered`); a release call without its handler belongs to an abandoned attempt
until the job's own release begins (`StraysKnown`), so that it cannot take back what
was granted; and a release that is handled has begun (`EndKnown`). `OneHeld` is the part
for `AtMostOneReservation`: a QPM holds at most what the attempt, the row or a stray
reserve accounts for. `PromiseStep` then shows, action by action, that each step is a
step of `JobReservations` or changes none of its variables.

For a heterogeneous job the accepted set grows, an attempt may fail beside an accepted
set, and `OneContent` is false. `ExtensionInv` says, until a release begins: there is a
set in force, that of the accepted allocation or the one that the running attempt extends
(`Settled`); its rows name what the response names, and that is held or its incarnation
is gone (`SettledIsBacked`); an attempt touches other services only (`AttemptForm`) and
has made and recorded what it passed (`AttemptBacked`); stray releases are of an attempt
after which nothing is accepted any more (`StraysStuck`); every journaled answer is part
of what the allocation says (`AnswersCurrent`); and a request that was accepted is within
the set in force (`AcceptedWithin`). A restart of a QPM keeps it because the incarnation
in a row then differs.

### The other modules

`StageIn`: the request that holds the lock is the one that was verified (`LockInv`), a
row stays started only while its evaluation runs or after an interrupted one (`RowInv`), and
what a poll was told, or Slurm made of it, is in the row (`DecidedInv`). `BurstBuffer`: the place of the
hook fixes what `seen` and `result` hold (`PhaseInv`, `HeldInv`, `LoopInv`), and time is
linear in the attempts (`BoundInv`), from which the bound on the number of waits follows; `FirstLifeInv`
says that no file reports an unresolved release before the first teardown; and for `RanIsReleased`, a job that is
ready has its own record accepted (`ReadyInv`), and after its application has run each teardown finds
a record that it releases, or has left one that reports (`RanInv`). `Identity`: the
invariant quantifies over a book of all jobs ever submitted, which the model does not
store, to say that a number belongs to one user and one id for ever (`BookInv`); with it
`HandlerInv`, `LockInv` and `JournalInv` say what a handler that verified a job, and the
row it wrote, may still rely on after the table has changed, `StrayInv` the same of the threads
that go on without a handler, and `TornInv` that what a torn-down job holds is such a thread's. `Exchange`: how far a client and its task are fixes what the handler
can have done (`EarlyInv`, `AnswerInv`). `Inspection`: what was read is bounded by `always` and `ever` (`JobsRead`,
`AllocationsRead`, `SummariesRead`), and each property is then a fact about the join.

### The wire

The theorems of `WireProofs` hold for any samples that are messages, any number of
changes, any replies of the types in `Reply`, and any widths with 11 < `U32` < `U64`:
for 2^32 and 2^64, where the run has 16 and 20.

A frame is a sequence of fields written in order and read by selection, and its size is
a sum over them. `Chosen` and `Total`, the two recursive functions behind that, are
characterised by induction over their length: the library's induction theorems take an
operator as a parameter, so the induction goes through a least counterexample instead
(`Least`, `UpTo`). From there the argument is first-order: what an encoder writes holds
each field that is present once and nothing else (`WrittenHolds`); a decoder that scans it
separates scalars and items again (`FrameSpells`) and reads each back (`ReadWritten`); the
limits of one side are within those of the other (`ReadsHeld`, `ItemPasses`), and so are
its checks (`CChecksPass`, `PyReadsBack`). Thirty-two items with every field at its
longest make a frame that is not too long (`MessageFits`).

A frame that was altered need not be one that anybody wrote. For `DecodersAgree` and
`AcceptedIsWritable` the proof knows of it only that it is a sequence of TLVs, one level
of nesting deep, in which a number fits its bytes and a text has the length that its TLV
says (`Frames`). The two decoders are compared check by check on such a frame
(`FrameAgree`), and what the C decoder takes is shown to be within the limits of the
encoders (`TakenWell`, `RequestWritable`, `AnswerWritable`).

`AnswerIsUnderstood` is a chain along the path of an answer: `_normalize_admission` refuses
exactly the replies that are not `Honest` (`NormalisedIs`); the loop of
`_reserve_services` ends at the first service that does not accept, what it gives up names
no reservation and takes that service's decision (`StopsIs`, `RolledBackIs`, `ReserveIs`);
so the response is consistent and passes the encoder (`ResponseEncodes`); the decoder
returns the same message, and the client finds as many different services as it asked for
(`ServicesCount`) and takes the decision (`ClientUnderstands`).

The invariant, `WireInv`, only says which messages, frames and replies there can be; that
it is inductive is a matter of each change keeping the shape (`SetFieldKeeps` to
`AlterTyped`), and each property then follows from it in any state.

### What the proofs changed

`IdentityAssumption` says that an end state
is not one that admits a reserve, and `InspectionAssumption` that a cluster has a name and
that the queues assign job states to jobs, all of which the instances had. `NamesAssumption` says that
any set of state names has a first one in the alphabet. And several
CASE expressions of `Inspection`, `Codec` and `Wire` had guards that overlap, for which TLA+
leaves the value open while TLC takes the first: they now say the order of the code's tests.

Two errors of `Codec` and `Wire` came out as steps that could not be proved. `PyWritable`
let negative numbers pass, which `_uint` (protocol.py:245) refuses: a QPM generation of -1
counted as one that can be encoded. And an alteration that turns eight bytes of a number
into four could leave a number in four bytes that does not fit them, a frame that cannot
exist. Neither showed in a run, since no property depended on it there. The shape of
messages, which only the samples had, is now stated (`IsMessage`), and `_reserve_services`
is cut into `Stops`, `Last` and `RolledBack`.

### Only model-checked

Liveness (`OperatorResolves`, `StageInEnds`, `PreRunEnds`, `CallEnds`, `StopEnds`), which rests on
fairness, out of this prover's reach. `IncompleteRollbackRefused` beyond a plain job and
`AcceptedIsReported`, which the code violates.

## 6. Not modelled

Bytes and alignment of the encoding; the MUNGE library; configuration, launcher
and the bootstrap of the inspection commands, which run before anything else
and replace their process; the driver's command line; options, environment and
the callbacks of the SPANK plugin, which run one after the other in one process
and end with it; the job-submit translation, which is string work; the C
response encoders, which only tests call. The capacity of a QPM is the QPM's own
decision, which the models leave free. Several jobs are in one model only where
the code relates them: in `Identity`, through ids, and in `Inspection`, through the
join; nothing in the gateway relates the rows of two jobs.
