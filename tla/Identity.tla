------------------------------ MODULE Identity ------------------------------
(***************************************************************************)
(* Whose reservations a request may touch: the verifier of the gateway     *)
(* (slurm_verifier.py) between the requests that arrive and the journal,   *)
(* while Slurm's job table changes under it.                               *)
(*                                                                         *)
(* A handler asks slurmctld through scontrol, in a thread, and uses the    *)
(* answer one or more steps later.  Between these steps a job may end, be  *)
(* purged from the table, and its id be given to another user's job.  The  *)
(* lock of handle is keyed by the id the request names: a lookup by the id *)
(* of a heterogeneous component runs beside the requests of its leader.    *)
(*                                                                         *)
(* The request timeout of the server cancels a handler and frees its lock; *)
(* a QPM call that the handler had put in a thread goes on without it.     *)
(*                                                                         *)
(* The transactions themselves are those of GatewayService; here a reserve *)
(* and a release of one service take the steps that other requests see.    *)
(***************************************************************************)
EXTENDS Naturals, FiniteSets

CONSTANTS
  JobIds,      \* the Slurm job ids, handed out again after a purge
  Users,       \* who jobs run as
  Root,        \* the root user: slurmctld's helper and the SPANK plugin
  Trusted,     \* trusted_sender_uids
  NoUser,      \* stands for the absence of a user
  Requests,    \* the requests that may arrive
  Procs,       \* the handlers that run at a time
  EndStates,   \* the states in which a job may end
  NoVal,       \* NO_VAL of Slurm, 4294967294 in the code
  Infinite,    \* INFINITE of Slurm, 4294967295 in the code
  MaxJobs      \* bound on the jobs submitted

ReserveStates == {"PENDING", "CONFIGURING", "RUNNING", "COMPLETING"}

ReleaseStates ==
  ReserveStates \cup {"CANCELLED", "COMPLETED", "FAILED", "NODE_FAIL",
                      "OUT_OF_MEMORY", "PREEMPTED", "TIMEOUT"}

\* A lookup names the id of the step's own job, the others the canonical id; a
\* reserve may name the heterogeneous component that asks for it.  A release is
\* known by its sender and its number, the request id.
ASSUME IdentityAssumption ==
  /\ JobIds \subseteq Nat \ {0, NoVal, Infinite}
  /\ EndStates \cap (ReserveStates \cup {"none"}) = {}
  /\ NoUser \notin Users \cup {Root}
  /\ \A r \in Requests :
       /\ r.op \in {"reserve", "release", "lookup"}
       /\ r.id \in JobIds
       /\ r.component \in JobIds \cup {0}
       /\ r.offset \in Nat
       /\ r.number \in Nat
       /\ r.user \in Users \cup {NoUser}
       /\ r.sender \in Users \cup Trusted \cup {Root}
  /\ MaxJobs \in Nat

VARIABLES
  table,    \* slurmctld: the job with each id
  jobs,     \* the jobs submitted so far; numbers them
  alloc,    \* the journal: the allocation of each canonical job
  ops,      \* the journal: the operation row of each release
  held,     \* the QPM: the reservation it holds for each canonical job
  stray,    \* the QPM calls in threads whose handler was cancelled
  handler,  \* the requests being handled
  answer,   \* what the last step answered, if it ended a handler
  torn      \* the jobs whose release was carried out after they ended

vars == <<table, jobs, alloc, ops, held, stray, handler, answer, torn>>

\* A job: its number, its user, its state, its heterogeneous leader (0 for an
\* ordinary job) and offset.  An id that is not in the table has NoJob.
NoJob == [job |-> 0, user |-> NoUser, state |-> "none", leader |-> 0,
          offset |-> 0]

\* A reservation: the job and the user it was made for, and whether the handler
\* that asked for it was cancelled before it could take the QPM's answer.
NoReservation == [job |-> 0, user |-> NoUser, lost |-> FALSE]

\* named: the reservation that the allocation's row names and does not say to
\* be given back.
NoAllocation == [state |-> "none", user |-> NoUser, named |-> NoReservation]

Releases == {r \in Requests : r.op = "release"}

\* seen: the record the verification rests on.  calm: so far each step of the
\* lookup found the allocation accepted and its job active.
Idle == [pc |-> "idle", req |-> NoUser, owner |-> NoUser, canonical |-> 0,
         seen |-> NoJob, calm |-> FALSE, released |-> FALSE]

\* An answer: the request, and what it was given.
NoAnswer == [result |-> "none", req |-> NoUser, calm |-> FALSE,
             given |-> NoReservation]

TypeOK ==
  /\ \A j \in JobIds :
       /\ table[j].job \in 0..MaxJobs
       /\ table[j].user \in Users \cup {NoUser}
       /\ table[j].state \in ReserveStates \cup EndStates \cup {"none"}
       /\ table[j].leader \in JobIds \cup {0}
       /\ alloc[j].state \in {"none", "reserving", "accepted", "rolled-back",
                              "released", "release-incomplete"}
       /\ alloc[j].user \in Users \cup {NoUser}
       /\ held[j].job \in 0..MaxJobs
       /\ held[j].user \in Users \cup {NoUser}
  /\ jobs \in 0..MaxJobs
  /\ ops \in [Releases -> {"none", "started", "complete"}]
  /\ \A s \in stray : s.op \in {"reserve", "release"} /\ s.id \in JobIds
  /\ torn \subseteq 1..MaxJobs
  /\ \A p \in Procs :
       /\ handler[p].pc \in {"idle", "query", "leader", "read", "allocate",
                             "reserve", "release", "settle"}
       /\ handler[p].canonical \in JobIds \cup {0}
  /\ answer.result \in {"none", "answered", "refused", "failed"}

Init ==
  /\ table = [j \in JobIds |-> NoJob]
  /\ jobs = 0
  /\ alloc = [j \in JobIds |-> NoAllocation]
  /\ ops = [r \in Releases |-> "none"]
  /\ held = [j \in JobIds |-> NoReservation]
  /\ stray = {}
  /\ handler = [p \in Procs |-> Idle]
  /\ answer = NoAnswer
  /\ torn = {}

-----------------------------------------------------------------------------
(* slurmctld (external): jobs come, end and are purged.  The verifier      *)
(* treats all of ReserveStates alike: PENDING stands for any of them.      *)

Leader(j) == IF table[j].leader = 0 THEN j ELSE table[j].leader

NewJob(number, u, leader, offset) ==
  [job |-> number, user |-> u, state |-> "PENDING", leader |-> leader,
   offset |-> offset]

Submit(j, u) ==
  /\ table[j] = NoJob
  /\ jobs < MaxJobs
  /\ jobs' = jobs + 1
  /\ table' = [table EXCEPT ![j] = NewJob(jobs', u, 0, 0)]
  /\ answer' = NoAnswer
  /\ UNCHANGED <<alloc, ops, held, stray, handler, torn>>

\* A heterogeneous job of two components, one job of the same user each.
SubmitHetero(j, k, u) ==
  /\ j < k /\ table[j] = NoJob /\ table[k] = NoJob
  /\ jobs + 1 < MaxJobs
  /\ jobs' = jobs + 2
  /\ table' = [table EXCEPT ![j] = NewJob(jobs + 1, u, j, 0),
                            ![k] = NewJob(jobs + 2, u, j, 1)]
  /\ answer' = NoAnswer
  /\ UNCHANGED <<alloc, ops, held, stray, handler, torn>>

JobEnds(j) ==
  /\ table[j].state \in ReserveStates
  /\ \E state \in EndStates : table' = [table EXCEPT ![j].state = state]
  /\ answer' = NoAnswer
  /\ UNCHANGED <<jobs, alloc, ops, held, stray, handler, torn>>

\* A heterogeneous job is purged as a whole.
Purge(j) ==
  LET group == {k \in JobIds : table[k] # NoJob /\ Leader(k) = Leader(j)}
  IN  /\ table[j] # NoJob
      /\ \A k \in group : table[k].state \in EndStates
      /\ table' = [k \in JobIds |-> IF k \in group THEN NoJob ELSE table[k]]
      /\ answer' = NoAnswer
      /\ UNCHANGED <<jobs, alloc, ops, held, stray, handler, torn>>

-----------------------------------------------------------------------------
(* The verifier.                                                           *)

\* A number of scontrol's JSON: a number, or a form that _number refuses.
Numbered(n) == [form |-> "number", n |-> n]
NotNumber == [form |-> "refused", n |-> 0]

\* How scontrol may write het_job_id: for an ordinary job in several ways.
LeaderFields(j) ==
  IF table[j].leader = 0
  THEN {NotNumber, Numbered(0), Numbered(NoVal), Numbered(Infinite)}
  ELSE {Numbered(table[j].leader)}

\* Mutant of CanonicalJobId: the id of the component is used as it is.
CanonicalIsOwn(j, field) == j

\* _canonical_job_id, from the field: absent, not a number, and Slurm's "no
\* value" numbers are no leader.
CanonicalJobId(j, field) ==
  IF field.form # "number" \/ field.n \in {0, NoVal, Infinite}
  THEN j
  ELSE field.n

\* The jobs of an answer to "scontrol show job j": with j itself, any of the
\* jobs of its heterogeneous group.  None if j is not in the table.
Replies(j) ==
  {S \in SUBSET {k \in JobIds : table[k] # NoJob /\ Leader(k) = Leader(j)} :
     j \in S}

SenderIsTrusted(sender, u) == sender \in {Root, u} \cup Trusted

\* The component a reserve names is in the answer and belongs to the job.
ComponentMatches(r, reply) ==
  \/ r.component = 0
  \/ /\ r.component \in reply
     /\ table[r.component].leader = r.id
     /\ table[r.component].offset = r.offset

\* Mutant of VerifiesReserve: the user the request names is not compared.
VerifiesReserveAny(r, reply) ==
  /\ ComponentMatches(r, reply)
  /\ SenderIsTrusted(r.sender, table[r.id].user)
  /\ table[r.id].state \in ReserveStates

VerifiesReserve(r, reply) ==
  /\ ComponentMatches(r, reply)
  /\ table[r.id].user = r.user
  /\ SenderIsTrusted(r.sender, table[r.id].user)
  /\ table[r.id].state \in ReserveStates

\* Mutant of VerifiesRelease: the owner in the journal is not compared.
VerifiesReleaseAny(r, owner) ==
  /\ SenderIsTrusted(r.sender, table[r.id].user)
  /\ table[r.id].state \in ReleaseStates

VerifiesRelease(r, owner) ==
  /\ owner \in {NoUser, table[r.id].user}
  /\ SenderIsTrusted(r.sender, table[r.id].user)
  /\ table[r.id].state \in ReleaseStates

\* The last part of verify_lookup, on the record of the leader.
VerifiesLookup(r, observed, leader) ==
  /\ observed.user = leader.user
  /\ leader.user = r.user
  /\ SenderIsTrusted(r.sender, leader.user)
  /\ leader.state \in ReserveStates

-----------------------------------------------------------------------------
(* The handlers.                                                           *)

\* Mutant of LockFree: each request has a lock of its own.
NoLock(id) == TRUE

\* _allocation_lock: no request that names this id is being handled.
LockFree(id) ==
  \A p \in Procs : handler[p] # Idle => handler[p].req.id # id

\* Mutant of ContextFor: the owner in the journal is not compared.
ContextForAny(c, u) == alloc[c].state = "accepted"

\* The allocation is this user's and accepted.  With one service its row is then
\* accepted too: _release_one and complete_allocation write both at once.
ContextFor(c, u) == alloc[c].state = "accepted" /\ alloc[c].user = u

\* A lookup finds its job's allocation accepted and the job active.
InUse(r) ==
  LET c == Leader(r.id)
  IN  /\ r.op = "lookup"
      /\ table[r.id] # NoJob
      /\ table[r.id].user = r.user /\ table[c].user = r.user
      /\ table[c].state \in ReserveStates
      /\ SenderIsTrusted(r.sender, r.user)
      /\ ContextFor(c, r.user)

\* It did so, for the same job, at each step before, too.
Calm(h) ==
  /\ h.calm /\ InUse(h.req)
  /\ h.seen.job \in {0, table[h.req.id].job, table[Leader(h.req.id)].job}

\* The handler ends, and answers.
Return(p, result, given) ==
  /\ handler' = [handler EXCEPT ![p] = Idle]
  /\ answer' = [result |-> result, req |-> handler[p].req,
                calm |-> Calm(handler[p]), given |-> given]

\* handle takes the lock.  A request for another cluster ends without effect.  A
\* release starts its operation and reads the journal's owner before it asks
\* Slurm.  A reserve starts its operation after it: that its id is new is assumed,
\* and one that is not ends without effect.
Begin(p, r) ==
  /\ handler[p] = Idle
  /\ LockFree(r.id)
  /\ r.op = "release" => ops[r] = "none"
  /\ ops' = [q \in Releases |-> IF q = r THEN "started" ELSE ops[q]]
  /\ handler' = [handler EXCEPT ![p] =
       [Idle EXCEPT !.pc = "query", !.req = r,
                    !.owner = IF r.op = "release" THEN alloc[r.id].user
                                                  ELSE NoUser,
                    !.calm = InUse(r)]]
  /\ answer' = NoAnswer
  /\ UNCHANGED <<table, jobs, alloc, held, stray, torn>>

\* A release under an id that has a row: the stored answer of one that was
\* completed, a refusal for one that was started and never completed.
Repeated(r) ==
  /\ r \in Releases
  /\ ops[r] # "none"
  /\ LockFree(r.id)
  /\ answer' = [NoAnswer EXCEPT !.result = IF ops[r] = "complete" THEN "answered"
                                                              ELSE "failed"]
  /\ UNCHANGED <<table, jobs, alloc, ops, held, stray, handler, torn>>

\* The job the handler asks slurmctld for.
Asked(h) == IF h.pc = "query" THEN h.req.id ELSE h.canonical

\* slurmctld does not know the job.
JobUnknown(p) ==
  /\ handler[p].pc \in {"query", "leader"}
  /\ Asked(handler[p]) \in JobIds => table[Asked(handler[p])] = NoJob
  /\ Return(p, "refused", NoReservation)
  /\ UNCHANGED <<table, jobs, alloc, ops, held, stray, torn>>

\* scontrol fails or times out.
QueryFails(p) ==
  /\ handler[p].pc \in {"query", "leader"}
  /\ handler' = [handler EXCEPT ![p] = Idle]
  /\ answer' = [NoAnswer EXCEPT !.result = "failed"]
  /\ UNCHANGED <<table, jobs, alloc, ops, held, stray, torn>>

\* A verification that passes goes on at the label; one that does not, on the
\* record of job j, ends the handler.
Verified(p, passes, label, j) ==
  IF passes
  THEN /\ handler' = [handler EXCEPT ![p] =
            [@ EXCEPT !.pc = label, !.canonical = j, !.seen = table[j],
                      !.calm = Calm(handler[p]), !.owner = NoUser]]
       /\ answer' = NoAnswer
  ELSE /\ handler' = [handler EXCEPT ![p] = Idle]
       /\ answer' = [result |-> "refused", req |-> handler[p].req,
                     calm |-> Calm(handler[p]), given |-> NoReservation]

\* verify_reserve: one answer of scontrol.
VerifyReserve(p) ==
  LET r == handler[p].req
  IN  /\ handler[p].pc = "query"
      /\ r.op = "reserve"
      /\ \E reply \in Replies(r.id) :
           Verified(p, VerifiesReserve(r, reply), "allocate", r.id)
      /\ UNCHANGED <<table, jobs, alloc, ops, held, stray, torn>>

\* verify_release: one answer of scontrol.
VerifyRelease(p) ==
  LET r == handler[p].req
  IN  /\ handler[p].pc = "query"
      /\ r.op = "release"
      /\ Replies(r.id) # {}
      /\ Verified(p, VerifiesRelease(r, handler[p].owner), "release", r.id)
      /\ UNCHANGED <<table, jobs, alloc, ops, held, stray, torn>>

\* verify_lookup asks for the observed job, and for its leader when the answer
\* does not hold it.
VerifyLookup(p) ==
  LET r == handler[p].req
  IN  /\ handler[p].pc = "query"
      /\ r.op = "lookup"
      /\ \E reply \in Replies(r.id), field \in LeaderFields(r.id) :
           LET c == CanonicalJobId(r.id, field)
           IN  IF c \in reply
               THEN Verified(p, VerifiesLookup(r, table[r.id], table[c]), "read", c)
               ELSE /\ handler' = [handler EXCEPT ![p] =
                         [@ EXCEPT !.pc = "leader", !.canonical = c,
                                   !.seen = table[r.id],
                                   !.calm = Calm(handler[p])]]
                    /\ answer' = NoAnswer
      /\ UNCHANGED <<table, jobs, alloc, ops, held, stray, torn>>

\* The second question of verify_lookup: slurmctld may have moved on since.
VerifyLeader(p) ==
  LET h == handler[p]
  IN  /\ h.pc = "leader"
      /\ h.canonical \in JobIds
      /\ Replies(h.canonical) # {}
      /\ Verified(p, VerifiesLookup(h.req, h.seen, table[h.canonical]), "read",
                  h.canonical)
      /\ UNCHANGED <<table, jobs, alloc, ops, held, stray, torn>>

\* A lookup reads the journal (reservation_context).
ReadContext(p) ==
  LET h == handler[p]
  IN  /\ h.pc = "read"
      /\ IF ContextFor(h.canonical, h.seen.user)
         THEN Return(p, "answered", alloc[h.canonical].named)
         ELSE Return(p, "refused", NoReservation)
      /\ UNCHANGED <<table, jobs, alloc, ops, held, stray, torn>>

\* begin_allocation, for requests of one workload: a new attempt, the answer of
\* the accepted one, or a refusal.
Allocate(p) ==
  LET h == handler[p]
      c == h.req.id
      sameUser == alloc[c].user = h.req.user
  IN  /\ h.pc = "allocate"
      /\ \/ /\ \/ alloc[c].state = "none"
               \/ alloc[c].state = "rolled-back" /\ sameUser
            /\ alloc' = [alloc EXCEPT ![c] =
                 [NoAllocation EXCEPT !.state = "reserving", !.user = h.req.user]]
            /\ handler' = [handler EXCEPT ![p].pc = "reserve"]
            /\ answer' = NoAnswer
         \/ /\ ContextFor(c, h.req.user)
            /\ Return(p, "answered", NoReservation)
            /\ UNCHANGED alloc
         \/ /\ alloc[c].state # "none"
            /\ \/ ~ sameUser
               \/ alloc[c].state \in {"reserving", "released",
                                      "release-incomplete"}
            /\ Return(p, "refused", NoReservation)
            /\ UNCHANGED alloc
      /\ UNCHANGED <<table, jobs, ops, held, stray, torn>>

\* What a reserve asks the QPM for.
Wanted(h, lost) == [job |-> h.seen.job, user |-> h.seen.user, lost |-> lost]

\* The QPM accepts the reservation for the verified user, or does not.
ReserveQpm(p) ==
  LET h == handler[p]
      c == h.req.id
  IN  /\ h.pc = "reserve"
      /\ \/ /\ held' = [held EXCEPT ![c] = Wanted(h, FALSE)]
            /\ alloc' = [alloc EXCEPT ![c].state = "accepted",
                                      ![c].named = Wanted(h, FALSE)]
            /\ Return(p, "answered", NoReservation)
         \/ /\ alloc' = [alloc EXCEPT ![c].state = "rolled-back"]
            /\ Return(p, "failed", NoReservation)
            /\ UNCHANGED held
      /\ UNCHANGED <<table, jobs, ops, stray, torn>>

\* _release_one: there is nothing to do where no row names a reservation; the
\* QPM gives one that is named back, or fails to.
ReleaseQpm(p) ==
  LET h == handler[p]
      c == h.req.id
  IN  /\ h.pc = "release"
      /\ \/ /\ held' = IF alloc[c].named = NoReservation
                       THEN held
                       ELSE [held EXCEPT ![c] = NoReservation]
            /\ handler' = [handler EXCEPT ![p].pc = "settle",
                                          ![p].released = TRUE]
         \/ /\ alloc[c].named # NoReservation
            /\ handler' = [handler EXCEPT ![p].pc = "settle"]
            /\ UNCHANGED held
      /\ answer' = NoAnswer
      /\ UNCHANGED <<table, jobs, alloc, ops, stray, torn>>

\* complete_allocation, which raises where there is no row, and
\* complete_operation.
SettleRelease(p) ==
  LET h == handler[p]
      c == h.req.id
  IN  /\ h.pc = "settle"
      /\ IF alloc[c].state = "none"
         THEN Return(p, "failed", NoReservation) /\ UNCHANGED <<alloc, ops>>
         ELSE /\ alloc' = [alloc EXCEPT ![c] =
                   IF h.released
                   THEN [@ EXCEPT !.state = "released", !.named = NoReservation]
                   ELSE [@ EXCEPT !.state = "release-incomplete"]]
              /\ ops' = [ops EXCEPT ![h.req] = "complete"]
              /\ Return(p, "answered", NoReservation)
      /\ torn' = IF h.released /\ h.seen.state \in EndStates
                 THEN torn \cup {h.seen.job}
                 ELSE torn
      /\ UNCHANGED <<table, jobs, held, stray>>

-----------------------------------------------------------------------------
(* The request timeout.                                                    *)

\* The handler is at a QPM call, which runs in a thread.
Calling(h) ==
  \/ h.pc = "reserve"
  \/ h.pc = "release" /\ alloc[h.req.id].named # NoReservation

\* wait_for of the server cancels a handler at any of its awaits: the lock is
\* free, the client has no answer, and the journal is left as it is.  A call that
\* has returned when the cancel comes is lost as well: the thread then ends
\* before anything else happens.
Cancel(p) ==
  LET h == handler[p]
  IN  /\ h.pc \in {"query", "leader", "reserve", "release"}
      /\ stray' = IF Calling(h)
                  THEN stray \cup {[op |-> h.req.op, id |-> h.req.id,
                                    sender |-> h.req.sender,
                                    res |-> IF h.req.op = "reserve"
                                            THEN Wanted(h, TRUE)
                                            ELSE alloc[h.req.id].named]}
                  ELSE stray
      /\ handler' = [handler EXCEPT ![p] = Idle]
      /\ answer' = NoAnswer
      /\ UNCHANGED <<table, jobs, alloc, ops, held, torn>>

\* The thread's call reaches the QPM after all, or fails.
StrayReserve(s) ==
  /\ s.op = "reserve"
  /\ held' \in {held, [held EXCEPT ![s.id] = s.res]}
  /\ stray' = stray \ {s}
  /\ answer' = NoAnswer
  /\ UNCHANGED <<table, jobs, alloc, ops, handler, torn>>

StrayRelease(s) ==
  /\ s.op = "release"
  /\ \/ /\ held[s.id] = s.res
        /\ held' = [held EXCEPT ![s.id] = NoReservation]
     \/ UNCHANGED held
  /\ stray' = stray \ {s}
  /\ answer' = NoAnswer
  /\ UNCHANGED <<table, jobs, alloc, ops, handler, torn>>

Next ==
  \/ \E j \in JobIds, u \in Users : Submit(j, u)
  \/ \E j, k \in JobIds, u \in Users : SubmitHetero(j, k, u)
  \/ \E j \in JobIds : JobEnds(j)
  \/ \E j \in JobIds : Purge(j)
  \/ \E p \in Procs, r \in Requests : Begin(p, r)
  \/ \E r \in Requests : Repeated(r)
  \/ \E p \in Procs : JobUnknown(p)
  \/ \E p \in Procs : QueryFails(p)
  \/ \E p \in Procs : VerifyReserve(p)
  \/ \E p \in Procs : VerifyRelease(p)
  \/ \E p \in Procs : VerifyLookup(p)
  \/ \E p \in Procs : VerifyLeader(p)
  \/ \E p \in Procs : ReadContext(p)
  \/ \E p \in Procs : Allocate(p)
  \/ \E p \in Procs : ReserveQpm(p)
  \/ \E p \in Procs : ReleaseQpm(p)
  \/ \E p \in Procs : SettleRelease(p)
  \/ \E p \in Procs : Cancel(p)
  \/ \E s \in stray : StrayReserve(s)
  \/ \E s \in stray : StrayRelease(s)

Spec == Init /\ [][Next]_vars

-----------------------------------------------------------------------------
(* Properties.                                                             *)

\* A lookup hands out a reservation only to the user it was made for, or to root
\* or a trusted sender on that user's behalf, although the id it was looked up by
\* may since have gone to another user's job (verify_lookup and
\* reservation_context).
OwnReservations ==
  answer.given # NoReservation
    => /\ answer.given.user = answer.req.user
       /\ SenderIsTrusted(answer.req.sender, answer.given.user)

\* Each reservation that a QPM holds, one whose handler was cancelled too, was
\* made for the user whom the journal has as the owner of the allocation, and who
\* was the owner of the job when it was verified (verify_reserve,
\* begin_allocation).
JournalNamesOwner ==
  \A c \in JobIds : held[c] # NoReservation => alloc[c].user = held[c].user

\* Once a job has ended and its release was answered, no reservation is held for
\* it, unless by the thread of a reserve that the request timeout cancelled: that
\* one reserves when it likes.  A reserve that is not cancelled, verified while
\* the job was alive, has either finished before the release or is refused
\* (handle's lock around the verification, and the states verify_reserve admits).
TornDownStaysFree ==
  \A c \in JobIds : held[c].job \in torn => held[c].lost

\* A lookup that finds its job in use at each of its steps is answered, for each
\* component of the job and in whatever form Slurm writes "no leader"
\* (_canonical_job_id, verify_lookup).
InUseIsServed ==
  answer.calm => answer.result = "answered"

\* A reservation is never replaced by another, and is given back only on the
\* word of root, a trusted sender or the user it was made for: a release that was
\* verified against another job to which the id has gone since, or whose thread
\* goes on after a cancel, does not reach it (expected_uid of verify_release,
\* read under the lock).
OnlyOwnerReleases ==
  [][\A c \in JobIds :
       held[c] # NoReservation /\ held'[c] # held[c]
         => /\ held'[c] = NoReservation
            /\ \/ \E p \in Procs :
                    /\ handler[p].pc = "release" /\ handler[p].req.id = c
                    /\ SenderIsTrusted(handler[p].req.sender, held[c].user)
               \/ \E s \in stray :
                    /\ s.op = "release" /\ s.id = c
                    /\ SenderIsTrusted(s.sender, held[c].user)]_vars
=============================================================================
