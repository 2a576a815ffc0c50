-------------------------- MODULE InspectionProofs ---------------------------
(***************************************************************************)
(* Proofs about the inspection commands: what qfw-squeue and qfw-sinfo     *)
(* print, for every queue, set of QPMs and number of changes during a      *)
(* command.                                                                *)
(***************************************************************************)
EXTENDS Inspection, FiniteSetTheorems, TLAPS

FactNames == {"queued", "resv", "registered", "ready"}

\* The facts that held at each moment hold now, and those that hold now held at
\* some moment.
Bounded ==
  /\ DOMAIN always = FactNames /\ DOMAIN ever = FactNames
  /\ always.queued \subseteq Facts.queued
  /\ always.resv \subseteq Held(resv) /\ Held(resv) \subseteq ever.resv
  /\ always.registered \subseteq registered
  /\ always.ready \subseteq Facts.ready /\ Facts.ready \subseteq ever.ready
  /\ events = 0 => always.queued = Facts.queued /\ always.registered = registered

\* The jobs, as they were read: each with its leader and its cluster, and its state
\* if nothing has changed; and, without a failure, all that stayed queued.
JobsRead ==
  /\ \A job \in jobs :
       /\ job.id \in JobIds /\ job.state \in DOMAIN Alphabet
       /\ job.leader = leader[job.id]
       /\ job.cluster = IF named THEN Cluster ELSE ""
       /\ events = 0 => job.id \in DOMAIN queue /\ job.state = FirstText(queue[job.id])
  /\ pc # "slurm" /\ ~ failed =>
       \A j \in always.queued : \E job \in jobs : job.id = j

\* The allocations that were read were held; without a failure, those that stayed
\* are read or their QPM is still to be asked.
AllocationsRead ==
  /\ Held(allocations) \subseteq ever.resv
  /\ events = 0 => allocations \subseteq resv
  /\ command = "squeue" /\ pc \in {"qpm", "done"} /\ ~ failed =>
       /\ \A r \in always.resv :
            r[1] \in always.registered => r[1] \in asking \/ r \in Held(allocations)
       /\ events = 0 =>
            \A a \in resv : a[1] \in registered => a[1] \in asking \/ a \in allocations

\* The services that were read, likewise.
SummariesRead ==
  /\ \A m \in summaries : m.state = "UP" => m.service \in ever.ready
  /\ command = "sinfo" /\ pc \in {"qpm", "done"} /\ ~ failed =>
       \A s \in always.registered :
         \/ s \in asking
         \/ \E m \in summaries : /\ m.service = s
                                 /\ s \in always.ready => m.state = "UP"

\* A queue of jobs.
Queued(q) == DOMAIN q \subseteq JobIds /\ \A j \in DOMAIN q : q[j] \in JobStates

InspectionInv ==
  /\ Queued(queue)
  /\ resv \subseteq Services \X Keys \X Standings
  /\ events \in Nat
  /\ named \in BOOLEAN /\ failed \in BOOLEAN
  /\ command = "squeue" /\ events = 0 => registered = Services
  /\ registered \subseteq Services
  /\ pc \in {"slurm", "directory", "qpm", "done"}
  /\ pc = "done" /\ ~ failed => asking = {}
  /\ Bounded /\ JobsRead /\ AllocationsRead /\ SummariesRead

-----------------------------------------------------------------------------
(* What the operators are.                                                 *)

\* The facts, before a step and after it.
LEMMA FactsValue ==
  /\ Facts.queued = DOMAIN queue
  /\ Facts.resv = Held(resv)
  /\ Facts.registered = registered
  /\ Facts.ready = {s \in Services : status[s] = "ready"}
  /\ DOMAIN Facts = FactNames
BY DEF Facts, FactNames

\* The same after a step.
LEMMA FactsValueNext ==
  /\ Facts'.queued = DOMAIN queue'
  /\ Facts'.resv = Held(resv')
  /\ Facts'.registered = registered'
  /\ Facts'.ready = {s \in Services : status'[s] = "ready"}
BY DEF Facts

\* What was always so, and what ever was so, field by field.
LEMMA MeetJoinValue ==
  ASSUME NEW a, NEW b, DOMAIN a = FactNames
  PROVE  /\ DOMAIN Meet(a, b) = FactNames /\ DOMAIN Join(a, b) = FactNames
         /\ Meet(a, b).queued = a.queued \cap b.queued
         /\ Meet(a, b).resv = a.resv \cap b.resv
         /\ Meet(a, b).registered = a.registered \cap b.registered
         /\ Meet(a, b).ready = a.ready \cap b.ready
         /\ Join(a, b).resv = a.resv \cup b.resv
         /\ Join(a, b).ready = a.ready \cup b.ready
BY DEF Meet, Join, FactNames

\* The state that a row of qfw-sinfo shows.
LEMMA SummaryValue ==
  ASSUME NEW s
  PROVE  /\ Summary(s).service = s
         /\ Summary(s).state = "UP" <=> status[s] = "ready"
<1>1. Summary(s).service = s
  BY Zenon DEF Summary
<1>2. Summary(s).state = CASE status[s] = "ready" -> "UP"
                           [] status[s] = "maint" -> "MAINT"
                           [] OTHER               -> "DOWN"
  BY Zenon DEF Summary
<1>3. Summary(s).state = "UP" <=> status[s] = "ready"
  <2>1. CASE status[s] = "ready"
    BY <1>2, <2>1, Zenon
  <2>2. CASE status[s] # "ready"
    BY <1>2, <2>2, Zenon
  <2> QED
    BY <2>1, <2>2
<1> QED
  BY <1>1, <1>3

\* The quantum state, case by case.
LEMMA QuantumStateValue ==
  ASSUME NEW state, NEW matches, NEW standings, standings = {a[3] : a \in matches}
  PROVE  /\ matches = {} => QuantumState(state, matches) =
                              IF state = "PENDING" THEN {"EVALUATING"} ELSE {"UNAVAILABLE"}
         /\ matches # {} => QuantumState(state, matches) =
                              IF state = "COMPLETING" THEN {"RELEASING"}
                              ELSE IF standings \subseteq Live
                                   THEN IF state = "PENDING" THEN {"ACCEPTED"} ELSE {"ACTIVE"}
                                   ELSE standings
<1>0. CASE matches = {} /\ state = "PENDING"
  BY <1>0, Zenon DEF QuantumState
<1>1. CASE matches = {} /\ state # "PENDING"
  BY <1>1, Zenon DEF QuantumState
<1>2. CASE matches # {} /\ state = "COMPLETING"
  BY <1>2, Zenon DEF QuantumState
<1>3. CASE matches # {} /\ state = "PENDING" /\ standings \subseteq Live
  BY <1>3, Zenon DEF QuantumState
<1>4. CASE /\ matches # {} /\ state \notin {"COMPLETING", "PENDING"}
           /\ standings \subseteq Live
  BY <1>4, Zenon DEF QuantumState
<1>5. CASE matches # {} /\ state # "COMPLETING" /\ ~ (standings \subseteq Live)
  BY <1>5, Zenon DEF QuantumState
<1> QED
  BY <1>0, <1>1, <1>2, <1>3, <1>4, <1>5

\* The reservations behind allocations.
LEMMA HeldValue ==
  ASSUME NEW A, NEW B
  PROVE  /\ Held(A \cup B) = Held(A) \cup Held(B)
         /\ A \subseteq B => Held(A) \subseteq Held(B)
         /\ Held({}) = {}
         /\ \A a \in A : <<a[1], a[2]>> \in Held(A)
         /\ \A r \in Held(A) : \E a \in A : r = <<a[1], a[2]>>
BY DEF Held

\* The first of the states that Slurm lists for a job is a name.
LEMMA FirstTextValue ==
  ASSUME NEW list \in JobStates
  PROVE  FirstText(list) \in DOMAIN Alphabet
<1>1. list \in Seq(DOMAIN Alphabet)
  BY NamesAssumption
<1>2. CASE list = <<>>
  BY <1>2, NamesAssumption DEF FirstText
<1>3. CASE list # <<>>
  BY <1>1, <1>3 DEF FirstText
<1> QED
  BY <1>2, <1>3

-----------------------------------------------------------------------------
(* Every step preserves the invariant.                                     *)

\* The world changes: less has always been so, more has ever been so.
LEMMA EventStep ==
  ASSUME InspectionInv, Event, Queued(queue'),
         resv' \subseteq Services \X Keys \X Standings, registered' \subseteq Services
  PROVE  InspectionInv'
<1>0. /\ events' \in Nat /\ events' # 0
      /\ always' = Meet(always, Facts') /\ ever' = Join(ever, Facts')
      /\ UNCHANGED <<leader, named, command, jobs, nodes, asking, allocations, summaries,
                     failed, pc>>
  BY DEF Event, reading, InspectionInv
<1>1. /\ DOMAIN always = FactNames /\ DOMAIN ever = FactNames
      /\ Held(resv) \subseteq ever.resv /\ Facts.ready \subseteq ever.ready
  BY DEF InspectionInv, Bounded
<1>2. /\ DOMAIN always' = FactNames /\ DOMAIN ever' = FactNames
      /\ always'.queued = always.queued \cap Facts'.queued
      /\ always'.resv = always.resv \cap Facts'.resv
      /\ always'.registered = always.registered \cap Facts'.registered
      /\ always'.ready = always.ready \cap Facts'.ready
      /\ ever'.resv = ever.resv \cup Facts'.resv
      /\ ever'.ready = ever.ready \cup Facts'.ready
  BY <1>0, <1>1, MeetJoinValue
<1>3. Bounded'
  BY <1>0, <1>2, FactsValueNext DEF Bounded
<1>4. JobsRead'
  BY <1>0, <1>2 DEF InspectionInv, JobsRead
<1>5. AllocationsRead'
  BY <1>0, <1>2 DEF InspectionInv, AllocationsRead
<1>6. SummariesRead'
  BY <1>0, <1>2 DEF InspectionInv, SummariesRead
<1> QED
  BY <1>0, <1>3, <1>4, <1>5, <1>6 DEF InspectionInv

\* A step of the command leaves the world as it is.
LEMMA StillBounded ==
  ASSUME Bounded, UNCHANGED <<world, always, ever>>
  PROVE  Bounded'
BY DEF Bounded, Facts, world

\* After Slurm was read, the jobs stay as they were read.
LEMMA StillRead ==
  ASSUME JobsRead, pc # "slurm" \/ pc' = "slurm", ~ failed' => ~ failed,
         UNCHANGED <<queue, leader, named, events, jobs, always>>
  PROVE  JobsRead'
<1>1. \A job \in jobs' :
        /\ job.id \in JobIds /\ job.state \in DOMAIN Alphabet
        /\ job.leader = leader'[job.id]
        /\ job.cluster = IF named' THEN Cluster ELSE ""
        /\ events' = 0 => job.id \in DOMAIN queue' /\ job.state = FirstText(queue'[job.id])
  BY DEF JobsRead
<1>2. pc' # "slurm" /\ ~ failed' => \A j \in always'.queued : \E job \in jobs' : job.id = j
  BY DEF JobsRead
<1> QED
  BY <1>1, <1>2 DEF JobsRead

\* Slurm is read, or fails.
LEMMA ReadSlurmStep ==
  ASSUME InspectionInv, ReadSlurm
  PROVE  InspectionInv'
<1>0. /\ pc = "slurm" /\ pc' = "directory"
      /\ UNCHANGED <<queue, leader, named, resv, status, registered, events>>
      /\ UNCHANGED <<command, asking, allocations, summaries, always, ever>>
      /\ failed' \in BOOLEAN
  BY DEF ReadSlurm, world, InspectionInv
<1>1. Bounded'
  BY StillBounded DEF InspectionInv, ReadSlurm
<1>2. JobsRead'
  <2>1. CASE failed' = TRUE /\ jobs' = jobs
    BY <1>0, <2>1 DEF InspectionInv, JobsRead
  <2>2. CASE jobs' = {JobRead(j) : j \in Facts.queued} /\ failed' = failed
    <3>1. \A j : /\ JobRead(j).id = j /\ JobRead(j).leader = leader[j]
                 /\ JobRead(j).state = FirstText(queue[j])
                 /\ JobRead(j).cluster = IF named THEN Cluster ELSE ""
      BY DEF JobRead
    <3>2. \A job \in jobs' :
            /\ job.id \in JobIds /\ job.state \in DOMAIN Alphabet
            /\ job.leader = leader[job.id]
            /\ job.cluster = IF named THEN Cluster ELSE ""
            /\ job.id \in DOMAIN queue /\ job.state = FirstText(queue[job.id])
      <4> SUFFICES ASSUME NEW job \in jobs'
                   PROVE  /\ job.id \in JobIds /\ job.state \in DOMAIN Alphabet
                          /\ job.leader = leader[job.id]
                          /\ job.cluster = IF named THEN Cluster ELSE ""
                          /\ job.id \in DOMAIN queue
                          /\ job.state = FirstText(queue[job.id])
        OBVIOUS
      <4>1. PICK j \in Facts.queued : job = JobRead(j)
        BY <2>2
      <4>2. j \in JobIds /\ j \in DOMAIN queue /\ FirstText(queue[j]) \in DOMAIN Alphabet
        BY FactsValue, FirstTextValue DEF InspectionInv, Queued
      <4> QED
        BY <3>1, <4>1, <4>2
    <3>3. \A j \in always.queued : \E job \in jobs' : job.id = j
      BY <2>2, <3>1 DEF InspectionInv, Bounded
    <3> QED
      BY <1>0, <3>2, <3>3 DEF JobsRead
  <2> QED
    BY <2>1, <2>2 DEF ReadSlurm
<1>3. AllocationsRead' /\ SummariesRead'
  BY <1>0 DEF InspectionInv, AllocationsRead, SummariesRead
<1> QED
  BY <1>0, <1>1, <1>2, <1>3 DEF InspectionInv

\* The directory is read, or fails: what is registered all the while is asked.
LEMMA ReadDirectoryStep ==
  ASSUME InspectionInv, ReadDirectory
  PROVE  InspectionInv'
<1>0. /\ pc = "directory" /\ pc' \in {"qpm", "done"}
      /\ UNCHANGED <<queue, leader, named, resv, status, registered, events>>
      /\ UNCHANGED <<command, jobs, allocations, summaries, always, ever>>
      /\ \/ /\ asking' = registered /\ failed' = failed
            /\ pc' = "done" => asking' = {}
         \/ failed' = TRUE /\ asking' = asking
  BY DEF ReadDirectory, world
<1>1. Bounded'
  BY StillBounded DEF InspectionInv, ReadDirectory
<1>2. JobsRead'
  BY <1>0, StillRead DEF InspectionInv
<1>3. always.registered \subseteq registered
  BY DEF InspectionInv, Bounded
<1>4. AllocationsRead' /\ SummariesRead'
  BY <1>0, <1>3 DEF InspectionInv, AllocationsRead, SummariesRead
<1> QED
  BY <1>0, <1>1, <1>2, <1>4 DEF InspectionInv

\* A QPM is asked for its allocations.
LEMMA AskTelemetryStep ==
  ASSUME InspectionInv, NEW s \in Services, AskTelemetry(s)
  PROVE  InspectionInv'
<1>0. /\ pc = "qpm" /\ pc' \in {"qpm", "done"} /\ command = "squeue"
      /\ UNCHANGED <<queue, leader, named, resv, status, registered, events>>
      /\ UNCHANGED <<command, jobs, summaries, always, ever>>
      /\ asking' = asking \ {s}
      /\ pc' = "done" => asking' = {}
      /\ \/ failed' = TRUE /\ allocations' = allocations
         \/ /\ failed' = failed
            /\ allocations' = allocations \cup {a \in resv : a[1] = s}
  BY DEF AskTelemetry, Asked, world
<1>1. Bounded'
  BY StillBounded DEF InspectionInv, AskTelemetry
<1>2. JobsRead'
  BY <1>0, StillRead DEF InspectionInv
<1>3. always.resv \subseteq Held(resv) /\ Held(resv) \subseteq ever.resv
  BY DEF InspectionInv, Bounded
<1>4. AllocationsRead'
  <2>1. CASE failed' = TRUE /\ allocations' = allocations
    BY <1>0, <2>1 DEF InspectionInv, AllocationsRead
  <2>2. CASE /\ failed' = failed
             /\ allocations' = allocations \cup {a \in resv : a[1] = s}
    <3> DEFINE new == {a \in resv : a[1] = s}
    <3>1. Held(allocations') = Held(allocations) \cup Held(new)
      BY <2>2, HeldValue
    <3>2. Held(new) \subseteq ever.resv
      BY <1>3, HeldValue
    <3>3. \A r \in Held(resv) : r[1] = s => r \in Held(new)
      <4> SUFFICES ASSUME NEW r \in Held(resv), r[1] = s
                   PROVE  r \in Held(new)
        OBVIOUS
      <4>1. PICK a \in resv : r = <<a[1], a[2]>>
        BY HeldValue
      <4> QED
        BY <4>1, HeldValue
    <3>4. Held(allocations') \subseteq ever.resv
      BY <3>1, <3>2 DEF InspectionInv, AllocationsRead
    <3>5. events = 0 => allocations' \subseteq resv
      BY <2>2 DEF InspectionInv, AllocationsRead
    <3>6. ~ failed => \A r \in always.resv : r[1] \in always.registered =>
                        r[1] \in asking' \/ r \in Held(allocations')
      BY <1>0, <1>3, <3>1, <3>3 DEF InspectionInv, AllocationsRead
    <3>7. ~ failed /\ events = 0 => \A a \in resv : a[1] \in registered =>
                        a[1] \in asking' \/ a \in allocations'
      BY <1>0, <2>2 DEF InspectionInv, AllocationsRead
    <3> QED
      BY <1>0, <2>2, <3>4, <3>5, <3>6, <3>7 DEF AllocationsRead
  <2> QED
    BY <1>0, <2>1, <2>2
<1>5. SummariesRead'
  BY <1>0 DEF InspectionInv, SummariesRead
<1> QED
  BY <1>0, <1>1, <1>2, <1>4, <1>5 DEF InspectionInv

\* A malformed answer ends the reading as a failure.
LEMMA MalformedStep ==
  ASSUME InspectionInv, NEW s \in Services, Malformed(s)
  PROVE  InspectionInv'
<1>0. /\ pc = "qpm" /\ pc' = "done" /\ failed' = TRUE
      /\ allocations' = {} /\ summaries' = {} /\ asking' = {}
      /\ UNCHANGED <<queue, leader, named, resv, status, registered, events>>
      /\ UNCHANGED <<command, jobs, always, ever>>
  BY DEF Malformed, world
<1>1. Bounded'
  BY StillBounded DEF InspectionInv, Malformed
<1>2. JobsRead'
  BY <1>0, StillRead DEF InspectionInv
<1>3. AllocationsRead' /\ SummariesRead'
  BY <1>0, HeldValue DEF AllocationsRead, SummariesRead
<1> QED
  BY <1>0, <1>1, <1>2, <1>3 DEF InspectionInv

\* A QPM is asked for its summary; one that does not answer is listed as down.
LEMMA AskSummaryStep ==
  ASSUME InspectionInv, NEW s \in Services, AskSummary(s)
  PROVE  InspectionInv'
<1>0. /\ pc = "qpm" /\ pc' \in {"qpm", "done"} /\ command = "sinfo"
      /\ UNCHANGED <<queue, leader, named, resv, status, registered, events>>
      /\ UNCHANGED <<command, jobs, allocations, failed, always, ever>>
      /\ asking' = asking \ {s}
      /\ pc' = "done" => asking' = {}
      /\ summaries' = summaries \cup {Summary(s)}
  BY DEF AskSummary, Asked, world
<1>1. Bounded'
  BY StillBounded DEF InspectionInv, AskSummary
<1>2. JobsRead'
  BY <1>0, StillRead DEF InspectionInv
<1>3. AllocationsRead'
  BY <1>0 DEF InspectionInv, AllocationsRead
<1>4. PICK m : m = Summary(s)
  OBVIOUS
<1>5. /\ m.service = s
      /\ m.state = "UP" => s \in ever.ready
      /\ s \in always.ready => m.state = "UP"
  BY <1>4, SummaryValue, FactsValue DEF InspectionInv, Bounded
<1>6. SummariesRead'
  BY <1>0, <1>4, <1>5 DEF InspectionInv, SummariesRead
<1> QED
  BY <1>0, <1>1, <1>2, <1>3, <1>6 DEF InspectionInv

\* A command starts with nothing read.
LEMMA InitInspection ==
  ASSUME Init
  PROVE  InspectionInv
<1>1. /\ Queued(queue) /\ resv \subseteq Services \X Keys \X Standings
      /\ events = 0 /\ named \in BOOLEAN /\ failed = FALSE /\ pc = "slurm"
      /\ registered \subseteq Services
      /\ command = "squeue" => registered = Services
      /\ jobs = {} /\ allocations = {} /\ summaries = {}
      /\ always = Facts /\ ever = Facts
  BY InspectionAssumption DEF Init, Queued
<1>2. Bounded
  BY <1>1, FactsValue DEF Bounded
<1>3. JobsRead /\ AllocationsRead /\ SummariesRead
  BY <1>1, HeldValue DEF JobsRead, AllocationsRead, SummariesRead
<1> QED
  BY <1>1, <1>2, <1>3 DEF InspectionInv

\* InspectionInv is an invariant.
LEMMA InspectionInvCorrect ==
  Spec => []InspectionInv
<1>1. Init => InspectionInv
  BY InitInspection
<1>2. InspectionInv /\ [Next]_vars => InspectionInv'
  <2> SUFFICES ASSUME InspectionInv, [Next]_vars
               PROVE  InspectionInv'
    OBVIOUS
  <2>1. CASE \E j \in JobIds : JobChanges(j)
    <3>1. PICK j \in JobIds : JobChanges(j)
      BY <2>1
    <3>2. Queued(queue')
      BY <3>1 DEF JobChanges, InspectionInv, Queued
    <3> QED
      BY <3>1, <3>2, EventStep DEF JobChanges, InspectionInv
  <2>2. CASE \E s \in Services, k \in Keys : ReservationChanges(s, k)
    BY <2>2, EventStep DEF ReservationChanges, InspectionInv
  <2>3. CASE \E s \in Services : QpmChanges(s) \/ DirectoryChanges(s)
    BY <2>3, EventStep DEF QpmChanges, DirectoryChanges, InspectionInv
  <2>4. CASE ReadSlurm \/ ReadDirectory
    BY <2>4, ReadSlurmStep, ReadDirectoryStep
  <2>5. CASE \E s \in Services : AskTelemetry(s) \/ Malformed(s) \/ AskSummary(s)
    BY <2>5, AskTelemetryStep, MalformedStep, AskSummaryStep
  <2>6. CASE Finish \/ UNCHANGED vars
    <3>1. UNCHANGED <<world, reading, pc, always, ever>>
      BY <2>6 DEF Finish, vars
    <3> QED
      BY <3>1, StillBounded, StillRead
         DEF world, reading, InspectionInv, AllocationsRead, SummariesRead
  <2> QED
    BY <2>1, <2>2, <2>3, <2>4, <2>5, <2>6 DEF Next
<1> QED
  BY <1>1, <1>2, PTL DEF Spec

-----------------------------------------------------------------------------
(* The theorems.                                                           *)

\* A row's components are the jobs of its key, and its matches those of the key.
LEMMA RowValue ==
  ASSUME NEW key
  PROVE  /\ JobRow(key).key = key /\ JobRow(key).matches = Matches(key)
         /\ JobRow(key).components = {job.id : job \in {j \in jobs : JobKey(j) = key}}
         /\ JobRow(key).qstate =
              QuantumState(CombinedState({job.state : job \in {j \in jobs : JobKey(j) = key}}),
                           Matches(key))
BY DEF JobRow

\* An allocation of the very key of a row matches; where the cluster is known, only
\* such an allocation does.
LEMMA MatchesValue ==
  ASSUME NEW key
  PROVE  /\ Matches(key) \subseteq allocations
         /\ \A a \in allocations : a[2] = key => a \in Matches(key)
         /\ key[1] # "" => \A a \in Matches(key) : a[2] = key
         /\ Cardinality({a[2] : a \in Matches(key)}) <= 1
<1> DEFINE exact == {a \in allocations : a[2] = key}
           byId == {a \in allocations : a[2][2] = key[2]}
<1>1. \/ Matches(key) = exact
      \/ exact = {} /\ key[1] = "" /\ Matches(key) = {}
      \/ /\ exact = {} /\ key[1] = "" /\ Matches(key) = byId
         /\ Cardinality({a[2] : a \in byId}) = 1
  BY DEF Matches
<1>2. Cardinality({}) = 0 /\ Cardinality({key}) = 1
  BY FS_EmptySet, FS_Singleton
<1>3. \/ {a[2] : a \in Matches(key)} \in {{}, {key}}
      \/ Cardinality({a[2] : a \in Matches(key)}) = 1
  BY <1>1
<1>4. Cardinality({a[2] : a \in Matches(key)}) <= 1
  <2>1. CASE {a[2] : a \in Matches(key)} \in {{}, {key}}
    BY <1>2, <2>1
  <2> QED
    BY <1>3, <2>1
<1> QED
  BY <1>1, <1>4

\* A job that was read is in the row of its key.
LEMMA JobHasRow ==
  ASSUME NEW job \in jobs
  PROVE  /\ JobRow(JobKey(job)) \in JobRows
         /\ job.id \in JobRow(JobKey(job)).components
BY RowValue DEF JobRows

\* The key of a job that was read.
LEMMA KeyOfJob ==
  ASSUME JobsRead, NEW job \in jobs
  PROVE  JobKey(job) = << IF named THEN Cluster ELSE "",
                          IF leader[job.id] # 0 THEN leader[job.id] ELSE job.id >>
BY DEF JobsRead, JobKey, CanonicalJobId

\* Exit status 0 of qfw-squeue: whatever changes while main reads Slurm, the directory
\* and the QPMs, a reservation that was held all the while for a job that was queued
\* all the while is in the row of the job.
THEOREM SqueueCorrect ==
  Spec => []SqueueComplete
<1>1. InspectionInv => SqueueComplete
  <2> SUFFICES ASSUME InspectionInv, pc = "done", command = "squeue", ~ failed,
                      NEW r \in always.resv, r[1] \in always.registered,
                      r[2][1] = Cluster, named, NEW j \in always.queued,
                      r[2][2] = IF leader[j] # 0 THEN leader[j] ELSE j
               PROVE  \E row \in JobRows : j \in row.components /\ r \in Held(row.matches)
    BY DEF SqueueComplete, Printed
  <2>0. r \in Held(allocations)
    BY DEF InspectionInv, AllocationsRead
  <2>1. PICK a \in allocations : r = <<a[1], a[2]>>
    BY <2>0, HeldValue
  <2>2. PICK job \in jobs : job.id = j
    BY DEF InspectionInv, JobsRead
  <2>3. a[2] \in Keys
    <3>1. PICK b \in resv : r = <<b[1], b[2]>>
      BY HeldValue DEF InspectionInv, Bounded
    <3> QED
      BY <2>1, <3>1 DEF InspectionInv
  <2>4. a[2] = <<a[2][1], a[2][2]>>
    BY <2>3, InspectionAssumption
  <2>5. JobKey(job) = a[2]
    BY <2>1, <2>2, <2>4, KeyOfJob DEF InspectionInv
  <2>6. a \in Matches(JobKey(job))
    BY <2>1, <2>5, MatchesValue
  <2>7. PICK row : row = JobRow(JobKey(job))
    OBVIOUS
  <2>8. row \in JobRows /\ j \in row.components
    BY <2>2, <2>7, JobHasRow
  <2>9. r \in Held(row.matches)
    <3>1. a \in row.matches
      BY <2>6, <2>7, RowValue
    <3> QED
      BY <2>1, <3>1 DEF Held
  <2> QED
    BY <2>8, <2>9
<1> QED
  BY <1>1, InspectionInvCorrect, PTL

\* correlate: whatever changes between the reads, a row shows reservations of one
\* allocation only, that were held, and of the cluster that the row names.
THEOREM RowCorrect ==
  Spec => []RowIsOneAllocation
<1>1. InspectionInv => RowIsOneAllocation
  <2> SUFFICES ASSUME InspectionInv, NEW job \in jobs
               PROVE  LET row == JobRow(JobKey(job))
                      IN  /\ Held(row.matches) \subseteq ever.resv
                          /\ Cardinality({a[2] : a \in row.matches}) <= 1
                          /\ row.key[1] # "" =>
                               {a[2] : a \in row.matches} \subseteq {row.key}
    BY DEF RowIsOneAllocation, JobRows
  <2>1. Held(allocations) \subseteq ever.resv
    BY DEF InspectionInv, AllocationsRead
  <2>2. PICK key : key = JobKey(job)
    OBVIOUS
  <2>3. JobRow(key).key = key /\ JobRow(key).matches = Matches(key)
    BY RowValue
  <2>4. Cardinality({a[2] : a \in JobRow(key).matches}) <= 1
    BY <2>3, MatchesValue
  <2>5. /\ Held(Matches(key)) \subseteq ever.resv
        /\ key[1] # "" => {a[2] : a \in Matches(key)} \subseteq {key}
    <3>1. /\ Matches(key) \subseteq allocations
          /\ key[1] # "" => \A a \in Matches(key) : a[2] = key
      BY MatchesValue
    <3>2. PICK M : M = Matches(key)
      OBVIOUS
    <3> QED
      BY <2>1, <3>1, <3>2 DEF Held
  <2> QED
    BY <2>2, <2>3, <2>4, <2>5
<1> QED
  BY <1>1, InspectionInvCorrect, PTL

\* The combined state of the components of a row.
LEMMA CombinedStateValue ==
  ASSUME NEW S, S # {}, S \subseteq DOMAIN Alphabet
  PROVE  /\ CombinedState(S) = "COMPLETING" <=> "COMPLETING" \in S
         /\ CombinedState(S) = "PENDING" <=>
              "PENDING" \in S /\ "RUNNING" \notin S /\ "COMPLETING" \notin S
<1>1. PICK present : present = {i \in 1..5 : Priority[i] \in S}
  OBVIOUS
<1>2. /\ Priority[1] = "COMPLETING" /\ Priority[2] = "RUNNING" /\ Priority[3] = "PENDING"
      /\ Priority[4] = "SUSPENDED" /\ Priority[5] = "CONFIGURING"
  BY DEF Priority
<1>3. CASE present # {}
  <2>1. \E i \in present : \A k \in present : i <= k
    BY <1>1, <1>3
  <2>2. PICK i : i = CHOOSE x \in present : \A k \in present : x <= k
    OBVIOUS
  <2>3. i \in present /\ \A k \in present : i <= k
    BY <2>1, <2>2
  <2>4. CombinedState(S) = Priority[i]
    BY <1>1, <1>3, <2>2 DEF CombinedState
  <2>5. i \in 1..5 /\ Priority[i] \in S /\ \A k \in 1..5 : Priority[k] \in S => i <= k
    BY <1>1, <2>3
  <2>6. /\ "COMPLETING" \in S => i = 1
        /\ "RUNNING" \in S => i <= 2
        /\ "PENDING" \in S => i <= 3
    BY <1>2, <2>5
  <2> QED
    BY <1>2, <2>4, <2>5, <2>6
<1>4. CASE present = {}
  <2>1. \A k \in 1..5 : Priority[k] \notin S
    BY <1>1, <1>4
  <2>2. "COMPLETING" \notin S /\ "PENDING" \notin S
    BY <1>2, <2>1
  <2>3. \E s \in S : \A t \in S : Alphabet[s] <= Alphabet[t]
    BY NamesAssumption
  <2>4. CombinedState(S) = CHOOSE s \in S : \A t \in S : Alphabet[s] <= Alphabet[t]
    BY <1>1, <1>4 DEF CombinedState
  <2>5. CombinedState(S) \in S
    BY <2>3, <2>4
  <2> QED
    BY <2>2, <2>5
<1> QED
  BY <1>3, <1>4

\* Where nothing changed and nothing failed, the row of a job shows the quantum state
\* that the manual gives for it (correlate, _combined_slurm_state, _quantum_state).
THEOREM QuietCorrect ==
  Spec => []QuietMatchesManual
<1>1. InspectionInv => QuietMatchesManual
  <2> DEFINE Parts(id) == {j \in DOMAIN queue :
                             id = IF leader[j] # 0 THEN leader[j] ELSE j}
             Some(id, state) == \E j \in Parts(id) : FirstText(queue[j]) = state
             Pending(id) == /\ Some(id, "PENDING") /\ ~ Some(id, "RUNNING")
                            /\ ~ Some(id, "COMPLETING")
             Shown(id) == {a[3] : a \in {r \in resv : r[2] = <<Cluster, id>>}}
  <2> SUFFICES ASSUME InspectionInv, pc = "done", command = "squeue", ~ failed,
                      events = 0, named, NEW row \in JobRows
               PROVE  LET id == row.key[2]
                      IN  /\ row.components = Parts(id)
                          /\ Shown(id) # {} /\ Some(id, "COMPLETING") =>
                               row.qstate = {"RELEASING"}
                          /\ Shown(id) = {} /\ Pending(id)   => row.qstate = {"EVALUATING"}
                          /\ Shown(id) = {} /\ ~ Pending(id) => row.qstate = {"UNAVAILABLE"}
                          /\ Shown(id) # {} /\ ~ Some(id, "COMPLETING") =>
                               IF Shown(id) \subseteq Live
                               THEN row.qstate = IF Pending(id) THEN {"ACCEPTED"} ELSE {"ACTIVE"}
                               ELSE row.qstate = Shown(id)
    BY DEF QuietMatchesManual, Printed
  <2>1. PICK first \in jobs : row = JobRow(JobKey(first))
    BY DEF JobRows
  <2>2. PICK key : key = JobKey(first)
    OBVIOUS
  <2>3. PICK id : key = <<Cluster, id>>
    BY <2>2, KeyOfJob DEF InspectionInv
  <2>4. PICK C : C = {j \in jobs : JobKey(j) = key}
    OBVIOUS
  <2>5. PICK S : S = {job.state : job \in C}
    OBVIOUS
  <2>6. PICK state : state = CombinedState(S)
    OBVIOUS
  <2>7. /\ row.key = key /\ row.components = {job.id : job \in C}
        /\ row.qstate = QuantumState(state, Matches(key))
    BY <2>1, <2>2, <2>4, <2>5, <2>6, RowValue
  <2>8. row.key[2] = id /\ row.key = <<Cluster, row.key[2]>>
    BY <2>3, <2>7
  <2>9. PICK parts : parts = Parts(id)
    OBVIOUS
  <2>10. \A job \in jobs : /\ job.id \in DOMAIN queue
                           /\ job.state = FirstText(queue[job.id])
                           /\ job.state \in DOMAIN Alphabet
    BY DEF InspectionInv, JobsRead
  <2>11. \A j \in DOMAIN queue : \E job \in jobs : job.id = j
    BY FactsValue DEF InspectionInv, JobsRead, Bounded
  <2>12. \A job \in jobs : job \in C <=> job.id \in parts
    <3> SUFFICES ASSUME NEW job \in jobs
                 PROVE  job \in C <=> job.id \in parts
      OBVIOUS
    <3>1. JobKey(job) = <<Cluster, IF leader[job.id] # 0 THEN leader[job.id] ELSE job.id>>
      BY KeyOfJob DEF InspectionInv
    <3> QED
      BY <2>3, <2>4, <2>9, <2>10, <3>1
  <2>13. row.components = parts
    BY <2>4, <2>7, <2>9, <2>11, <2>12
  <2>14. \A x : x \in S <=> \E j \in parts : FirstText(queue[j]) = x
    BY <2>4, <2>5, <2>9, <2>10, <2>11, <2>12
  <2>15. S # {} /\ S \subseteq DOMAIN Alphabet
    BY <2>2, <2>4, <2>5, <2>10
  <2>16. /\ state = "COMPLETING" <=> "COMPLETING" \in S
         /\ state = "PENDING" <=>
              "PENDING" \in S /\ "RUNNING" \notin S /\ "COMPLETING" \notin S
    BY <2>6, <2>15, CombinedStateValue
  <2>17. Matches(key) = {r \in resv : r[2] = key}
    <3>1. allocations \subseteq resv
      BY DEF InspectionInv, AllocationsRead
    <3>2. \A a \in resv : a[1] \in Services
      BY DEF InspectionInv
    <3>3. resv \subseteq allocations
      BY <3>2 DEF InspectionInv, AllocationsRead
    <3>4. key[1] # ""
      BY <2>3, InspectionAssumption
    <3> QED
      BY <3>1, <3>3, <3>4, MatchesValue
  <2>18. PICK standings : standings = {a[3] : a \in Matches(key)}
    OBVIOUS
  <2>19. Matches(key) = {} <=> standings = {}
    BY <2>18
  <2>20. row.qstate = IF standings = {}
                      THEN IF state = "PENDING" THEN {"EVALUATING"} ELSE {"UNAVAILABLE"}
                      ELSE IF state = "COMPLETING" THEN {"RELEASING"}
                           ELSE IF standings \subseteq Live
                                THEN IF state = "PENDING" THEN {"ACCEPTED"} ELSE {"ACTIVE"}
                                ELSE standings
    <3>1. /\ Matches(key) = {} => QuantumState(state, Matches(key)) =
                IF state = "PENDING" THEN {"EVALUATING"} ELSE {"UNAVAILABLE"}
          /\ Matches(key) # {} => QuantumState(state, Matches(key)) =
                IF state = "COMPLETING" THEN {"RELEASING"}
                ELSE IF standings \subseteq Live
                     THEN IF state = "PENDING" THEN {"ACCEPTED"} ELSE {"ACTIVE"}
                     ELSE standings
      BY <2>18, QuantumStateValue, Zenon
    <3> QED
      BY <2>7, <2>19, <3>1, Zenon
  <2>21. standings = Shown(id)
    BY <2>3, <2>17, <2>18
  <2>22. /\ state = "COMPLETING" <=> Some(id, "COMPLETING")
         /\ state = "PENDING" <=> Pending(id)
    BY <2>9, <2>14, <2>16
  <2>23. row.components = Parts(id) /\ row.key[2] = id
    BY <2>8, <2>9, <2>13
  <2> HIDE DEF Parts, Some, Pending, Shown
  <2> QED
    BY <2>20, <2>21, <2>22, <2>23, Zenon
<1> QED
  BY <1>1, InspectionInvCorrect, PTL

\* What a row of qfw-sinfo comes from: each service of the merged list has one.
LEMMA ServiceRowsValue ==
  /\ \A m \in Merged : \E row \in ServiceRows :
       row.service = m.service /\ row.state = m.state
  /\ \A row \in ServiceRows : \E m \in Merged :
       row.service = m.service /\ row.state = m.state
<1>1. ASSUME NEW m \in Merged
      PROVE  \E row \in ServiceRows : row.service = m.service /\ row.state = m.state
  <2> DEFINE RowsOf(n) == {[service |-> n.service, state |-> n.state, host |-> h] :
                             h \in IF n.hosts = {} THEN {"-"} ELSE n.hosts}
  <2>1. PICK h : h \in IF m.hosts = {} THEN {"-"} ELSE m.hosts
    OBVIOUS
  <2>2. PICK row : row = [service |-> m.service, state |-> m.state, host |-> h]
    OBVIOUS
  <2>3. row \in RowsOf(m)
    BY <2>1, <2>2
  <2>4. ServiceRows = UNION {RowsOf(n) : n \in Merged}
    BY DEF ServiceRows
  <2> HIDE DEF RowsOf
  <2>5. row \in ServiceRows
    BY <2>3, <2>4
  <2> QED
    BY <2>2, <2>5
<1>2. ASSUME NEW row \in ServiceRows
      PROVE  \E m \in Merged : row.service = m.service /\ row.state = m.state
  BY DEF ServiceRows
<1> QED
  BY <1>1, <1>2

\* qfw-sinfo lists every service that is configured or stayed registered, shows none
\* up that never was ready, and shows up what stayed registered and ready (services,
\* _merge_configured_services, _rows).
THEOREM SinfoCorrect ==
  Spec => []ServicesListed
<1>1. InspectionInv => ServicesListed
  <2> SUFFICES ASSUME InspectionInv, pc = "done", command = "sinfo"
               PROVE  LET shown == {row.service : row \in ServiceRows}
                          up == {row.service : row \in {r \in ServiceRows : r.state = "UP"}}
                      IN  /\ Configured \subseteq shown
                          /\ ~ failed => always.registered \subseteq shown
                          /\ up \subseteq ever.ready
                          /\ ~ failed => always.registered \cap always.ready \subseteq up
    BY DEF ServicesListed, Printed
  <2>1. /\ summaries \subseteq Merged
        /\ \A s \in Configured : \E m \in Merged : m.service = s
        /\ \A m \in Merged : m.state = "UP" => m \in summaries
    <3> DEFINE Down(s) == [service |-> s, hosts |-> Hosts[s], state |-> "DOWN"]
    <3>1. \A s : Down(s).service = s /\ Down(s).state = "DOWN"
      OBVIOUS
    <3>2. Merged = summaries \cup
            {Down(s) : s \in Configured \ {row.service : row \in summaries}}
      BY DEF Merged
    <3> HIDE DEF Down
    <3> QED
      BY <3>1, <3>2
  <2>2. \A m \in summaries : m.state = "UP" => m.service \in ever.ready
    BY DEF InspectionInv, SummariesRead
  <2>3. ~ failed => \A s \in always.registered : \E m \in summaries :
          m.service = s /\ (s \in always.ready => m.state = "UP")
    BY DEF InspectionInv, SummariesRead
  <2>4. \A s \in Configured : \E row \in ServiceRows : row.service = s
    BY <2>1, ServiceRowsValue
  <2>5. \A row \in ServiceRows : row.state = "UP" => row.service \in ever.ready
    BY <2>1, <2>2, ServiceRowsValue
  <2>6. ~ failed => \A s \in always.registered : \E row \in ServiceRows :
          row.service = s /\ (s \in always.ready => row.state = "UP")
    BY <2>1, <2>3, ServiceRowsValue
  <2> QED
    BY <2>4, <2>5, <2>6
<1> QED
  BY <1>1, InspectionInvCorrect, PTL
=============================================================================
