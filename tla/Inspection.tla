----------------------------- MODULE Inspection -----------------------------
(***************************************************************************)
(* The inspection commands, qfw-squeue and qfw-sinfo: each reads Slurm     *)
(* once, asks the directory for the QPMs, asks the QPMs one after the      *)
(* other, and joins the answers.  Nothing holds the world still meanwhile: *)
(* jobs, reservations and QPMs change between two reads, and a source may  *)
(* fail at any of them.                                                    *)
(***************************************************************************)
EXTENDS Naturals, Sequences, FiniteSets

CONSTANTS
  JobIds,      \* ids of jobs of this cluster
  JobStates,   \* what squeue may give as a job's job_state: a list of names
  Alphabet,    \* [state names -> Nat]: the place of each in the alphabet
  Cluster,     \* the name of this cluster
  Keys,        \* the <<cluster, canonical job>> pairs that may hold reservations
  Standings,   \* the states that a QPM may give an allocation
  Services,    \* the QPM service ids
  Hosts,       \* [Services -> SUBSET of host names]: the nodes with feature qpm-s
  Manifest,    \* the services in the manifest of the site configuration
  Queues,      \* the queues a command may find
  Reserved,    \* the allocations of QPMs that a command may find
  MaxEvents    \* bound on what changes during one command

\* The names in the job_state lists have an order, as texts do.
ASSUME NamesAssumption ==
  /\ Alphabet \in [DOMAIN Alphabet -> Nat]
  /\ \A S \in SUBSET DOMAIN Alphabet :
       S # {} => \E s \in S : \A t \in S : Alphabet[s] <= Alphabet[t]
  /\ "UNKNOWN" \in DOMAIN Alphabet
  /\ JobStates \subseteq Seq(DOMAIN Alphabet)

ASSUME InspectionAssumption ==
  /\ JobIds \subseteq Nat \ {0}
  /\ Cluster # ""
  /\ \A k \in Keys : k = <<k[1], k[2]>> /\ k[2] \in Nat
  /\ Manifest \subseteq Services
  /\ \A q \in Queues : /\ DOMAIN q \subseteq JobIds
                        /\ \A j \in DOMAIN q : q[j] \in JobStates
  /\ Reserved \subseteq SUBSET (Services \X Keys \X Standings)
  /\ MaxEvents \in Nat

VARIABLES
  \* The world
  queue,       \* squeue: the job_state of each job that is queued
  leader,      \* the heterogeneous leader of each job, 0 for an ordinary one
  named,       \* does squeue's JSON name the cluster
  resv,        \* <<service, key, standing>>: the allocations that QPMs hold
  status,      \* the state of each QPM
  registered,  \* the QPMs the directory lists
  site,        \* can the site configuration and its manifest be read
  events,      \* the changes so far
  \* The command
  command, pc,
  jobs,        \* the jobs read from Slurm
  nodes,       \* were the nodes read
  asking,      \* the QPMs still to be asked
  allocations, \* the allocations read
  summaries,   \* the services read, each with the state it gave
  failed,      \* was an error recorded
  \* What was so during the command: at each moment, and at some moment
  always, ever

world == <<queue, leader, named, resv, status, registered, site, events>>
reading == <<command, jobs, nodes, asking, allocations, summaries, failed>>
vars == <<world, reading, pc, always, ever>>

\* ready: ready, in a state such as IDLE or BUSY; stateless: ready, in state DOWN or
\* in none; unready: not ready; maint: state MAINT; down: no answer.
QpmStates == {"ready", "stateless", "unready", "maint", "down"}

\* The reservations behind some allocations.
Held(A) == {<<a[1], a[2]>> : a \in A}

\* The facts that the commands report on.
Facts ==
  [queued |-> DOMAIN queue, resv |-> Held(resv),
   registered |-> registered, ready |-> {s \in Services : status[s] = "ready"}]

TypeOK ==
  /\ DOMAIN queue \subseteq JobIds
  /\ \A j \in DOMAIN queue : queue[j] \in JobStates
  /\ leader \in [JobIds -> JobIds \cup {0}]
  /\ named \in BOOLEAN
  /\ resv \subseteq Services \X Keys \X Standings
  /\ status \in [Services -> QpmStates]
  /\ registered \subseteq Services
  /\ site \in BOOLEAN
  /\ events \in 0..MaxEvents
  /\ command \in {"squeue", "sinfo"}
  /\ pc \in {"slurm", "directory", "qpm", "done"}
  /\ \A job \in jobs : job.id \in JobIds /\ job.state \in DOMAIN Alphabet
  /\ nodes \in BOOLEAN /\ failed \in BOOLEAN
  /\ asking \subseteq Services
  /\ allocations \subseteq Services \X Keys \X Standings
  /\ \A row \in summaries : row.service \in Services

Init ==
  /\ command \in {"squeue", "sinfo"}
  /\ pc = "slurm"
  /\ queue \in Queues
  /\ leader \in {[j \in JobIds |-> 0], [j \in JobIds |-> CHOOSE k \in JobIds :
                                          \A i \in JobIds : k <= i]}
  /\ named \in BOOLEAN
  /\ resv \in Reserved
  /\ status \in [Services -> QpmStates]
  /\ command = "squeue" => \A s \in Services : status[s] \in {"ready", "down"}
  /\ command = "sinfo" => named /\ resv = {} /\ DOMAIN queue = {}
  /\ registered \in SUBSET Services
  /\ command = "squeue" => registered = Services
  /\ site \in BOOLEAN
  /\ command = "squeue" => site
  /\ events = 0
  /\ jobs = {} /\ nodes = FALSE /\ asking = {}
  /\ allocations = {} /\ summaries = {} /\ failed = FALSE
  /\ always = Facts /\ ever = Facts

-----------------------------------------------------------------------------
(* The world (external) changes while a command runs.                      *)

Meet(a, b) == [f \in DOMAIN a |-> a[f] \cap b[f]]
Join(a, b) == [f \in DOMAIN a |-> a[f] \cup b[f]]

Event ==
  /\ pc # "done"
  /\ events < MaxEvents
  /\ events' = events + 1
  /\ always' = Meet(always, Facts')
  /\ ever' = Join(ever, Facts')
  /\ UNCHANGED <<leader, named, site, reading, pc>>

JobChanges(j) ==
  /\ command = "squeue"
  /\ \/ queue' = [i \in DOMAIN queue \ {j} |-> queue[i]]
     \/ \E state \in JobStates :
          queue' = [i \in DOMAIN queue \cup {j} |-> IF i = j THEN state ELSE queue[i]]
  /\ UNCHANGED <<resv, status, registered>>
  /\ Event

ReservationChanges(s, k) ==
  /\ command = "squeue"
  /\ LET others == {a \in resv : <<a[1], a[2]>> # <<s, k>>}
     IN  \/ resv' = others
         \/ \E standing \in Standings : resv' = others \cup {<<s, k, standing>>}
  /\ UNCHANGED <<queue, status, registered>>
  /\ Event

QpmChanges(s) ==
  /\ \E state \in {"ready", "down"} \ {status[s]} :
       status' = [status EXCEPT ![s] = state]
  /\ UNCHANGED <<queue, resv, registered>>
  /\ Event

DirectoryChanges(s) ==
  /\ registered' = IF s \in registered THEN registered \ {s}
                                       ELSE registered \cup {s}
  /\ UNCHANGED <<queue, resv, status>>
  /\ Event

-----------------------------------------------------------------------------
(* Reading.                                                                *)

\* _first_text: the first of the names that Slurm lists, whatever follows it.
FirstText(list) == IF list = <<>> THEN "UNKNOWN" ELSE list[1]

\* _job: the record of a job, with the id of its leader or none, the first of its
\* states, and the name of its cluster or none.
JobRead(j) ==
  [id |-> j, leader |-> leader[j], state |-> FirstText(queue[j]),
   cluster |-> IF named THEN Cluster ELSE ""]

\* SlurmJsonClient.jobs or nodes.  A failure is recorded, and the command goes on.
ReadSlurm ==
  /\ pc = "slurm"
  /\ pc' = "directory"
  /\ \/ /\ jobs' = {JobRead(j) : j \in Facts.queued}
        /\ nodes' = TRUE
        /\ UNCHANGED failed
     \/ /\ failed' = TRUE
        /\ UNCHANGED <<jobs, nodes>>
  /\ UNCHANGED <<world, command, asking, allocations, summaries, always, ever>>

\* QPMInspectionClient.connect and _records.
ReadDirectory ==
  /\ pc = "directory"
  /\ \/ /\ asking' = registered
        /\ pc' = IF registered = {} THEN "done" ELSE "qpm"
        /\ UNCHANGED failed
     \/ /\ failed' = TRUE
        /\ pc' = "done"
        /\ UNCHANGED asking
  /\ UNCHANGED <<world, command, jobs, nodes, allocations, summaries, always, ever>>

\* The next QPM has been asked.
Asked(s) ==
  /\ asking' = asking \ {s}
  /\ pc' = IF asking = {s} THEN "done" ELSE "qpm"

\* Mutant of AskTelemetry: a QPM that fails is passed over.
AskTelemetryQuietly(s) ==
  /\ pc = "qpm" /\ command = "squeue" /\ s \in asking
  /\ Asked(s)
  /\ allocations' = IF status[s] = "down" THEN allocations
                    ELSE allocations \cup {a \in resv : a[1] = s}
  /\ UNCHANGED <<world, command, jobs, nodes, summaries, failed, always, ever>>

\* One turn of allocations: the QPM answers, or its failure is recorded.
AskTelemetry(s) ==
  /\ pc = "qpm" /\ command = "squeue" /\ s \in asking
  /\ Asked(s)
  /\ IF status[s] = "down"
     THEN failed' = TRUE /\ UNCHANGED allocations
     ELSE /\ allocations' = allocations \cup {a \in resv : a[1] = s}
          /\ UNCHANGED failed
  /\ UNCHANGED <<world, command, jobs, nodes, summaries, always, ever>>

\* A malformed allocation, or a directory record without its service, ends the
\* reading, and what was read is dropped.
Malformed(s) ==
  /\ pc = "qpm" /\ s \in asking
  /\ asking' = {} /\ pc' = "done"
  /\ allocations' = {} /\ summaries' = {}
  /\ failed' = TRUE
  /\ UNCHANGED <<world, command, jobs, nodes, always, ever>>

\* _service, or _unavailable_service, which knows no hosts; and the state that
\* _rows shows: "UP" for that of a ready QPM, which is DOWN where it gives none.
Summary(s) ==
  [service |-> s, hosts |-> IF status[s] = "down" THEN {} ELSE Hosts[s],
   state |-> CASE status[s] = "ready" -> "UP"
               [] status[s] = "maint" -> "MAINT"
               [] OTHER               -> "DOWN"]

\* One turn of services.
AskSummary(s) ==
  /\ pc = "qpm" /\ command = "sinfo" /\ s \in asking
  /\ Asked(s)
  /\ summaries' = summaries \cup {Summary(s)}
  /\ UNCHANGED <<world, command, jobs, nodes, allocations, failed, always, ever>>

Finish == pc = "done" /\ UNCHANGED vars

Next ==
  \/ \E j \in JobIds : JobChanges(j)
  \/ \E s \in Services, k \in Keys : ReservationChanges(s, k)
  \/ \E s \in Services : QpmChanges(s)
  \/ \E s \in Services : DirectoryChanges(s)
  \/ ReadSlurm
  \/ ReadDirectory
  \/ \E s \in Services : AskTelemetry(s)
  \/ \E s \in Services : Malformed(s)
  \/ \E s \in Services : AskSummary(s)
  \/ Finish

Spec == Init /\ [][Next]_vars

-----------------------------------------------------------------------------
(* qfw-squeue: correlate.                                                  *)

CanonicalJobId(job) == IF job.leader # 0 THEN job.leader ELSE job.id

\* The keys under which jobs and allocations meet.
JobKey(job) == <<job.cluster, CanonicalJobId(job)>>

\* Mutant of Matches: allocations are joined by job id.
MatchesById(key) == {a \in allocations : a[2][2] = key[2]}

\* The allocations of a group of jobs.  Where the cluster is not known, those of
\* the only cluster that has some for this id.
Matches(key) ==
  LET exact == {a \in allocations : a[2] = key}
      byId  == {a \in allocations : a[2][2] = key[2]}
  IN  IF exact # {} \/ key[1] # "" THEN exact
      ELSE IF Cardinality({a[2] : a \in byId}) = 1 THEN byId ELSE {}

Priority == <<"COMPLETING", "RUNNING", "PENDING", "SUSPENDED", "CONFIGURING">>

\* Mutant of CombinedState: a pending component goes before a running one.
CombinedStatePending(states) ==
  IF "PENDING" \in states THEN "PENDING"
  ELSE IF "COMPLETING" \in states THEN "COMPLETING" ELSE "RUNNING"

\* _combined_slurm_state: by priority, else the first in the alphabet.
CombinedState(states) ==
  LET present == {i \in 1..5 : Priority[i] \in states}
  IN  IF present # {} THEN Priority[CHOOSE i \in present : \A k \in present : i <= k]
      ELSE IF states # {}
           THEN CHOOSE s \in states : \A t \in states : Alphabet[s] <= Alphabet[t]
           ELSE "UNKNOWN"

\* The states of allocations that _quantum_state takes for live.
Live == {"ACTIVE", "ACCEPTED"}

\* _quantum_state, as the set of the names that are printed, sorted and joined.
QuantumState(state, matches) ==
  LET standings == {a[3] : a \in matches}
      live == standings \subseteq Live
  IN  CASE matches = {} /\ state = "PENDING" -> {"EVALUATING"}
        [] matches = {} /\ state # "PENDING" -> {"UNAVAILABLE"}
        [] matches # {} /\ state = "COMPLETING" -> {"RELEASING"}
        [] matches # {} /\ state = "PENDING" /\ live -> {"ACCEPTED"}
        [] matches # {} /\ state \notin {"PENDING", "COMPLETING"} /\ live -> {"ACTIVE"}
        [] OTHER -> standings

JobRow(key) ==
  LET components == {job \in jobs : JobKey(job) = key}
      state == CombinedState({job.state : job \in components})
  IN  [key |-> key, components |-> {job.id : job \in components}, state |-> state,
       matches |-> Matches(key), qstate |-> QuantumState(state, Matches(key))]

JobRows == {JobRow(JobKey(job)) : job \in jobs}

-----------------------------------------------------------------------------
(* qfw-sinfo: _configured_services, _merge_configured_services, _rows.     *)

FromNodes == IF nodes THEN {s \in Services : Hosts[s] # {}} ELSE {}

\* The services that should be there: from the node features or, when they name
\* none, from the manifest, if it can be read.
Configured == IF FromNodes # {} \/ ~ site THEN FromNodes ELSE Manifest

\* Mutant of Merged: the configured services stand in only for an empty directory.
MergedIfNone ==
  IF summaries # {} THEN summaries
  ELSE {[service |-> s, hosts |-> Hosts[s], state |-> "DOWN"] : s \in Configured}

Merged ==
  summaries \cup
    {[service |-> s, hosts |-> Hosts[s], state |-> "DOWN"] :
       s \in Configured \ {row.service : row \in summaries}}

ServiceRows ==
  UNION {{[service |-> m.service, state |-> m.state, host |-> h] :
            h \in IF m.hosts = {} THEN {"-"} ELSE m.hosts} : m \in Merged}

-----------------------------------------------------------------------------
(* Properties.                                                             *)

Printed(c) == pc = "done" /\ command = c

\* What exit status 0 of qfw-squeue promises, "complete output", where the queue's
\* JSON names its cluster (else Matches joins by id alone): each reservation that was
\* held all the while for a job that was queued all the while is in the row of that
\* job (main, allocations, correlate).
SqueueComplete ==
  Printed("squeue") /\ ~ failed =>
    \A r \in always.resv :
      /\ r[1] \in always.registered
      /\ r[2][1] = Cluster /\ named
      => \A j \in always.queued :
           r[2][2] = (IF leader[j] # 0 THEN leader[j] ELSE j) =>
             \E row \in JobRows : j \in row.components /\ r \in Held(row.matches)

\* A row shows only reservations that were held at some moment of the command, all
\* of one allocation, and of the cluster the row names (correlate).
RowIsOneAllocation ==
  Printed("squeue") =>
    \A row \in JobRows :
      /\ Held(row.matches) \subseteq ever.resv
      /\ Cardinality({a[2] : a \in row.matches}) <= 1
      /\ row.key[1] # "" => {a[2] : a \in row.matches} \subseteq {row.key}

\* Where nothing changed and nothing failed, the row of a job is about all of its
\* components that are queued, and shows the quantum state that the manual gives for
\* the job: RELEASING for one that completes and is reserved, EVALUATING and ACCEPTED
\* for a pending one, ACTIVE and UNAVAILABLE for any other; where a QPM gives a state
\* that is not a live one, the states that the QPMs give.  What a component does is
\* the first state that Slurm lists for it, and a job is pending when one component
\* is and none runs or completes (correlate, _combined_slurm_state, _quantum_state).
QuietMatchesManual ==
  Printed("squeue") /\ ~ failed /\ events = 0 /\ named =>
    \A row \in JobRows :
      LET parts == {j \in DOMAIN queue :
                      row.key[2] = IF leader[j] # 0 THEN leader[j] ELSE j}
          some(state) == \E j \in parts : FirstText(queue[j]) = state
          pending   == some("PENDING") /\ ~ some("RUNNING") /\ ~ some("COMPLETING")
          standings == {a[3] : a \in {r \in resv : r[2] = <<Cluster, row.key[2]>>}}
          shown     == row.qstate
      IN  /\ row.components = parts
          /\ standings # {} /\ some("COMPLETING") => shown = {"RELEASING"}
          /\ standings = {} /\ pending   => shown = {"EVALUATING"}
          /\ standings = {} /\ ~ pending => shown = {"UNAVAILABLE"}
          /\ standings # {} /\ ~ some("COMPLETING") =>
               IF standings \subseteq Live
               THEN shown = IF pending THEN {"ACCEPTED"} ELSE {"ACTIVE"}
               ELSE shown = standings

\* qfw-sinfo lists each service that is configured or was registered all the
\* while; none is shown up that was ready at no moment of the command, and one
\* that was registered and ready all the while is shown up (services,
\* _merge_configured_services, _rows).
ServicesListed ==
  Printed("sinfo") =>
    LET shown == {row.service : row \in ServiceRows}
        up    == {row.service : row \in {r \in ServiceRows : r.state = "UP"}}
    IN  /\ Configured \subseteq shown
        /\ ~ failed => always.registered \subseteq shown
        /\ up \subseteq ever.ready
        /\ ~ failed => always.registered \cap always.ready \subseteq up
=============================================================================
