--------------------------- MODULE IdentityProofs ---------------------------
(***************************************************************************)
(* The safety properties of Identity, for any number of job ids, users,    *)
(* requests and handlers, and any states in which Slurm ends a job.        *)
(***************************************************************************)
EXTENDS Identity, Integers, TLAPS

JobRecord ==
  [job : 0..MaxJobs, user : Users \cup {NoUser},
   state : ReserveStates \cup EndStates \cup {"none"},
   leader : JobIds \cup {0}, offset : {0, 1}]
Reservation == [job : 0..MaxJobs, user : Users \cup {NoUser}, lost : BOOLEAN]
Allocation ==
  [state : {"none", "reserving", "accepted", "rolled-back", "released",
            "release-incomplete"},
   user : Users \cup {NoUser}, named : Reservation]
StrayCall ==
  [op : {"reserve", "release"}, id : JobIds, sender : Users \cup Trusted \cup {Root},
   res : Reservation]
HandlerRecord ==
  [pc : {"idle", "query", "leader", "read", "allocate", "reserve", "release",
         "settle"},
   req : Requests \cup {NoUser}, owner : Users \cup {NoUser},
   canonical : JobIds \cup {0}, seen : JobRecord, calm : BOOLEAN,
   released : BOOLEAN]

TypeInv ==
  /\ table \in [JobIds -> JobRecord]
  /\ jobs \in 0..MaxJobs
  /\ alloc \in [JobIds -> Allocation]
  /\ held \in [JobIds -> Reservation]
  /\ stray \in SUBSET StrayCall
  /\ handler \in [Procs -> HandlerRecord]
  /\ torn \in SUBSET (1..MaxJobs)

-----------------------------------------------------------------------------
(* What is known of one handler.                                           *)

\* The id that a job record makes canonical.
LeaderOf(record, id) == IF record.leader = 0 THEN id ELSE record.leader

\* Its label and its request agree, and so do the record it has verified and its
\* request.
Progress(h) ==
  /\ h.pc = "idle" => h = Idle
  /\ h.pc # "idle" => h.req \in Requests
  /\ h.pc = "query" => h.seen = NoJob
  /\ h.pc # "settle" => ~ h.released
  /\ h.pc \in {"leader", "read"} => h.req.op = "lookup"
  /\ h.pc \in {"allocate", "reserve"}
       => h.req.op = "reserve" /\ h.seen.user = h.req.user
  /\ h.pc \in {"release", "settle"} => h.req.op = "release"
  /\ h.pc = "leader" => /\ h.canonical = LeaderOf(h.seen, h.req.id)
                        /\ h.canonical # h.req.id
  /\ h.pc = "read"
       => /\ h.canonical \in JobIds
          /\ h.seen.user = h.req.user
          /\ SenderIsTrusted(h.req.sender, h.seen.user)
          /\ h.canonical = h.req.id => h.seen.leader \in {0, h.req.id}

\* What it relies on in the journal and at the QPM stays so.
Relies(h) ==
  LET c == h.req.id
  IN  /\ h.pc = "reserve"
           => /\ alloc[c].state = "reserving" /\ alloc[c].user = h.req.user
              /\ alloc[c].named = NoReservation /\ held[c] = NoReservation
      /\ h.pc = "query" /\ h.req.op = "release" => h.owner = alloc[c].user
      /\ h.pc = "release" /\ alloc[c].named # NoReservation
           => SenderIsTrusted(h.req.sender, alloc[c].named.user)
      /\ h.pc = "settle" /\ h.released => held[c] = NoReservation \/ held[c].lost

HandlerInv == \A p \in Procs : Progress(handler[p]) /\ Relies(handler[p])

\* Requests that name one id are handled one after the other.
LockInv ==
  \A p, q \in Procs :
    p # q /\ handler[p].pc # "idle" /\ handler[q].pc # "idle"
      => handler[p].req.id # handler[q].req.id

\* The journal keeps the user of an allocation, and has one for each reservation.
\* It names the reservation, unless the handler that made it was cancelled.
JournalInv ==
  \A c \in JobIds :
    /\ alloc[c].state = "none" => alloc[c].user = NoUser
    /\ alloc[c].state \in {"none", "rolled-back"}
         => alloc[c].named = NoReservation /\ held[c] = NoReservation
    /\ alloc[c].named # NoReservation
         => /\ alloc[c].named.user = alloc[c].user /\ alloc[c].user # NoUser
            /\ ~ alloc[c].named.lost
    /\ held[c] # NoReservation
         => /\ alloc[c].user = held[c].user
            /\ IF held[c].lost THEN alloc[c].named = NoReservation
                               ELSE alloc[c].named = held[c]

\* The threads that cancelled handlers left: a reserve whose allocation nobody
\* reserves for again, and releases with a right to what they release.
StrayInv ==
  /\ \A s \in stray :
       /\ s.op = "reserve"
            => /\ s.res.lost /\ s.res.user = alloc[s.id].user
               /\ alloc[s.id].state \notin {"none", "rolled-back"}
               /\ alloc[s.id].named = NoReservation /\ held[s.id] = NoReservation
               /\ \A p \in Procs : handler[p].pc = "reserve" => handler[p].req.id # s.id
       /\ s.op = "release" => ~ s.res.lost /\ SenderIsTrusted(s.sender, s.res.user)
  /\ \A s, z \in stray :
       s.op = "reserve" /\ z.op = "reserve" /\ s.id = z.id => s = z

-----------------------------------------------------------------------------
(* Job numbers.  Whatever speaks of the job of a number speaks of the job  *)
(* that was submitted with it: book has its id, its user and its leader.   *)

Books ==
  [1..MaxJobs -> [id : JobIds \cup {0}, user : Users \cup {NoUser},
                  leader : JobIds \cup {0}]]

Entered(book, record, id) ==
  /\ record.job \in 1..jobs /\ record.user \in Users
  /\ book[record.job] = [id |-> id, user |-> record.user, leader |-> record.leader]

BookOf(h, book) ==
  /\ h.pc \in {"leader", "allocate", "reserve", "release", "settle"}
       => Entered(book, h.seen, h.req.id)
  /\ h.pc = "read" => Entered(book, h.seen, h.canonical)

IsBook(book) ==
  /\ \A j \in JobIds : table[j] # NoJob => Entered(book, table[j], j)
  /\ \A c \in JobIds :
       held[c] # NoReservation /\ ~ held[c].lost
         => held[c].job \in 1..jobs /\ book[held[c].job].id = c
  /\ \A p \in Procs : BookOf(handler[p], book)

BookInv == \E book \in Books : IsBook(book)

\* A job that has ended does not come back, and once its release is carried out
\* nobody is about to reserve for it.
EndedJob(n) == \A j \in JobIds : table[j].job = n => table[j].state \in EndStates

TornInv ==
  /\ torn \subseteq 1..jobs
  /\ \A n \in torn :
       /\ EndedJob(n)
       /\ \A c \in JobIds : held[c].lost \/ held[c].job # n
       /\ \A p \in Procs :
            handler[p].pc \in {"allocate", "reserve"} => handler[p].seen.job # n
  /\ \A p \in Procs :
       handler[p].pc \in {"release", "settle"} /\ handler[p].seen.state \in EndStates
         => EndedJob(handler[p].seen.job)

Inv ==
  TypeInv /\ HandlerInv /\ LockInv /\ JournalInv /\ StrayInv /\ BookInv /\ TornInv

\* No job, no request, no reservation.
LEMMA InitInv == Init => Inv
<1> SUFFICES ASSUME Init PROVE Inv
  OBVIOUS
<1> USE IdentityAssumption DEF Init, Idle, NoJob, NoAllocation, NoReservation
<1>1. TypeInv
  BY DEF TypeInv, JobRecord, Allocation, Reservation, HandlerRecord, StrayCall
<1>2. HandlerInv
  BY DEF HandlerInv, Progress, Relies
<1>3. LockInv /\ JournalInv /\ StrayInv /\ TornInv
  BY DEF LockInv, JournalInv, StrayInv, TornInv
<1>4. BookInv
  <2> DEFINE book == [n \in 1..MaxJobs |-> [id |-> 0, user |-> NoUser, leader |-> 0]]
  <2>1. book \in Books
    BY DEF Books
  <2>2. IsBook(book)
    BY DEF IsBook, BookOf
  <2> QED
    BY <2>1, <2>2 DEF BookInv
<1> QED
  BY <1>1, <1>2, <1>3, <1>4 DEF Inv

-----------------------------------------------------------------------------
(* slurmctld.                                                              *)

\* Submit and SubmitHetero add jobs with new numbers to ids that are free.
Submitted(new, n) ==
  /\ jobs' = jobs + n
  /\ jobs' <= MaxJobs
  /\ \A j \in JobIds :
       \/ table'[j] = table[j]
       \/ table[j] = NoJob /\ table'[j] = new[j]
  /\ new \in [JobIds -> JobRecord]
  /\ \A j \in JobIds :
       table'[j] # table[j] => new[j].job \in (jobs + 1)..jobs' /\ new[j].user \in Users
  /\ \A j, k \in JobIds :
       table'[j] # table[j] /\ table'[k] # table[k] /\ new[j].job = new[k].job => j = k

\* Jobs are submitted: each gets an entry of its own in the book of all jobs.
LEMMA SubmitStep ==
  ASSUME Inv, NEW new, NEW n \in Nat, Submitted(new, n),
         table' \in [JobIds -> JobRecord],
         UNCHANGED <<alloc, held, stray, handler, torn>>
  PROVE  Inv'
<1>1. TypeInv'
  BY DEF Inv, TypeInv, Submitted
<1>2. HandlerInv' /\ LockInv' /\ JournalInv' /\ StrayInv'
  BY DEF Inv, HandlerInv, Relies, LockInv, JournalInv, StrayInv
<1>3. BookInv'
  <2>1. PICK book \in Books : IsBook(book)
    BY DEF Inv, BookInv
  <2> DEFINE fresh(m) == {j \in JobIds : table'[j] # table[j] /\ new[j].job = m}
             entry(m) == IF \E j \in JobIds : j \in fresh(m)
                         THEN LET j == CHOOSE k \in JobIds : k \in fresh(m)
                              IN  [id |-> j, user |-> new[j].user, leader |-> new[j].leader]
                         ELSE book[m]
             book2 == [m \in 1..MaxJobs |-> entry(m)]
  <2>2. book2 \in Books
    <3>1. ASSUME NEW m \in 1..MaxJobs
          PROVE  entry(m) \in [id : JobIds \cup {0}, user : Users \cup {NoUser},
                               leader : JobIds \cup {0}]
      <4>1. CASE \E j \in JobIds : j \in fresh(m)
        <5>1. PICK j \in JobIds : j = CHOOSE k \in JobIds : k \in fresh(m)
          BY <4>1
        <5>2. entry(m) = [id |-> j, user |-> new[j].user, leader |-> new[j].leader]
          BY <4>1, <5>1
        <5> HIDE DEF entry
        <5> QED
          BY <5>2 DEF Submitted, JobRecord
      <4>2. CASE ~ \E j \in JobIds : j \in fresh(m)
        <5>1. entry(m) = book[m]
          BY <4>2
        <5> HIDE DEF entry
        <5> QED
          BY <5>1 DEF Books
      <4> QED
        BY <4>1, <4>2
    <3> HIDE DEF entry
    <3> QED
      BY <3>1 DEF Books
  <2>3. \A m \in 1..jobs : m \in 1..MaxJobs /\ book2[m] = book[m]
    <3>1. \A m \in 1..jobs : fresh(m) = {}
      BY DEF Submitted, Inv, TypeInv, JobRecord
    <3> QED
      BY <3>1, IdentityAssumption DEF Inv, TypeInv
  <2>4. ASSUME NEW j \in JobIds, table'[j] # table[j]
        PROVE  book2[new[j].job] = [id |-> j, user |-> new[j].user, leader |-> new[j].leader]
    <3> DEFINE m == new[j].job
    <3>1. m \in 1..MaxJobs
      BY <2>4, IdentityAssumption DEF Submitted, Inv, TypeInv
    <3>2. fresh(m) = {j}
      BY <2>4 DEF Submitted
    <3>3. j = CHOOSE k \in JobIds : k \in fresh(m)
      BY <3>2
    <3>4. entry(m) = [id |-> j, user |-> new[j].user, leader |-> new[j].leader]
      BY <3>2, <3>3
    <3> HIDE DEF entry
    <3> QED
      BY <3>1, <3>4
  <2>5. PICK b \in Books : b = book2
    BY <2>2
  <2>6. /\ \A m \in 1..jobs : b[m] = book[m]
        /\ \A j \in JobIds :
             table'[j] # table[j]
               => b[new[j].job] = [id |-> j, user |-> new[j].user, leader |-> new[j].leader]
    BY <2>3, <2>4, <2>5
  <2> HIDE DEF book2
  <2>7. 1..jobs \subseteq 1..jobs'
    BY DEF Submitted, Inv, TypeInv
  <2>8. ASSUME NEW record, NEW id, Entered(book, record, id)
        PROVE  Entered(b, record, id)'
    BY <2>6, <2>7, <2>8 DEF Entered
  <2>9. ASSUME NEW j \in JobIds, table'[j] # table[j] PROVE Entered(b, table[j], j)'
    <3>1. table'[j] = new[j] /\ new[j].job \in 1..jobs' /\ new[j].user \in Users
      BY <2>9 DEF Submitted, Inv, TypeInv
    <3> QED
      BY <2>6, <2>9, <3>1 DEF Entered
  <2>10. IsBook(b)'
    <3>1. ASSUME NEW j \in JobIds, table'[j] # NoJob PROVE Entered(b, table[j], j)'
      <4>1. CASE table'[j] = table[j]
        <5>1. PICK record : record = table[j]
          OBVIOUS
        <5>2. Entered(b, record, j)'
          BY <2>1, <2>8, <3>1, <4>1, <5>1 DEF IsBook
        <5> QED
          BY <4>1, <5>1, <5>2 DEF Entered
      <4> QED
        BY <2>9, <4>1
    <3>2. ASSUME NEW q \in Procs PROVE BookOf(handler[q], b)'
      <4>1. PICK h : h = handler[q]
        OBVIOUS
      <4>2. BookOf(h, book)
        BY <2>1, <4>1 DEF IsBook
      <4>3. BookOf(h, b)'
        BY <2>8, <4>2 DEF BookOf
      <4> QED
        BY <4>1, <4>3 DEF BookOf, Entered
    <3>3. ASSUME NEW c \in JobIds, held[c] # NoReservation, ~ held[c].lost
          PROVE  held[c].job \in 1..jobs' /\ b[held[c].job].id = c
      BY <2>1, <2>6, <2>7, <3>3 DEF IsBook
    <3> QED
      BY <3>1, <3>2, <3>3 DEF IsBook
  <2> QED
    BY <2>10 DEF BookInv
<1>4. TornInv'
  <2>1. \A m \in 1..jobs : EndedJob(m) => EndedJob(m)'
    BY DEF EndedJob, Submitted, Inv, TypeInv
  <2>2. torn \subseteq 1..jobs'
    BY DEF Inv, TornInv, Submitted, TypeInv
  <2>3. \A q \in Procs : handler[q].pc \in {"release", "settle"}
                           => handler[q].seen.job \in 1..jobs
    BY DEF Inv, BookInv, IsBook, BookOf, Entered
  <2> QED
    BY <2>1, <2>2, <2>3 DEF Inv, TornInv
<1> QED
  BY <1>1, <1>2, <1>3, <1>4 DEF Inv

\* A job in the table keeps what its number stands for, and ends only once; or it
\* is purged.
LEMMA EvolveStep ==
  ASSUME Inv, table' \in [JobIds -> JobRecord],
         \A j \in JobIds :
           \/ table'[j] = NoJob
           \/ /\ table[j] # NoJob
              /\ table'[j].job = table[j].job /\ table'[j].user = table[j].user
              /\ table'[j].leader = table[j].leader
              /\ table[j].state \in EndStates => table'[j].state \in EndStates,
         UNCHANGED <<jobs, alloc, held, stray, handler, torn>>
  PROVE  Inv'
<1>1. TypeInv'
  BY DEF Inv, TypeInv
<1>2. HandlerInv' /\ LockInv' /\ JournalInv' /\ StrayInv'
  BY DEF Inv, HandlerInv, Relies, LockInv, JournalInv, StrayInv
<1>3. BookInv'
  BY DEF Inv, BookInv, IsBook, BookOf, Entered
<1>4. TornInv'
  <2>1. \A m \in 1..jobs : EndedJob(m) => EndedJob(m)'
    BY DEF EndedJob, NoJob
  <2>2. \A q \in Procs : handler[q].pc \in {"release", "settle"}
                           => handler[q].seen.job \in 1..jobs
    BY DEF Inv, BookInv, IsBook, BookOf, Entered
  <2> QED
    BY <2>1, <2>2 DEF Inv, TornInv
<1> QED
  BY <1>1, <1>2, <1>3, <1>4 DEF Inv

\* Every step of slurmctld.
LEMMA SlurmStep ==
  ASSUME Inv,
         \/ \E j \in JobIds, u \in Users : Submit(j, u)
         \/ \E j, k \in JobIds, u \in Users : SubmitHetero(j, k, u)
         \/ \E j \in JobIds : JobEnds(j) \/ Purge(j)
  PROVE  Inv'
<1>0. jobs \in Nat /\ MaxJobs \in Nat
  BY IdentityAssumption DEF Inv, TypeInv
<1>1. ASSUME NEW j \in JobIds, NEW u \in Users, Submit(j, u) PROVE Inv'
  <2> DEFINE job == NewJob(jobs + 1, u, 0, 0)
             new == [table EXCEPT ![j] = job]
  <2>1. /\ table[j] = NoJob /\ jobs' = jobs + 1 /\ jobs' <= MaxJobs
        /\ table' = new
        /\ UNCHANGED <<alloc, held, stray, handler, torn>>
    BY <1>0, <1>1 DEF Submit
  <2>2. job \in JobRecord /\ job.job = jobs + 1 /\ job.user = u
    BY <1>0, <2>1 DEF NewJob, JobRecord, ReserveStates
  <2> HIDE DEF job
  <2>3. new \in [JobIds -> JobRecord]
    BY <2>2 DEF Inv, TypeInv
  <2>4. Submitted(table', 1)
    BY <1>0, <2>1, <2>2, <2>3 DEF Submitted, Inv, TypeInv
  <2>5. PICK later : later = table'
    OBVIOUS
  <2> QED
    BY <2>1, <2>3, <2>4, <2>5, SubmitStep
<1>2. ASSUME NEW j \in JobIds, NEW k \in JobIds, NEW u \in Users, SubmitHetero(j, k, u)
      PROVE  Inv'
  <2> DEFINE first == NewJob(jobs + 1, u, j, 0)
             second == NewJob(jobs + 2, u, j, 1)
             new == [table EXCEPT ![j] = first, ![k] = second]
  <2>1. /\ table[j] = NoJob /\ table[k] = NoJob /\ j # k
        /\ jobs' = jobs + 2 /\ jobs' <= MaxJobs
        /\ table' = new
        /\ UNCHANGED <<alloc, held, stray, handler, torn>>
    BY <1>0, <1>2, IdentityAssumption DEF SubmitHetero
  <2>2. /\ first \in JobRecord /\ first.job = jobs + 1 /\ first.user = u
        /\ second \in JobRecord /\ second.job = jobs + 2 /\ second.user = u
    BY <1>0, <2>1 DEF NewJob, JobRecord, ReserveStates
  <2> HIDE DEF first, second
  <2>3. new \in [JobIds -> JobRecord]
    BY <2>2 DEF Inv, TypeInv
  <2>4. Submitted(table', 2)
    BY <1>0, <2>1, <2>2, <2>3 DEF Submitted, Inv, TypeInv
  <2>5. PICK later : later = table'
    OBVIOUS
  <2> QED
    BY <2>1, <2>3, <2>4, <2>5, SubmitStep
<1>3. ASSUME NEW j \in JobIds, JobEnds(j) PROVE Inv'
  <2>1. PICK state \in ReserveStates \cup EndStates :
          /\ table' = [table EXCEPT ![j].state = state]
          /\ table[j].state \in ReserveStates
          /\ UNCHANGED <<jobs, alloc, held, stray, handler, torn>>
    BY <1>3 DEF JobEnds, ReserveStates
  <2>2. table' \in [JobIds -> JobRecord]
    BY <2>1 DEF Inv, TypeInv, JobRecord
  <2>3. table[j] # NoJob /\ table[j].state \notin EndStates
    BY <2>1, IdentityAssumption DEF NoJob, ReserveStates
  <2>4. ASSUME NEW k \in JobIds, table[k] # NoJob
        PROVE  /\ table'[k].job = table[k].job /\ table'[k].user = table[k].user
               /\ table'[k].leader = table[k].leader
               /\ table[k].state \in EndStates => table'[k].state \in EndStates
    BY <2>1, <2>3 DEF Inv, TypeInv, JobRecord
  <2>5. ASSUME NEW k \in JobIds, table[k] = NoJob PROVE table'[k] = NoJob
    BY <2>1, <2>3, <2>5 DEF Inv, TypeInv
  <2> QED
    BY <2>1, <2>2, <2>4, <2>5, EvolveStep
<1>4. ASSUME NEW j \in JobIds, Purge(j) PROVE Inv'
  <2>1. /\ \A k \in JobIds : table'[k] \in {NoJob, table[k]}
        /\ table' \in [JobIds -> JobRecord]
        /\ UNCHANGED <<jobs, alloc, held, stray, handler, torn>>
    <3>1. NoJob \in JobRecord
      BY IdentityAssumption DEF NoJob, JobRecord
    <3> QED
      BY <1>4, <3>1 DEF Purge, Inv, TypeInv
  <2> QED
    BY <2>1, EvolveStep
<1> QED
  BY <1>1, <1>2, <1>3, <1>4

-----------------------------------------------------------------------------
(* The handlers.                                                           *)

\* One handler moves, and the table stays.
LEMMA MoveStep ==
  ASSUME Inv, NEW p \in Procs, NEW h \in HandlerRecord,
         handler' = [handler EXCEPT ![p] = h],
         UNCHANGED <<table, jobs>>,
         alloc' \in [JobIds -> Allocation], held' \in [JobIds -> Reservation],
         Progress(h), Relies(h)',
         \A q \in Procs : q # p => Relies(handler[q])',
         h.pc # "idle" => \/ handler[p].pc # "idle" /\ h.req = handler[p].req
                          \/ LockFree(h.req.id),
         \A book \in Books : IsBook(book) => BookOf(h, book),
         \A c \in JobIds :
           \/ held'[c] \in {held[c], NoReservation}
           \/ \A book \in Books : IsBook(book)
                => held'[c].job \in 1..jobs /\ book[held'[c].job].id = c,
         stray' \in SUBSET StrayCall, JournalInv', StrayInv', TornInv'
  PROVE  Inv'
<1>0. jobs \in 0..MaxJobs /\ MaxJobs \in Nat
  BY IdentityAssumption DEF Inv, TypeInv
<1>1. \A q \in Procs : handler'[q] = IF q = p THEN h ELSE handler[q]
  BY DEF Inv, TypeInv
<1>2. TypeInv'
  <2>1. handler' \in [Procs -> HandlerRecord]
    BY DEF Inv, TypeInv
  <2>2. torn' \in SUBSET (1..MaxJobs)
    BY <1>0 DEF TornInv
  <2> QED
    BY <2>1, <2>2 DEF Inv, TypeInv
<1>3. HandlerInv'
  <2>1. ASSUME NEW q \in Procs PROVE Progress(handler[q])' /\ Relies(handler[q])'
    <3>1. CASE q = p
      BY <1>1, <3>1 DEF Progress, Relies
    <3>2. CASE q # p
      BY <1>1, <3>2 DEF Progress, Inv, HandlerInv
    <3> QED
      BY <3>1, <3>2
  <2> QED
    BY <2>1 DEF HandlerInv
<1>4. LockInv'
  <2>1. \A q \in Procs : handler[q].pc # "idle" => handler[q] # Idle
    BY DEF Idle
  <2> QED
    BY <1>1, <2>1 DEF Inv, LockInv, LockFree
<1>5. BookInv'
  <2>1. PICK book \in Books : IsBook(book)
    BY DEF Inv, BookInv
  <2>2. \A q \in Procs : BookOf(handler[q], book)'
    BY <1>1, <2>1 DEF IsBook, BookOf, Entered
  <2>3. \A c \in JobIds : held'[c] # NoReservation /\ ~ held'[c].lost
          => held'[c].job \in 1..jobs /\ book[held'[c].job].id = c
    BY <2>1 DEF IsBook
  <2>4. \A j \in JobIds : table[j] # NoJob => Entered(book, table[j], j)
    BY <2>1 DEF IsBook
  <2> QED
    BY <2>2, <2>3, <2>4 DEF BookInv, IsBook, Entered
<1> QED
  BY <1>2, <1>3, <1>4, <1>5 DEF Inv

\* One handler moves and nothing else does.
LEMMA QuietStep ==
  ASSUME Inv, NEW p \in Procs, NEW h \in HandlerRecord,
         handler' = [handler EXCEPT ![p] = h],
         UNCHANGED <<table, jobs, alloc, held, stray, torn>>,
         Progress(h), Relies(h), h.pc # "reserve",
         h.pc # "idle" => \/ handler[p].pc # "idle" /\ h.req = handler[p].req
                          \/ LockFree(h.req.id),
         \A book \in Books : IsBook(book) => BookOf(h, book),
         h.pc = "allocate" => h.seen.job \notin torn,
         h.pc \in {"release", "settle"} /\ h.seen.state \in EndStates
           => EndedJob(h.seen.job)
  PROVE  Inv'
<1>1. \A q \in Procs : handler'[q] = IF q = p THEN h ELSE handler[q]
  BY DEF Inv, TypeInv
<1>2. Relies(h)' /\ \A q \in Procs : q # p => Relies(handler[q])'
  BY <1>1 DEF Inv, HandlerInv, Relies
<1>3. JournalInv'
  BY DEF Inv, JournalInv
<1>4. TornInv'
  BY <1>1 DEF Inv, TornInv, EndedJob
<1>5. StrayInv'
  BY <1>1 DEF Inv, StrayInv
<1> QED
  BY <1>2, <1>3, <1>4, <1>5, MoveStep DEF Inv, TypeInv

\* A handler that ends leaves nothing to show.
LEMMA IdleFacts ==
  /\ Idle \in HandlerRecord /\ Idle.pc = "idle"
  /\ Progress(Idle) /\ Relies(Idle) /\ Relies(Idle)'
  /\ \A book : BookOf(Idle, book)
  BY IdentityAssumption
  DEF Idle, NoJob, HandlerRecord, JobRecord, Progress, Relies, BookOf

\* A handler returns.
LEMMA ReturnStep ==
  ASSUME Inv, NEW p \in Procs, handler' = [handler EXCEPT ![p] = Idle],
         UNCHANGED <<table, jobs, alloc, held, stray, torn>>
  PROVE  Inv'
  BY IdleFacts, QuietStep

\* The requests are what they are assumed to be.
LEMMA RequestFacts ==
  ASSUME NEW r \in Requests
  PROVE  /\ r.op \in {"reserve", "release", "lookup"}
         /\ r.id \in JobIds
         /\ r.user \in Users \cup {NoUser}
         /\ r.sender \in Users \cup Trusted \cup {Root}
  BY IdentityAssumption

\* A handler starts: it holds the lock of the id that is named.
LEMMA BeginStep ==
  ASSUME Inv, NEW p \in Procs, NEW r \in Requests, Begin(p, r)
  PROVE  Inv'
<1> DEFINE owner == IF r.op = "release" THEN alloc[r.id].user ELSE NoUser
           h0 == [Idle EXCEPT !.pc = "query", !.req = r, !.owner = owner,
                              !.calm = InUse(r)]
<1>1. owner \in Users \cup {NoUser}
  BY RequestFacts DEF Inv, TypeInv, Allocation
<1>2. InUse(r) \in BOOLEAN
  BY DEF InUse
<1>3. /\ h0.pc = "query" /\ h0.req = r /\ h0.owner = owner /\ h0.seen = NoJob
      /\ ~ h0.released /\ h0 \in HandlerRecord
  BY <1>1, <1>2, IdleFacts DEF Idle, HandlerRecord
<1>4. handler' = [handler EXCEPT ![p] = h0]
  BY DEF Begin
<1>5. PICK h : h = h0
  OBVIOUS
<1> HIDE DEF h0
<1>6. Progress(h) /\ Relies(h)
  BY <1>3, <1>5 DEF Progress, Relies
<1>7. \A book \in Books : BookOf(h, book)
  BY <1>3, <1>5 DEF BookOf
<1> QED
  BY <1>3, <1>4, <1>5, <1>6, <1>7, QuietStep DEF Begin

\* A job in the table has a number.
LEMMA JobNumber ==
  ASSUME Inv, NEW j \in JobIds, table[j] # NoJob
  PROVE  table[j].job \in 1..jobs /\ table[j].job # 0
<1>1. table[j].job \in 1..jobs
  BY DEF Inv, BookInv, IsBook, Entered
<1>2. jobs \in Nat
  BY IdentityAssumption DEF Inv, TypeInv
<1> QED
  BY <1>1, <1>2

\* The number of a job in the table is the number of no other.
LEMMA OneJob ==
  ASSUME BookInv, NEW j \in JobIds, NEW k \in JobIds,
         table[j] # NoJob, table[k] # NoJob, table[j].job = table[k].job
  PROVE  j = k
<1>1. PICK book \in Books : IsBook(book)
  BY DEF BookInv
<1>2. Entered(book, table[j], j) /\ Entered(book, table[k], k)
  BY <1>1 DEF IsBook
<1> QED
  BY <1>2 DEF Entered

\* A verification, which passes on the record of a job that is in the table.
LEMMA VerifiedStep ==
  ASSUME Inv, NEW p \in Procs, NEW passes \in BOOLEAN, NEW label, NEW j \in JobIds,
         handler[p].pc \in {"query", "leader"},
         Verified(p, passes, label, j),
         table[j] # NoJob,
         UNCHANGED <<table, jobs, alloc, held, stray, torn>>,
         passes =>
           LET r == handler[p].req
           IN  \/ /\ label = "allocate" /\ r.op = "reserve" /\ j = r.id
                  /\ table[j].user = r.user /\ table[j].state \in ReserveStates
               \/ /\ label = "release" /\ r.op = "release" /\ j = r.id
                  /\ alloc[j].named # NoReservation
                       => SenderIsTrusted(r.sender, alloc[j].named.user)
               \/ /\ label = "read" /\ r.op = "lookup" /\ table[j].user = r.user
                  /\ SenderIsTrusted(r.sender, table[j].user)
                  /\ j = r.id => table[j].leader \in {0, r.id}
  PROVE  Inv'
<1>1. CASE ~ passes
  BY <1>1, ReturnStep DEF Verified
<1>2. CASE passes
  <2> DEFINE r == handler[p].req
             h0 == [handler[p] EXCEPT !.pc = label, !.canonical = j, !.seen = table[j],
                                      !.calm = Calm(handler[p]), !.owner = NoUser]
  <2>1. handler' = [handler EXCEPT ![p] = h0]
    BY <1>2 DEF Verified, Inv, TypeInv
  <2>2. /\ handler[p] \in HandlerRecord /\ r \in Requests /\ ~ handler[p].released
        /\ table[j] \in JobRecord /\ Calm(handler[p]) \in BOOLEAN
    BY DEF Inv, TypeInv, HandlerInv, Progress, Calm
  <2>3. label \in {"allocate", "release", "read"}
    BY <1>2
  <2>4. /\ h0 \in HandlerRecord /\ h0.pc = label /\ h0.canonical = j /\ h0.seen = table[j]
        /\ h0.req = r /\ ~ h0.released
    BY <2>2, <2>3 DEF HandlerRecord
  <2>5. PICK h : h = h0
    OBVIOUS
  <2> HIDE DEF h0
  <2>6. Progress(h) /\ Relies(h)
    BY <1>2, <2>2, <2>3, <2>4, <2>5 DEF Progress, Relies
  <2>7. \A book \in Books : IsBook(book) => BookOf(h, book)
    BY <1>2, <2>3, <2>4, <2>5 DEF IsBook, BookOf
  <2>8. h.pc = "allocate" => h.seen.job \notin torn
    BY <1>2, <2>4, <2>5, IdentityAssumption DEF Inv, TornInv, EndedJob
  <2>9. h.seen.state \in EndStates => EndedJob(h.seen.job)
    <3>1. \A k \in JobIds : table[k].job = table[j].job => k = j
      <4>1. table[j].job # 0
        BY JobNumber
      <4> QED
        BY <4>1, OneJob DEF Inv, NoJob
    <3> QED
      BY <2>4, <2>5, <3>1 DEF EndedJob
  <2> QED
    BY <2>1, <2>3, <2>4, <2>5, <2>6, <2>7, <2>8, <2>9, QuietStep
<1> QED
  BY <1>1, <1>2

\* A reply of slurmctld is about a job in the table.
LEMMA ReplyFacts ==
  ASSUME NEW j, NEW reply \in Replies(j)
  PROVE  /\ j \in reply
         /\ \A k \in reply : k \in JobIds /\ table[k] # NoJob /\ Leader(k) = Leader(j)
  BY DEF Replies

\* The canonical id is that of the leader, in whatever form Slurm writes that
\* there is none.
LEMMA CanonicalFacts ==
  ASSUME Inv, NEW j \in JobIds, NEW field \in LeaderFields(j)
  PROVE  CanonicalJobId(j, field) = Leader(j)
<1>1. CASE table[j].leader = 0
  BY <1>1 DEF LeaderFields, CanonicalJobId, Leader, NotNumber, Numbered
<1>2. CASE table[j].leader # 0
  <2>1. table[j].leader \in JobIds
    BY <1>2 DEF Inv, TypeInv, JobRecord
  <2>2. table[j].leader \notin {0, NoVal, Infinite}
    BY <2>1, IdentityAssumption
  <2> QED
    BY <1>2, <2>2 DEF LeaderFields, CanonicalJobId, Leader, Numbered
<1> QED
  BY <1>1, <1>2

\* What Slurm says of the job of a reserve or a release.
LEMMA VerifyStep ==
  ASSUME Inv, NEW p \in Procs, VerifyReserve(p) \/ VerifyRelease(p)
  PROVE  Inv'
<1> DEFINE r == handler[p].req
<1>0. handler[p].pc = "query" => r.id \in JobIds
  BY RequestFacts DEF Inv, HandlerInv, Progress
<1>1. CASE VerifyReserve(p)
  <2>1. PICK reply \in Replies(r.id) : Verified(p, VerifiesReserve(r, reply), "allocate", r.id)
    BY <1>1 DEF VerifyReserve
  <2>2. VerifiesReserve(r, reply) \in BOOLEAN
    BY DEF VerifiesReserve
  <2>3. VerifiesReserve(r, reply)
          => table[r.id].user = r.user /\ table[r.id].state \in ReserveStates
    BY DEF VerifiesReserve
  <2>4. table[r.id] # NoJob
    BY ReplyFacts
  <2>5. PICK passes \in BOOLEAN, j \in JobIds :
          passes = VerifiesReserve(r, reply) /\ j = r.id
    BY <1>0, <1>1, <2>2 DEF VerifyReserve
  <2> QED
    BY <1>1, <2>1, <2>3, <2>4, <2>5, VerifiedStep DEF VerifyReserve
<1>2. CASE VerifyRelease(p)
  <2>1. Verified(p, VerifiesRelease(r, handler[p].owner), "release", r.id)
    BY <1>2 DEF VerifyRelease
  <2>2. VerifiesRelease(r, handler[p].owner) \in BOOLEAN
    BY DEF VerifiesRelease
  <2>3. table[r.id] # NoJob
    BY <1>2, ReplyFacts DEF VerifyRelease
  <2>4. PICK passes \in BOOLEAN, j \in JobIds :
          passes = VerifiesRelease(r, handler[p].owner) /\ j = r.id
    BY <1>0, <1>2, <2>2 DEF VerifyRelease
  <2>5. ASSUME passes, alloc[j].named # NoReservation
        PROVE  SenderIsTrusted(r.sender, alloc[j].named.user)
    <3>1. handler[p].owner = alloc[j].user /\ handler[p].owner # NoUser
      BY <1>2, <2>4, <2>5 DEF VerifyRelease, Inv, HandlerInv, Relies, JournalInv
    <3>2. /\ handler[p].owner \in {NoUser, table[j].user}
          /\ SenderIsTrusted(r.sender, table[j].user)
      BY <2>4, <2>5 DEF VerifiesRelease
    <3>3. alloc[j].named.user = table[j].user
      BY <2>5, <3>1, <3>2 DEF Inv, JournalInv
    <3> QED
      BY <3>2, <3>3 DEF SenderIsTrusted
  <2> QED
    BY <1>2, <2>1, <2>3, <2>4, <2>5, VerifiedStep DEF VerifyRelease
<1> QED
  BY <1>1, <1>2

\* What Slurm says of a lookup's job, and of its leader.
LEMMA VerifyLookupStep ==
  ASSUME Inv, NEW p \in Procs, VerifyLookup(p) \/ VerifyLeader(p)
  PROVE  Inv'
<1> DEFINE r == handler[p].req
<1>0. handler[p].pc \in {"query", "leader"} => r \in Requests /\ r.id \in JobIds
  BY RequestFacts DEF Inv, HandlerInv, Progress
<1>1. CASE VerifyLookup(p)
  <2>1. PICK reply \in Replies(r.id), field \in LeaderFields(r.id) :
          LET c == CanonicalJobId(r.id, field)
          IN  IF c \in reply
              THEN Verified(p, VerifiesLookup(r, table[r.id], table[c]), "read", c)
              ELSE handler' = [handler EXCEPT ![p] =
                        [@ EXCEPT !.pc = "leader", !.canonical = c, !.seen = table[r.id],
                                  !.calm = Calm(handler[p])]]
    BY <1>1 DEF VerifyLookup
  <2>2. CanonicalJobId(r.id, field) = Leader(r.id)
    BY <1>0, <1>1, CanonicalFacts DEF VerifyLookup
  <2>3. PICK c : c = Leader(r.id)
    OBVIOUS
  <2>4. r.op = "lookup" /\ handler[p].pc = "query" /\ UNCHANGED <<table, jobs, alloc, held, stray, torn>>
    BY <1>1 DEF VerifyLookup
  <2>5. table[r.id] # NoJob
    BY ReplyFacts
  <2>6. CASE c \in reply
    <3>1. Verified(p, VerifiesLookup(r, table[r.id], table[c]), "read", c)
      BY <2>1, <2>2, <2>3, <2>6
    <3>2. VerifiesLookup(r, table[r.id], table[c]) \in BOOLEAN
      BY DEF VerifiesLookup
    <3>3. c \in JobIds /\ table[c] # NoJob
      BY <2>6, ReplyFacts
    <3>4. PICK passes \in BOOLEAN : passes = VerifiesLookup(r, table[r.id], table[c])
      BY <3>2
    <3>5. c = r.id => table[c].leader \in {0, r.id}
      BY <2>3 DEF Leader
    <3>6. passes => table[c].user = r.user /\ SenderIsTrusted(r.sender, table[c].user)
      BY <3>4 DEF VerifiesLookup
    <3> QED
      BY <2>4, <3>1, <3>3, <3>4, <3>5, <3>6, VerifiedStep
  <2>7. CASE c \notin reply
    <3> DEFINE h0 == [handler[p] EXCEPT !.pc = "leader", !.canonical = c,
                                        !.seen = table[r.id], !.calm = Calm(handler[p])]
    <3>1. handler' = [handler EXCEPT ![p] = h0]
      BY <2>1, <2>2, <2>3, <2>7 DEF Inv, TypeInv
    <3>2. /\ handler[p] \in HandlerRecord /\ r \in Requests /\ ~ handler[p].released
          /\ table[r.id] \in JobRecord /\ Calm(handler[p]) \in BOOLEAN
          /\ c \in JobIds \cup {0}
      BY <1>0, <2>3, <2>4 DEF Inv, TypeInv, HandlerInv, Progress, Calm, Leader, JobRecord
    <3>3. /\ h0 \in HandlerRecord /\ h0.pc = "leader" /\ h0.canonical = c
          /\ h0.seen = table[r.id] /\ h0.req = r /\ ~ h0.released
      BY <3>2 DEF HandlerRecord
    <3>4. PICK h : h = h0
      OBVIOUS
    <3> HIDE DEF h0
    <3>5. Progress(h) /\ Relies(h)
      <4>1. c # r.id
        BY <2>7, ReplyFacts
      <4> QED
        BY <2>3, <2>4, <3>2, <3>3, <3>4, <4>1 DEF Progress, Relies, Leader, LeaderOf
    <3>6. \A book \in Books : IsBook(book) => BookOf(h, book)
      BY <1>0, <2>4, <2>5, <3>3, <3>4 DEF IsBook, BookOf
    <3> QED
      BY <2>4, <3>1, <3>3, <3>4, <3>5, <3>6, QuietStep
  <2> QED
    BY <2>6, <2>7
<1>2. CASE VerifyLeader(p)
  <2> DEFINE h == handler[p]
             c == h.canonical
  <2>1. /\ h.pc = "leader" /\ c \in JobIds /\ Replies(c) # {}
        /\ Verified(p, VerifiesLookup(h.req, h.seen, table[c]), "read", c)
        /\ UNCHANGED <<table, jobs, alloc, held, stray, torn>>
    BY <1>2 DEF VerifyLeader
  <2>2. VerifiesLookup(r, h.seen, table[c]) \in BOOLEAN
    BY DEF VerifiesLookup
  <2>3. PICK passes \in BOOLEAN, j \in JobIds :
          passes = VerifiesLookup(r, h.seen, table[c]) /\ j = c
    BY <2>1, <2>2
  <2>4. table[c] # NoJob
    BY <2>1, ReplyFacts
  <2>5. r.op = "lookup" /\ c # r.id
    BY <2>1 DEF Inv, HandlerInv, Progress
  <2>6. passes => table[c].user = r.user /\ SenderIsTrusted(r.sender, table[c].user)
    BY <2>3 DEF VerifiesLookup
  <2> QED
    BY <2>1, <2>3, <2>4, <2>5, <2>6, VerifiedStep
<1> QED
  BY <1>1, <1>2

\* A handler that only ends: slurmctld does not know the job or does not answer,
\* or a lookup has read the journal.
LEMMA EndStep ==
  ASSUME Inv, NEW p \in Procs, JobUnknown(p) \/ QueryFails(p) \/ ReadContext(p)
  PROVE  Inv'
  BY ReturnStep DEF JobUnknown, QueryFails, ReadContext, Return

\* The handlers that name another id do not rely on this one.
LEMMA OthersRely ==
  ASSUME Inv, NEW p \in Procs, handler[p].pc # "idle",
         \A c \in JobIds :
           c # handler[p].req.id => alloc'[c] = alloc[c] /\ held'[c] = held[c],
         NEW h0, handler' = [handler EXCEPT ![p] = h0]
  PROVE  \A q \in Procs : q # p => Relies(handler[q])'
<1> SUFFICES ASSUME NEW q \in Procs, q # p PROVE Relies(handler[q])'
  OBVIOUS
<1>1. handler'[q] = handler[q]
  BY DEF Inv, TypeInv
<1>2. CASE handler[q].pc = "idle"
  BY <1>1, <1>2 DEF Relies
<1>3. CASE handler[q].pc # "idle"
  <2>1. handler[q].req.id # handler[p].req.id
    BY <1>3 DEF Inv, LockInv
  <2>2. handler[q].req.id \in JobIds
    BY <1>3, RequestFacts DEF Inv, HandlerInv, Progress
  <2> QED
    BY <1>1, <2>1, <2>2 DEF Inv, HandlerInv, Relies
<1> QED
  BY <1>2, <1>3

\* begin_allocation writes the owner that was verified.
LEMMA AllocateStep ==
  ASSUME Inv, NEW p \in Procs, Allocate(p)
  PROVE  Inv'
<1> DEFINE r == handler[p].req
           c == r.id
<1>0. /\ handler[p].pc = "allocate" /\ r \in Requests /\ c \in JobIds
      /\ UNCHANGED <<table, jobs, held, stray, torn>>
  BY RequestFacts DEF Allocate, Inv, HandlerInv, Progress
<1>1. CASE Return(p, "answered", NoReservation) /\ UNCHANGED alloc
  BY <1>0, <1>1, ReturnStep DEF Return
<1>2. CASE Return(p, "refused", NoReservation) /\ UNCHANGED alloc
  BY <1>0, <1>2, ReturnStep DEF Return
<1>3. CASE /\ alloc[c].state \in {"none", "rolled-back"}
           /\ alloc' = [alloc EXCEPT ![c] =
                [NoAllocation EXCEPT !.state = "reserving", !.user = r.user]]
           /\ handler' = [handler EXCEPT ![p].pc = "reserve"]
  <2> DEFINE h0 == [handler[p] EXCEPT !.pc = "reserve"]
  <2>1. handler' = [handler EXCEPT ![p] = h0]
    BY <1>3 DEF Inv, TypeInv
  <2>2. /\ h0 \in HandlerRecord /\ h0.pc = "reserve" /\ h0.req = r
        /\ h0.seen = handler[p].seen /\ h0.released = handler[p].released
    BY DEF Inv, TypeInv, HandlerRecord
  <2>3. PICK h : h = h0
    OBVIOUS
  <2> HIDE DEF h0
  <2>4. /\ alloc'[c].state = "reserving" /\ alloc'[c].user = r.user
        /\ alloc'[c].named = NoReservation
        /\ \A k \in JobIds : k # c => alloc'[k] = alloc[k]
        /\ alloc' \in [JobIds -> Allocation]
    <3>1. NoReservation \in Reservation
      BY IdentityAssumption DEF NoReservation, Reservation
    <3> QED
      BY <1>0, <1>3, <3>1, RequestFacts DEF Inv, TypeInv, Allocation, NoAllocation
  <2>4a. held[c] = NoReservation /\ \A s \in stray : s.op = "reserve" => s.id # c
    BY <1>0, <1>3 DEF Inv, JournalInv, StrayInv
  <2>5. Progress(h) /\ Relies(h)'
    BY <1>0, <2>2, <2>3, <2>4, <2>4a DEF Inv, HandlerInv, Progress, Relies
  <2>6. \A q \in Procs : q # p => Relies(handler[q])'
    BY <1>0, <2>1, <2>3, <2>4, OthersRely
  <2>7. \A book \in Books : IsBook(book) => BookOf(h, book)
    BY <1>0, <2>2, <2>3 DEF IsBook, BookOf
  <2>8. JournalInv'
    BY <1>0, <1>3, <2>4, <2>4a DEF Inv, JournalInv
  <2>8a. StrayInv'
    <3>1. \A q \in Procs : handler'[q] = IF q = p THEN h ELSE handler[q]
      BY <2>1, <2>3 DEF Inv, TypeInv
    <3>2. \A s \in stray : s.op = "reserve" => alloc'[s.id] = alloc[s.id]
      BY <2>4, <2>4a DEF Inv, TypeInv, StrayCall
    <3> QED
      BY <1>0, <2>2, <2>3, <2>4a, <3>1, <3>2 DEF Inv, StrayInv
  <2>9. TornInv'
    <3>1. \A q \in Procs : handler'[q] = IF q = p THEN h ELSE handler[q]
      BY <2>1, <2>3 DEF Inv, TypeInv
    <3> QED
      BY <1>0, <2>2, <2>3, <3>1 DEF Inv, TornInv, EndedJob
  <2> QED
    BY <1>0, <2>1, <2>2, <2>3, <2>4, <2>5, <2>6, <2>7, <2>8, <2>8a, <2>9, MoveStep
    DEF Inv, TypeInv
<1> QED
  BY <1>1, <1>2, <1>3 DEF Allocate

\* The QPM reserves for the job that was verified.
LEMMA ReserveStep ==
  ASSUME Inv, NEW p \in Procs, ReserveQpm(p)
  PROVE  Inv'
<1> DEFINE h == handler[p]
           c == h.req.id
<1>0. /\ h.pc = "reserve" /\ h.req \in Requests /\ c \in JobIds /\ h \in HandlerRecord
      /\ h.seen.user = h.req.user
      /\ handler' = [handler EXCEPT ![p] = Idle]
      /\ UNCHANGED <<table, jobs, stray, torn>>
  BY RequestFacts DEF ReserveQpm, Inv, TypeInv, HandlerInv, Progress, Return
<1>1. PICK now : now = Wanted(h, FALSE)
  OBVIOUS
<1>2. /\ now \in Reservation /\ ~ now.lost
      /\ now.user = h.req.user /\ now.job = h.seen.job /\ now.user # NoUser
      /\ h.seen.job \notin torn
      /\ \A book \in Books : IsBook(book) => now.job \in 1..jobs /\ book[now.job].id = c
  <2>1. /\ now \in Reservation /\ ~ now.lost
        /\ now.user = h.req.user /\ now.job = h.seen.job
    BY <1>0, <1>1 DEF Wanted, HandlerRecord, JobRecord, Reservation
  <2>2. h.seen.job \notin torn
    BY <1>0 DEF Inv, TornInv
  <2>3. ASSUME NEW book \in Books, IsBook(book) PROVE Entered(book, h.seen, c)
    BY <1>0, <2>3 DEF IsBook, BookOf
  <2>4. h.seen.user \in Users
    BY <2>3 DEF Inv, BookInv, Entered
  <2> QED
    BY <1>0, <2>1, <2>2, <2>3, <2>4, IdentityAssumption DEF Entered
<1>3. /\ alloc[c].state = "reserving" /\ alloc[c].user = h.req.user
      /\ alloc[c].named = NoReservation /\ held[c] = NoReservation
  BY <1>0 DEF Inv, HandlerInv, Relies
<1>4. /\ alloc' \in [JobIds -> Allocation] /\ held' \in [JobIds -> Reservation]
      /\ \A k \in JobIds : k # c => alloc'[k] = alloc[k] /\ held'[k] = held[k]
      /\ alloc'[c].user = alloc[c].user
      /\ \/ /\ alloc'[c].state = "accepted" /\ alloc'[c].named = now /\ held'[c] = now
         \/ /\ alloc'[c].state = "rolled-back" /\ alloc'[c].named = alloc[c].named
            /\ held'[c] = held[c]
  <2>1. CASE /\ held' = [held EXCEPT ![c] = now]
             /\ alloc' = [alloc EXCEPT ![c].state = "accepted", ![c].named = now]
    BY <1>0, <1>2, <2>1 DEF Inv, TypeInv, Allocation
  <2>2. CASE held' = held /\ alloc' = [alloc EXCEPT ![c].state = "rolled-back"]
    BY <1>0, <1>2, <2>2 DEF Inv, TypeInv, Allocation
  <2> QED
    BY <1>1, <2>1, <2>2 DEF ReserveQpm
<1>5. \A q \in Procs : q # p => Relies(handler[q])'
  BY <1>0, <1>4, OthersRely
<1>6. \A q \in Procs : handler'[q] = IF q = p THEN Idle ELSE handler[q]
  BY <1>0 DEF Inv, TypeInv
<1>7. JournalInv'
  BY <1>0, <1>2, <1>3, <1>4 DEF Inv, JournalInv
<1>8. StrayInv'
  <2>1. \A s \in stray : s.op = "reserve" => s.id # c /\ s.id \in JobIds
    BY <1>0 DEF Inv, TypeInv, StrayCall, StrayInv
  <2> QED
    BY <1>0, <1>4, <1>6, <2>1, IdleFacts DEF Inv, StrayInv
<1>9. TornInv'
  BY <1>0, <1>2, <1>4, <1>6, IdleFacts DEF Inv, TornInv, EndedJob
<1>10. \A k \in JobIds :
         \/ held'[k] \in {held[k], NoReservation}
         \/ \A book \in Books : IsBook(book)
              => held'[k].job \in 1..jobs /\ book[held'[k].job].id = k
  BY <1>2, <1>4
<1> QED
  BY <1>0, <1>4, <1>5, <1>7, <1>8, <1>9, <1>10, IdleFacts, MoveStep DEF Inv, TypeInv

\* The QPM gives back what the job holds, or fails to.
LEMMA ReleaseStep ==
  ASSUME Inv, NEW p \in Procs, ReleaseQpm(p)
  PROVE  Inv'
<1> DEFINE r == handler[p].req
           c == r.id
<1>0. /\ handler[p].pc = "release" /\ r \in Requests /\ c \in JobIds
      /\ handler[p] \in HandlerRecord
      /\ UNCHANGED <<table, jobs, alloc, stray, torn>>
  BY RequestFacts DEF ReleaseQpm, Inv, TypeInv, HandlerInv, Progress
<1>1. PICK flag \in BOOLEAN :
        /\ handler' = [handler EXCEPT ![p] = [handler[p] EXCEPT !.pc = "settle",
                                                              !.released = flag]]
        /\ IF flag /\ alloc[c].named # NoReservation
           THEN held' = [held EXCEPT ![c] = NoReservation]
           ELSE held' = held
  <2>1. CASE /\ held' = IF alloc[c].named = NoReservation
                        THEN held
                        ELSE [held EXCEPT ![c] = NoReservation]
             /\ handler' = [handler EXCEPT ![p].pc = "settle", ![p].released = TRUE]
    BY <2>1 DEF Inv, TypeInv
  <2>2. CASE held' = held /\ handler' = [handler EXCEPT ![p].pc = "settle"]
    <3>1. handler[p].released = FALSE
      BY <1>0 DEF Inv, HandlerInv, Progress, TypeInv, HandlerRecord
    <3>2. [handler[p] EXCEPT !.pc = "settle"]
            = [handler[p] EXCEPT !.pc = "settle", !.released = FALSE]
      BY <1>0, <3>1 DEF HandlerRecord
    <3> QED
      BY <2>2, <3>2 DEF Inv, TypeInv
  <2> QED
    BY <2>1, <2>2 DEF ReleaseQpm
<1> DEFINE h0 == [handler[p] EXCEPT !.pc = "settle", !.released = flag]
<1>2. /\ h0 \in HandlerRecord /\ h0.pc = "settle" /\ h0.req = r
      /\ h0.seen = handler[p].seen /\ h0.released = flag
  BY <1>0 DEF HandlerRecord
<1>3. PICK h : h = h0
  OBVIOUS
<1>4. handler' = [handler EXCEPT ![p] = h]
  BY <1>1, <1>3
<1> HIDE DEF h0
<1>5. /\ held' \in [JobIds -> Reservation]
      /\ \A k \in JobIds : held'[k] \in {held[k], NoReservation}
      /\ \A k \in JobIds : k # c => held'[k] = held[k]
      /\ flag => held'[c] = NoReservation \/ held'[c].lost
  <2>1. NoReservation \in Reservation
    BY IdentityAssumption DEF NoReservation, Reservation
  <2> QED
    BY <1>0, <1>1, <2>1 DEF Inv, TypeInv, JournalInv
<1>6. Progress(h) /\ Relies(h)'
  BY <1>0, <1>2, <1>3, <1>5 DEF Inv, HandlerInv, Progress, Relies
<1>7. \A q \in Procs : q # p => Relies(handler[q])'
  BY <1>0, <1>4, <1>5, OthersRely
<1>8. \A book \in Books : IsBook(book) => BookOf(h, book)
  BY <1>0, <1>2, <1>3 DEF IsBook, BookOf
<1>9. JournalInv'
  BY <1>0, <1>5 DEF Inv, JournalInv
<1>10. TornInv'
  <2>1. \A q \in Procs : handler'[q] = IF q = p THEN h ELSE handler[q]
    BY <1>4 DEF Inv, TypeInv
  <2>2. NoReservation.job \notin torn
    BY DEF Inv, TypeInv, NoReservation
  <2> QED
    BY <1>0, <1>2, <1>3, <1>5, <2>1, <2>2 DEF Inv, TornInv, EndedJob
<1>11. StrayInv'
  <2>1. \A q \in Procs : handler'[q] = IF q = p THEN h ELSE handler[q]
    BY <1>4 DEF Inv, TypeInv
  <2>2. \A s \in stray : s.id \in JobIds
    BY DEF Inv, TypeInv, StrayCall
  <2> QED
    BY <1>0, <1>2, <1>3, <1>5, <2>1, <2>2 DEF Inv, StrayInv
<1> QED
  BY <1>0, <1>2, <1>3, <1>4, <1>5, <1>6, <1>7, <1>8, <1>9, <1>10, <1>11, MoveStep
  DEF Inv, TypeInv

\* The end of a release is journaled.
LEMMA SettleStep ==
  ASSUME Inv, NEW p \in Procs, SettleRelease(p)
  PROVE  Inv'
<1> DEFINE h == handler[p]
           c == h.req.id
<1>0. /\ h.pc = "settle" /\ h.req \in Requests /\ c \in JobIds
      /\ handler' = [handler EXCEPT ![p] = Idle]
      /\ UNCHANGED <<table, jobs, held, stray>>
  BY RequestFacts DEF SettleRelease, Inv, HandlerInv, Progress, Return
<1>1. \/ alloc' = alloc
      \/ /\ alloc[c].state # "none"
         /\ alloc' = [alloc EXCEPT ![c] =
              IF h.released
              THEN [alloc[c] EXCEPT !.state = "released", !.named = NoReservation]
              ELSE [alloc[c] EXCEPT !.state = "release-incomplete"]]
  BY <1>0 DEF SettleRelease, Inv, TypeInv
<1>2. /\ alloc' \in [JobIds -> Allocation]
      /\ \A k \in JobIds : k # c => alloc'[k] = alloc[k]
      /\ alloc'[c].user = alloc[c].user
      /\ \/ alloc'[c] = alloc[c]
         \/ /\ alloc[c].state # "none"
            /\ alloc'[c].state \in {"released", "release-incomplete"}
            /\ \/ alloc'[c].named = alloc[c].named
               \/ h.released /\ alloc'[c].named = NoReservation
  <2>0. NoReservation \in Reservation
    BY IdentityAssumption DEF NoReservation, Reservation
  <2>1. CASE alloc' = alloc
    BY <1>0, <2>1 DEF Inv, TypeInv
  <2>2. CASE /\ alloc[c].state # "none" /\ h.released
             /\ alloc' = [alloc EXCEPT ![c] =
                  [alloc[c] EXCEPT !.state = "released", !.named = NoReservation]]
    BY <1>0, <2>0, <2>2 DEF Inv, TypeInv, Allocation
  <2>3. CASE /\ alloc[c].state # "none"
             /\ alloc' = [alloc EXCEPT ![c] =
                  [alloc[c] EXCEPT !.state = "release-incomplete"]]
    BY <1>0, <2>3 DEF Inv, TypeInv, Allocation
  <2> QED
    BY <1>1, <2>1, <2>2, <2>3
<1>2a. h.released => held[c] = NoReservation \/ held[c].lost
  BY <1>0 DEF Inv, HandlerInv, Relies
<1>3. \A q \in Procs : q # p => Relies(handler[q])'
  BY <1>0, <1>2, OthersRely
<1>4. JournalInv'
  <2>1. ASSUME NEW k \in JobIds, k # c
        PROVE  alloc'[k] = alloc[k] /\ held'[k] = held[k]
    BY <1>0, <1>2, <2>1
  <2>2. CASE alloc'[c] = alloc[c]
    BY <1>0, <2>1, <2>2 DEF Inv, JournalInv
  <2>3. CASE alloc'[c] # alloc[c]
    BY <1>0, <1>2, <1>2a, <2>1, <2>3 DEF Inv, JournalInv
  <2> QED
    BY <2>2, <2>3
<1>5. \A q \in Procs : handler'[q] = IF q = p THEN Idle ELSE handler[q]
  BY <1>0 DEF Inv, TypeInv
<1>6. TornInv'
  <2>1. CASE torn' = torn
    BY <1>0, <1>5, <2>1, IdleFacts DEF Inv, TornInv, EndedJob
  <2>2. CASE h.released /\ h.seen.state \in EndStates /\ torn' = torn \cup {h.seen.job}
    <3>0. PICK n : n = h.seen.job
      OBVIOUS
    <3>1. PICK book \in Books : IsBook(book)
      BY DEF Inv, BookInv
    <3>2. n \in 1..jobs /\ book[n].id = c
      <4>1. Entered(book, h.seen, c)
        BY <1>0, <3>1 DEF IsBook, BookOf
      <4> QED
        BY <3>0, <4>1 DEF Entered
    <3>3. EndedJob(n)
      BY <1>0, <2>2, <3>0 DEF Inv, TornInv
    <3>4. \A k \in JobIds : held[k].lost \/ held[k].job # n
      <4>1. held[c] = NoReservation \/ held[c].lost
        BY <1>2a, <2>2
      <4>2. NoReservation.job # n
        BY <3>2 DEF NoReservation, Inv, TypeInv
      <4> QED
        BY <3>1, <3>2, <4>1, <4>2 DEF IsBook
    <3>5. ASSUME NEW q \in Procs, q # p, handler[q].pc \in {"allocate", "reserve"}
          PROVE  handler[q].seen.job # n
      <4>1. handler[q].req.id # c
        BY <1>0, <3>5 DEF Inv, LockInv
      <4>2. book[handler[q].seen.job].id = handler[q].req.id
        <5>1. Entered(book, handler[q].seen, handler[q].req.id)
          BY <3>1, <3>5 DEF IsBook, BookOf
        <5> QED
          BY <5>1 DEF Entered
      <4> QED
        BY <3>2, <4>1, <4>2
    <3>6. torn' = torn \cup {n}
      BY <2>2, <3>0
    <3>7. EndedJob(n)' /\ \A m \in torn : EndedJob(m)'
      <4>1. \A m : EndedJob(m) => EndedJob(m)'
        BY <1>0 DEF EndedJob
      <4> QED
        BY <3>3, <4>1 DEF Inv, TornInv
    <3>8. ASSUME NEW q \in Procs,
                 handler'[q].pc \in {"release", "settle"},
                 handler'[q].seen.state \in EndStates
          PROVE  EndedJob(handler[q].seen.job)'
      BY <1>0, <1>5, <3>8, IdleFacts DEF Inv, TornInv, EndedJob
    <3>9. ASSUME NEW q \in Procs, handler'[q].pc \in {"allocate", "reserve"}, NEW m \in torn'
          PROVE  handler'[q].seen.job # m
      BY <1>5, <3>5, <3>6, <3>9, IdleFacts DEF Inv, TornInv
    <3>10. /\ torn' \subseteq 1..jobs
           /\ \A k \in JobIds, m \in torn' : held[k].lost \/ held[k].job # m
      BY <3>2, <3>4, <3>6 DEF Inv, TornInv
    <3> QED
      <4>1. \A m \in torn' : EndedJob(m)'
        BY <3>6, <3>7
      <4> QED
        BY <1>0, <3>8, <3>9, <3>10, <4>1 DEF TornInv
  <2> QED
    BY <2>1, <2>2 DEF SettleRelease
<1>7. StrayInv'
  <2>1. \A s \in stray : s.id \in JobIds
    BY DEF Inv, TypeInv, StrayCall
  <2> QED
    BY <1>0, <1>2, <1>5, <2>1, IdleFacts DEF Inv, StrayInv
<1> QED
  BY <1>0, <1>2, <1>3, <1>4, <1>6, <1>7, IdleFacts, MoveStep DEF Inv, TypeInv

\* A cancelled handler leaves the call of its thread behind.
LEMMA CancelStep ==
  ASSUME Inv, NEW p \in Procs, Cancel(p)
  PROVE  Inv'
<1> DEFINE h == handler[p]
           c == h.req.id
<1>0. /\ h.pc \in {"query", "leader", "reserve", "release"}
      /\ h.req \in Requests /\ c \in JobIds /\ h \in HandlerRecord
      /\ h.req.sender \in Users \cup Trusted \cup {Root}
      /\ handler' = [handler EXCEPT ![p] = Idle]
      /\ UNCHANGED <<table, jobs, alloc, held, torn>>
  BY RequestFacts DEF Cancel, Inv, TypeInv, HandlerInv, Progress
<1>1. CASE ~ Calling(h)
  BY <1>0, <1>1, ReturnStep DEF Cancel
<1>2. CASE Calling(h)
  <2> DEFINE left == [op |-> h.req.op, id |-> c, sender |-> h.req.sender,
                      res |-> IF h.req.op = "reserve" THEN Wanted(h, TRUE)
                                                      ELSE alloc[c].named]
  <2>1. stray' = stray \cup {left}
    BY <1>2 DEF Cancel
  <2>2. PICK z : z = left
    OBVIOUS
  <2>3. /\ z \in StrayCall /\ z.id = c /\ z.sender = h.req.sender
        /\ \/ h.pc = "reserve" /\ z.op = "reserve" /\ z.res = Wanted(h, TRUE)
           \/ h.pc = "release" /\ z.op = "release" /\ z.res = alloc[c].named
    <3>1. CASE h.pc = "reserve"
      <4>1. h.req.op = "reserve"
        BY <3>1 DEF Inv, HandlerInv, Progress
      <4>2. Wanted(h, TRUE) \in Reservation
        BY <1>0 DEF Wanted, Reservation, HandlerRecord, JobRecord
      <4> QED
        BY <1>0, <2>2, <3>1, <4>1, <4>2 DEF StrayCall
    <3>2. CASE h.pc = "release"
      <4>1. h.req.op = "release"
        BY <3>2 DEF Inv, HandlerInv, Progress
      <4>2. alloc[c].named \in Reservation
        BY <1>0 DEF Inv, TypeInv, Allocation
      <4> QED
        BY <1>0, <2>2, <3>2, <4>1, <4>2 DEF StrayCall
    <3> QED
      BY <1>2, <3>1, <3>2 DEF Calling
  <2> HIDE DEF left
  <2>4. \A q \in Procs : handler'[q] = IF q = p THEN Idle ELSE handler[q]
    BY <1>0 DEF Inv, TypeInv
  <2>5. StrayInv'
    <3>1. CASE z.op = "release"
      <4>1. alloc[c].named # NoReservation /\ h.pc = "release"
        BY <1>2, <2>3, <3>1 DEF Calling
      <4>2. ~ z.res.lost /\ SenderIsTrusted(z.sender, z.res.user)
        BY <1>0, <2>3, <3>1, <4>1 DEF Inv, JournalInv, HandlerInv, Relies
      <4> QED
        BY <1>0, <2>1, <2>2, <2>4, <3>1, <4>2, IdleFacts DEF Inv, StrayInv
    <3>2. CASE z.op = "reserve"
      <4>1. h.pc = "reserve" /\ h.seen.user = h.req.user
        BY <2>3, <3>2 DEF Inv, HandlerInv, Progress
      <4>2. z.res.lost /\ z.res.user = h.req.user
        BY <2>3, <3>2, <4>1 DEF Wanted
      <4>3. /\ alloc[c].state = "reserving" /\ alloc[c].user = h.req.user
            /\ alloc[c].named = NoReservation /\ held[c] = NoReservation
        BY <4>1 DEF Inv, HandlerInv, Relies
      <4>4. \A s \in stray : s.op = "reserve" => s.id # c
        BY <4>1 DEF Inv, StrayInv
      <4>5. \A q \in Procs : handler'[q].pc = "reserve" => handler[q].req.id # c /\ q # p
        BY <1>0, <2>4, <4>1, IdleFacts DEF Inv, LockInv
      <4> QED
        BY <1>0, <2>1, <2>2, <2>3, <2>4, <3>2, <4>2, <4>3, <4>4, <4>5, IdleFacts
        DEF Inv, StrayInv
    <3> QED
      BY <2>3, <3>1, <3>2
  <2>6. \A q \in Procs : q # p => Relies(handler[q])'
    BY <1>0, OthersRely
  <2>7. JournalInv'
    BY <1>0 DEF Inv, JournalInv
  <2>8. TornInv'
    BY <1>0, <2>4, IdleFacts DEF Inv, TornInv, EndedJob
  <2>9. stray' \in SUBSET StrayCall
    BY <2>1, <2>2, <2>3 DEF Inv, TypeInv
  <2> QED
    BY <1>0, <2>5, <2>6, <2>7, <2>8, <2>9, IdleFacts, MoveStep DEF Inv, TypeInv
<1> QED
  BY <1>1, <1>2

\* The thread of a cancelled handler reserves or releases, or fails to.
LEMMA StrayStep ==
  ASSUME Inv, NEW s \in stray, StrayReserve(s) \/ StrayRelease(s)
  PROVE  Inv'
<1>0. /\ s \in StrayCall /\ s.id \in JobIds /\ stray' = stray \ {s}
      /\ s.res \in Reservation /\ NoReservation \in Reservation
      /\ UNCHANGED <<table, jobs, alloc, handler, torn>>
  BY IdentityAssumption
  DEF Inv, TypeInv, StrayCall, StrayReserve, StrayRelease, NoReservation, Reservation
<1>1. /\ held' \in [JobIds -> Reservation]
      /\ \A c \in JobIds : c # s.id => held'[c] = held[c]
      /\ \/ held'[s.id] = held[s.id]
         \/ s.op = "release" /\ held'[s.id] = NoReservation
         \/ s.op = "reserve" /\ held'[s.id] = s.res
  BY <1>0 DEF StrayReserve, StrayRelease, Inv, TypeInv
<1>2. s.op = "reserve"
        => /\ s.res.lost /\ s.res.user = alloc[s.id].user
           /\ alloc[s.id].state \notin {"none", "rolled-back"}
           /\ alloc[s.id].named = NoReservation /\ held[s.id] = NoReservation
           /\ \A p \in Procs : handler[p].pc = "reserve" => handler[p].req.id # s.id
           /\ \A z \in stray : z.op = "reserve" /\ z.id = s.id => z = s
  BY DEF Inv, StrayInv
<1>3. TypeInv'
  BY <1>0, <1>1 DEF Inv, TypeInv
<1>4. HandlerInv'
  <2>1. ASSUME NEW p \in Procs PROVE Relies(handler[p])'
    <3>1. Relies(handler[p])
      BY DEF Inv, HandlerInv
    <3>2. handler[p].pc # "idle" => handler[p].req.id \in JobIds
      BY RequestFacts DEF Inv, HandlerInv, Progress
    <3> QED
      BY <1>0, <1>1, <1>2, <3>1, <3>2 DEF Relies
  <2> QED
    BY <1>0, <2>1 DEF Inv, HandlerInv
<1>5. LockInv'
  BY <1>0 DEF Inv, LockInv
<1>6. JournalInv'
  BY <1>0, <1>1, <1>2 DEF Inv, JournalInv
<1>7. StrayInv'
  <2>1. ASSUME NEW z \in stray, z # s, z.op = "reserve" PROVE held'[z.id] = NoReservation
    <3>1. z.id \in JobIds /\ held[z.id] = NoReservation
      BY <2>1 DEF Inv, TypeInv, StrayCall, StrayInv
    <3> QED
      BY <1>1, <1>2, <2>1, <3>1
  <2> QED
    BY <1>0, <2>1 DEF Inv, StrayInv
<1>8. BookInv'
  <2>1. PICK book \in Books : IsBook(book)
    BY DEF Inv, BookInv
  <2>2. \A c \in JobIds : held'[c] # NoReservation /\ ~ held'[c].lost
          => held'[c] = held[c]
    BY <1>1, <1>2
  <2> QED
    BY <1>0, <2>1, <2>2 DEF BookInv, IsBook, BookOf, Entered
<1>9. TornInv'
  <2>1. NoReservation.job \notin torn
    BY DEF Inv, TypeInv, NoReservation
  <2> QED
    BY <1>0, <1>1, <1>2, <2>1 DEF Inv, TornInv, EndedJob
<1> QED
  BY <1>3, <1>4, <1>5, <1>6, <1>7, <1>8, <1>9 DEF Inv

\* Every step keeps the invariant.
LEMMA NextInv == Inv /\ [Next]_vars => Inv'
<1> SUFFICES ASSUME Inv, [Next]_vars PROVE Inv'
  OBVIOUS
<1>1. CASE UNCHANGED vars
  BY <1>1
  DEF vars, Inv, TypeInv, HandlerInv, Relies, LockInv, JournalInv, BookInv, IsBook, BookOf,
      Entered, TornInv, EndedJob, StrayInv
<1>2. CASE \E p \in Procs, r \in Requests : Begin(p, r)
  BY <1>2, BeginStep
<1>3. CASE \E p \in Procs : VerifyReserve(p) \/ VerifyRelease(p)
  BY <1>3, VerifyStep
<1>4. CASE \E p \in Procs : VerifyLookup(p) \/ VerifyLeader(p)
  BY <1>4, VerifyLookupStep
<1>5. CASE \E p \in Procs : JobUnknown(p) \/ QueryFails(p) \/ ReadContext(p)
  BY <1>5, EndStep
<1>6. CASE \E p \in Procs : Allocate(p) \/ ReserveQpm(p) \/ ReleaseQpm(p) \/ SettleRelease(p)
  BY <1>6, AllocateStep, ReserveStep, ReleaseStep, SettleStep
<1>7. CASE \/ \E p \in Procs : Cancel(p)
           \/ \E s \in stray : StrayReserve(s) \/ StrayRelease(s)
  BY <1>7, CancelStep, StrayStep
<1>8. CASE \E r \in Requests : Repeated(r)
  BY <1>8
  DEF Repeated, Inv, TypeInv, HandlerInv, Relies, LockInv, JournalInv, BookInv, IsBook,
      BookOf, Entered, TornInv, EndedJob, StrayInv
<1> QED
  BY <1>1, <1>2, <1>3, <1>4, <1>5, <1>6, <1>7, <1>8, SlurmStep DEF Next

\* The invariant, from which the theorems follow.
LEMMA InvCorrect == Spec => []Inv
  BY InitInv, NextInv, PTL DEF Spec

\* The owner that the journal has is the user the QPM reserved for, for any number
\* of handlers, cancelled ones included, and whatever ids Slurm gives out again.
THEOREM OwnerCorrect == Spec => []JournalNamesOwner
<1>1. Inv => JournalNamesOwner
  BY DEF Inv, JournalInv, JournalNamesOwner
<1> QED
  BY <1>1, InvCorrect, PTL

\* Once a job has ended and its release was answered, no reservation is held for
\* it, unless by the thread of a reserve that was cancelled (the lock of handle
\* around verification and transaction).
THEOREM TornDownCorrect == Spec => []TornDownStaysFree
<1>1. Inv => TornDownStaysFree
  BY DEF Inv, TornInv, TornDownStaysFree
<1> QED
  BY <1>1, InvCorrect, PTL

-----------------------------------------------------------------------------
(* The answers.                                                            *)

\* The steps that answer nothing.
LEMMA SilentStep ==
  ASSUME \/ \E j \in JobIds, u \in Users : Submit(j, u)
         \/ \E j, k \in JobIds, u \in Users : SubmitHetero(j, k, u)
         \/ \E j \in JobIds : JobEnds(j) \/ Purge(j)
         \/ \E p \in Procs, r \in Requests : Begin(p, r)
         \/ \E p \in Procs : ReleaseQpm(p) \/ Cancel(p)
         \/ \E s \in stray : StrayReserve(s) \/ StrayRelease(s)
  PROVE  answer' = NoAnswer
  BY DEF Submit, SubmitHetero, JobEnds, Purge, Begin, ReleaseQpm, Cancel, StrayReserve,
         StrayRelease

\* A lookup that is verified has an answer, or asks again.
LEMMA LookupAnswer ==
  ASSUME Inv, NEW p \in Procs, VerifyLookup(p) \/ VerifyLeader(p)
  PROVE  LET h == handler[p]
             c == IF h.pc = "query" THEN Leader(h.req.id) ELSE h.canonical
             observed == IF h.pc = "query" THEN table[h.req.id] ELSE h.seen
         IN  /\ h.pc \in {"query", "leader"} /\ h.req.op = "lookup"
             /\ \/ answer' = NoAnswer
                \/ /\ ~ VerifiesLookup(h.req, observed, table[c])
                   /\ answer' = [result |-> "refused", req |-> h.req, calm |-> Calm(h),
                                 given |-> NoReservation]
<1> DEFINE h == handler[p]
           r == h.req
<1>1. CASE VerifyLookup(p)
  <2>0. h.pc = "query" /\ r.op = "lookup" /\ r.id \in JobIds
    BY <1>1, RequestFacts DEF VerifyLookup, Inv, HandlerInv, Progress
  <2>1. PICK reply \in Replies(r.id), field \in LeaderFields(r.id) :
          LET c == CanonicalJobId(r.id, field)
          IN  \/ Verified(p, VerifiesLookup(r, table[r.id], table[c]), "read", c)
              \/ answer' = NoAnswer
    BY <1>1 DEF VerifyLookup
  <2>2. CanonicalJobId(r.id, field) = Leader(r.id)
    BY <2>0, CanonicalFacts
  <2>3. PICK c : c = Leader(r.id)
    OBVIOUS
  <2>4. \/ Verified(p, VerifiesLookup(r, table[r.id], table[c]), "read", c)
        \/ answer' = NoAnswer
    BY <2>1, <2>2, <2>3
  <2> QED
    BY <2>0, <2>3, <2>4 DEF Verified
<1>2. CASE VerifyLeader(p)
  <2>1. /\ h.pc = "leader" /\ r.op = "lookup"
        /\ Verified(p, VerifiesLookup(r, h.seen, table[h.canonical]), "read", h.canonical)
    BY <1>2 DEF VerifyLeader, Inv, HandlerInv, Progress
  <2> QED
    BY <2>1 DEF Verified
<1> QED
  BY <1>1, <1>2

\* A reserve or a release that ends hands out nothing.
LEMMA EndAnswer ==
  ASSUME NEW p \in Procs, JobUnknown(p) \/ Allocate(p) \/ ReserveQpm(p) \/ SettleRelease(p)
  PROVE  \/ answer' = NoAnswer
         \/ answer'.calm = Calm(handler[p]) /\ answer'.given = NoReservation
<1>1. \A result : Return(p, result, NoReservation)
                   => answer'.calm = Calm(handler[p]) /\ answer'.given = NoReservation
  BY DEF Return
<1>2. CASE JobUnknown(p)
  BY <1>1, <1>2 DEF JobUnknown
<1>3. CASE Allocate(p)
  BY <1>1, <1>3 DEF Allocate
<1>4. CASE ReserveQpm(p)
  BY <1>1, <1>4 DEF ReserveQpm
<1>5. CASE SettleRelease(p)
  BY <1>1, <1>5 DEF SettleRelease
<1> QED
  BY <1>2, <1>3, <1>4, <1>5

\* Only a lookup that reads the journal hands out a reservation.
LEMMA OwnStep ==
  ASSUME Inv, Next
  PROVE  OwnReservations'
<1>0. NoAnswer.given = NoReservation
  BY DEF NoAnswer
<1>1. CASE answer'.given = NoReservation
  BY <1>1 DEF OwnReservations
<1>2. ASSUME NEW p \in Procs, ReadContext(p) PROVE OwnReservations'
  <2> DEFINE h == handler[p]
             c == h.canonical
  <2>1. /\ h.pc = "read"
        /\ \/ Return(p, "refused", NoReservation)
           \/ ContextFor(c, h.seen.user) /\ Return(p, "answered", alloc[c].named)
    BY <1>2 DEF ReadContext
  <2>2. CASE Return(p, "refused", NoReservation)
    BY <2>2 DEF Return, OwnReservations
  <2>3. CASE /\ ContextFor(c, h.seen.user) /\ alloc[c].named # NoReservation
             /\ Return(p, "answered", alloc[c].named)
    <3>1. /\ c \in JobIds /\ h.seen.user = h.req.user
          /\ SenderIsTrusted(h.req.sender, h.seen.user)
      BY <2>1 DEF Inv, HandlerInv, Progress
    <3>2. alloc[c].named.user = h.seen.user
      BY <2>3, <3>1 DEF ContextFor, Inv, JournalInv
    <3>3. answer'.given = alloc[c].named /\ answer'.req = h.req
      BY <2>3 DEF Return
    <3>4. \A u : SenderIsTrusted(h.req.sender, u) <=> h.req.sender \in {Root, u} \cup Trusted
      BY DEF SenderIsTrusted
    <3> QED
      BY <3>1, <3>2, <3>3, <3>4 DEF OwnReservations, SenderIsTrusted
  <2>4. CASE Return(p, "answered", NoReservation)
    BY <2>4 DEF Return, OwnReservations
  <2> QED
    BY <2>1, <2>2, <2>3, <2>4
<1>3. ASSUME NEW p \in Procs, VerifyLookup(p) \/ VerifyLeader(p)
      PROVE  answer'.given = NoReservation
  BY <1>0, <1>3, LookupAnswer
<1>4. ASSUME NEW p \in Procs, VerifyReserve(p) \/ VerifyRelease(p)
      PROVE  answer'.given = NoReservation
  BY <1>0, <1>4 DEF VerifyReserve, VerifyRelease, Verified
<1>5. ASSUME NEW p \in Procs,
             JobUnknown(p) \/ Allocate(p) \/ ReserveQpm(p) \/ SettleRelease(p)
      PROVE  answer'.given = NoReservation
  BY <1>0, <1>5, EndAnswer
<1>6. ASSUME \/ \E p \in Procs : QueryFails(p)
             \/ \E r \in Requests : Repeated(r)
      PROVE  answer'.given = NoReservation
  BY <1>6 DEF QueryFails, Repeated, NoAnswer
<1> QED
  BY <1>0, <1>1, <1>2, <1>3, <1>4, <1>5, <1>6, SilentStep DEF Next

\* A lookup that is still calm has asked, and been told, of the leader of its job
\* as it is now.
LEMMA CalmFacts ==
  ASSUME Inv, NEW p \in Procs, handler[p].pc # "idle", Calm(handler[p])
  PROVE  LET h == handler[p]
             r == h.req
             c == Leader(r.id)
         IN  /\ r.op = "lookup" /\ r.id \in JobIds
             /\ c \in JobIds /\ table[r.id] # NoJob /\ table[c] # NoJob
             /\ table[r.id].user = r.user /\ table[c].user = r.user
             /\ table[c].state \in ReserveStates
             /\ SenderIsTrusted(r.sender, r.user)
             /\ ContextFor(c, r.user)
             /\ h.pc \in {"leader", "read"} => h.canonical = c
             /\ h.pc = "leader" => h.seen.user = r.user
<1> DEFINE h == handler[p]
           r == h.req
           c == Leader(r.id)
<1>1. /\ InUse(r) /\ r \in Requests /\ r.id \in JobIds
      /\ h.seen.job \in {0, table[r.id].job, table[c].job}
  BY RequestFacts DEF Calm, Inv, HandlerInv, Progress
<1>2. /\ r.op = "lookup" /\ table[r.id] # NoJob
      /\ table[r.id].user = r.user /\ table[c].user = r.user
      /\ table[c].state \in ReserveStates
      /\ SenderIsTrusted(r.sender, r.user)
      /\ ContextFor(c, r.user)
  BY <1>1 DEF InUse
<1>3. c \in JobIds
  BY <1>1 DEF Inv, TypeInv, JobRecord, Leader
<1>4. table[c] # NoJob
  BY <1>2 DEF NoJob, ReserveStates
<1>5. PICK book \in Books : IsBook(book)
  BY DEF Inv, BookInv
<1>6. Entered(book, table[r.id], r.id) /\ Entered(book, table[c], c)
  BY <1>1, <1>2, <1>3, <1>4, <1>5 DEF IsBook
<1>7. jobs \in Nat
  BY IdentityAssumption DEF Inv, TypeInv
<1>8. CASE h.pc = "leader"
  <2>1. Entered(book, h.seen, r.id) /\ h.canonical = LeaderOf(h.seen, r.id)
    BY <1>5, <1>8 DEF IsBook, BookOf, Inv, HandlerInv, Progress
  <2>2. h.seen.job # 0
    BY <1>7, <2>1 DEF Entered
  <2>3. h.seen.job = table[r.id].job
    BY <1>1, <1>6, <2>1, <2>2 DEF Entered
  <2>4. h.seen.leader = table[r.id].leader /\ h.seen.user = table[r.id].user
    BY <1>6, <2>1, <2>3 DEF Entered
  <2>5. h.canonical = c
    BY <2>1, <2>4 DEF LeaderOf, Leader
  <2> QED
    BY <1>1, <1>2, <1>3, <1>4, <1>8, <2>4, <2>5
<1>9. CASE h.pc = "read"
  <2>1. /\ Entered(book, h.seen, h.canonical)
        /\ h.canonical = r.id => h.seen.leader \in {0, r.id}
    BY <1>5, <1>9 DEF IsBook, BookOf, Inv, HandlerInv, Progress
  <2>2. h.seen.job # 0
    BY <1>7, <2>1 DEF Entered
  <2>3. ASSUME h.seen.job = table[c].job PROVE h.canonical = c
    BY <1>6, <2>1, <2>3 DEF Entered
  <2>4. ASSUME h.seen.job = table[r.id].job PROVE h.canonical = c
    <3>1. h.canonical = r.id /\ h.seen.leader = table[r.id].leader
      BY <1>6, <2>1, <2>4 DEF Entered
    <3> QED
      BY <2>1, <3>1 DEF Leader
  <2>5. h.canonical = c
    BY <1>1, <2>2, <2>3, <2>4
  <2> QED
    BY <1>1, <1>2, <1>3, <1>4, <1>9, <2>5
<1> QED
  BY <1>1, <1>2, <1>3, <1>4, <1>8, <1>9

\* A calm lookup passes each verification and finds its allocation.
LEMMA ServedStep ==
  ASSUME Inv, Next
  PROVE  InUseIsServed'
<1>0. ~ NoAnswer.calm
  BY DEF NoAnswer
<1>1. CASE ~ answer'.calm
  BY <1>1 DEF InUseIsServed
<1>2. ASSUME NEW p \in Procs, handler[p].pc # "idle", handler[p].req.op # "lookup"
      PROVE  ~ Calm(handler[p])
  BY <1>2 DEF Calm, InUse
<1>3. ASSUME NEW p \in Procs, VerifyReserve(p) \/ VerifyRelease(p) PROVE ~ answer'.calm
  BY <1>0, <1>2, <1>3 DEF VerifyReserve, VerifyRelease, Verified
<1>4. ASSUME NEW p \in Procs, Allocate(p) \/ ReserveQpm(p) \/ SettleRelease(p)
      PROVE  ~ answer'.calm
  <2>1. handler[p].req.op # "lookup" /\ handler[p].pc # "idle"
    BY <1>4 DEF Allocate, ReserveQpm, SettleRelease, Inv, HandlerInv, Progress
  <2> QED
    BY <1>0, <1>2, <1>4, <2>1, EndAnswer
<1>5. ASSUME \/ \E p \in Procs : QueryFails(p)
             \/ \E r \in Requests : Repeated(r)
      PROVE  ~ answer'.calm
  BY <1>5 DEF QueryFails, Repeated, NoAnswer
<1>6. ASSUME NEW p \in Procs, JobUnknown(p) PROVE ~ answer'.calm
  <2>1. /\ handler[p].pc \in {"query", "leader"}
        /\ Asked(handler[p]) \in JobIds => table[Asked(handler[p])] = NoJob
        /\ answer'.calm = Calm(handler[p])
    BY <1>6 DEF JobUnknown, Return
  <2>2. CASE Calm(handler[p])
    <3>1. PICK c : c = Leader(handler[p].req.id)
      OBVIOUS
    <3>2. /\ handler[p].req.id \in JobIds /\ table[handler[p].req.id] # NoJob
          /\ c \in JobIds /\ table[c] # NoJob
          /\ handler[p].pc = "leader" => handler[p].canonical = c
      BY <2>1, <2>2, <3>1, CalmFacts
    <3> QED
      BY <2>1, <3>2 DEF Asked
  <2> QED
    BY <2>1, <2>2
<1>7. ASSUME NEW p \in Procs, VerifyLookup(p) \/ VerifyLeader(p) PROVE ~ answer'.calm
  <2>1. CASE Calm(handler[p])
    <3> DEFINE h == handler[p]
    <3>1. PICK c, observed :
            /\ c = IF h.pc = "query" THEN Leader(h.req.id) ELSE h.canonical
            /\ observed = IF h.pc = "query" THEN table[h.req.id] ELSE h.seen
      OBVIOUS
    <3>2. /\ h.pc \in {"query", "leader"}
          /\ answer' = NoAnswer \/ ~ VerifiesLookup(h.req, observed, table[c])
      BY <1>7, <3>1, LookupAnswer
    <3>3. PICK d : d = Leader(h.req.id)
      OBVIOUS
    <3>4. /\ table[h.req.id].user = h.req.user /\ table[d].user = h.req.user
          /\ table[d].state \in ReserveStates
          /\ SenderIsTrusted(h.req.sender, h.req.user)
          /\ h.pc = "leader" => h.canonical = d /\ h.seen.user = h.req.user
      BY <2>1, <3>2, <3>3, CalmFacts
    <3>5. c = d /\ observed.user = h.req.user
      BY <3>1, <3>2, <3>3, <3>4
    <3>6. VerifiesLookup(h.req, observed, table[c])
      BY <3>4, <3>5 DEF VerifiesLookup
    <3> QED
      BY <1>0, <3>2, <3>6
  <2> QED
    BY <1>0, <1>7, <2>1, LookupAnswer
<1>8. ASSUME NEW p \in Procs, ReadContext(p) PROVE InUseIsServed'
  <2>1. CASE Calm(handler[p])
    <3>1. handler[p].pc = "read" /\ handler[p].seen.user = handler[p].req.user
      BY <1>8 DEF ReadContext, Inv, HandlerInv, Progress
    <3>2. ContextFor(handler[p].canonical, handler[p].seen.user)
      BY <2>1, <3>1, CalmFacts
    <3> QED
      BY <1>8, <3>2 DEF ReadContext, Return, InUseIsServed
  <2> QED
    BY <1>8, <2>1 DEF ReadContext, Return, InUseIsServed
<1> QED
  BY <1>0, <1>1, <1>3, <1>4, <1>5, <1>6, <1>7, <1>8, SilentStep DEF Next

\* What a step may do to a reservation that is held.
GivenBack ==
  \A c \in JobIds :
    held[c] # NoReservation /\ held'[c] # held[c]
      => /\ held'[c] = NoReservation
         /\ \/ \E p \in Procs :
                 /\ handler[p].pc = "release" /\ handler[p].req.id = c
                 /\ SenderIsTrusted(handler[p].req.sender, held[c].user)
            \/ \E s \in stray :
                 /\ s.op = "release" /\ s.id = c
                 /\ SenderIsTrusted(s.sender, held[c].user)

\* A release, or its thread, gives back what the journal names, and the sender was
\* verified against the owner that the journal has.
LEMMA OwnerStep ==
  ASSUME Inv, Next
  PROVE  GivenBack
<1>1. CASE held' = held
  BY <1>1 DEF GivenBack
<1>2. ASSUME NEW p \in Procs, ReserveQpm(p) PROVE GivenBack
  <2> DEFINE c == handler[p].req.id
  <2>1. handler[p].pc = "reserve" /\ held[c] = NoReservation
    BY <1>2 DEF ReserveQpm, Inv, HandlerInv, Relies
  <2>2. \A k \in JobIds : k # c => held'[k] = held[k]
    BY <1>2 DEF ReserveQpm, Inv, TypeInv
  <2> QED
    BY <2>1, <2>2 DEF GivenBack
<1>3. ASSUME NEW p \in Procs, ReleaseQpm(p) PROVE GivenBack
  <2> DEFINE c == handler[p].req.id
  <2>1. /\ handler[p].pc = "release"
        /\ \/ held' = held
           \/ alloc[c].named # NoReservation /\ held' = [held EXCEPT ![c] = NoReservation]
    BY <1>3 DEF ReleaseQpm
  <2>2. CASE alloc[c].named # NoReservation /\ held' = [held EXCEPT ![c] = NoReservation]
    <3>1. SenderIsTrusted(handler[p].req.sender, alloc[c].named.user)
      BY <2>1, <2>2 DEF Inv, HandlerInv, Relies
    <3>2. c \in JobIds
      BY <2>1, RequestFacts DEF Inv, HandlerInv, Progress
    <3>3. \A k \in JobIds : held'[k] = IF k = c THEN NoReservation ELSE held[k]
      BY <2>2 DEF Inv, TypeInv
    <3>4. held[c] # NoReservation => held[c].user = alloc[c].named.user
      BY <2>2, <3>2 DEF Inv, JournalInv
    <3>5. held[c] # NoReservation => SenderIsTrusted(handler[p].req.sender, held[c].user)
      BY <3>1, <3>4
    <3> QED
      BY <2>1, <3>3, <3>5 DEF GivenBack
  <2> QED
    BY <1>1, <2>1, <2>2
<1>4. ASSUME NEW s \in stray, StrayReserve(s) PROVE GivenBack
  <2>1. held[s.id] = NoReservation
    BY <1>4 DEF StrayReserve, Inv, StrayInv
  <2>2. \A k \in JobIds : k # s.id => held'[k] = held[k]
    BY <1>4 DEF StrayReserve, Inv, TypeInv
  <2> QED
    BY <2>1, <2>2 DEF GivenBack
<1>5. ASSUME NEW s \in stray, StrayRelease(s) PROVE GivenBack
  <2>1. /\ s.op = "release"
        /\ \/ held' = held
           \/ held[s.id] = s.res /\ held' = [held EXCEPT ![s.id] = NoReservation]
    BY <1>5 DEF StrayRelease
  <2>2. CASE held[s.id] = s.res /\ held' = [held EXCEPT ![s.id] = NoReservation]
    <3>1. SenderIsTrusted(s.sender, held[s.id].user)
      BY <2>1, <2>2 DEF Inv, StrayInv
    <3>2. \A k \in JobIds : held'[k] = IF k = s.id THEN NoReservation ELSE held[k]
      BY <2>2 DEF Inv, TypeInv
    <3> QED
      BY <2>1, <3>1, <3>2 DEF GivenBack
  <2> QED
    BY <1>1, <2>1, <2>2
<1>6. ASSUME \/ \E j \in JobIds, u \in Users : Submit(j, u)
             \/ \E j, k \in JobIds, u \in Users : SubmitHetero(j, k, u)
             \/ \E j \in JobIds : JobEnds(j) \/ Purge(j)
             \/ \E p \in Procs, r \in Requests : Begin(p, r)
             \/ \E r \in Requests : Repeated(r)
             \/ \E p \in Procs :
                  \/ JobUnknown(p) \/ QueryFails(p) \/ VerifyReserve(p) \/ VerifyRelease(p)
                  \/ VerifyLookup(p) \/ VerifyLeader(p) \/ ReadContext(p) \/ Allocate(p)
                  \/ SettleRelease(p) \/ Cancel(p)
      PROVE  held' = held
  BY <1>6
  DEF Submit, SubmitHetero, JobEnds, Purge, Begin, Repeated, JobUnknown, QueryFails,
      VerifyReserve, VerifyRelease, VerifyLookup, VerifyLeader, ReadContext, Allocate,
      SettleRelease, Cancel
<1> QED
  BY <1>1, <1>2, <1>3, <1>4, <1>5, <1>6 DEF Next

-----------------------------------------------------------------------------
\* A lookup hands out a reservation only to the user it was made for or on that
\* user's behalf, whatever became of the id since it was verified (verify_lookup,
\* reservation_context).
THEOREM OwnCorrect == Spec => []OwnReservations
<1>1. Init => OwnReservations
  BY DEF Init, OwnReservations, NoAnswer
<1>2. Inv /\ OwnReservations /\ [Next]_vars => OwnReservations'
  BY OwnStep DEF OwnReservations, vars
<1> QED
  BY <1>1, <1>2, InvCorrect, PTL DEF Spec

\* A lookup whose job is in use at each of its steps is answered, for each
\* component and in whatever form Slurm writes that there is no leader.
THEOREM ServedCorrect == Spec => []InUseIsServed
<1>1. Init => InUseIsServed
  BY DEF Init, InUseIsServed, NoAnswer
<1>2. Inv /\ InUseIsServed /\ [Next]_vars => InUseIsServed'
  BY ServedStep DEF InUseIsServed, vars
<1> QED
  BY <1>1, <1>2, InvCorrect, PTL DEF Spec

\* A reservation is given back only on the word of root, a trusted sender or the
\* user it was made for, and never replaced (expected_uid of verify_release).
THEOREM OnlyOwnerCorrect == Spec => OnlyOwnerReleases
<1>1. Inv /\ [Next]_vars => [GivenBack]_vars
  BY OwnerStep
<1> QED
  BY <1>1, InvCorrect, PTL DEF Spec, OnlyOwnerReleases, GivenBack
=============================================================================
