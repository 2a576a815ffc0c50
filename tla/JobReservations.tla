-------------------------- MODULE JobReservations ---------------------------
(***************************************************************************)
(* What the gateway promises for the reservations of a plain job, with no  *)
(* word of operations, rows, rollbacks, threads or processes.  A job asks, *)
(* reservations are kept for it one by one, and it is granted all of them  *)
(* or none.  What is granted stays granted and kept until the job's end    *)
(* begins, and the job is free again only when nothing is kept.  A QPM     *)
(* that restarts loses what it kept.                                       *)
(***************************************************************************)
EXTENDS Naturals

CONSTANTS
  Services,  \* the QPM services
  Wanted     \* those that the job asks for

VARIABLES
  phase,     \* "free", "pending" or "granted"
  kept,      \* the reservation kept at each service, 0 for none
  given,     \* the reservations that the grant named
  restarts,  \* how often each QPM has started
  ending     \* has the end of the job begun

vars == <<phase, kept, given, restarts, ending>>

None == [s \in Services |-> 0]

Init ==
  /\ phase = "free"
  /\ kept = None
  /\ given = None
  /\ restarts = [s \in Services |-> 1]
  /\ ending = FALSE

Ask ==
  /\ phase = "free" /\ kept = None
  /\ phase' = "pending"
  /\ UNCHANGED <<kept, given, restarts, ending>>

Keep(s) ==
  /\ phase = "pending" /\ kept[s] = 0
  /\ kept'[s] > 0
  /\ kept' = [kept EXCEPT ![s] = kept'[s]]
  /\ UNCHANGED <<phase, given, restarts, ending>>

\* All of them: each is kept, unless its QPM has restarted.
Grant ==
  /\ phase = "pending"
  /\ phase' = "granted"
  /\ \A s \in Services :
       IF s \in Wanted
       THEN given'[s] # 0 /\ (kept[s] = given'[s] \/ restarts[s] > 1)
       ELSE given'[s] = 0
  /\ UNCHANGED <<kept, restarts, ending>>

\* A reservation goes back: of a job that was not granted, or that ends.
GiveBack(s) ==
  /\ phase = "pending" \/ ending
  /\ kept[s] # 0
  /\ kept' = [kept EXCEPT ![s] = 0]
  /\ UNCHANGED <<phase, given, restarts, ending>>

\* What is left of the grant when the end of the job fails.
Revoke ==
  /\ phase = "granted" /\ ending
  /\ phase' = "pending"
  /\ given' = None
  /\ UNCHANGED <<kept, restarts, ending>>

Free ==
  /\ phase = "pending" \/ (phase = "granted" /\ ending)
  /\ kept = None
  /\ phase' = "free"
  /\ given' = None
  /\ UNCHANGED <<kept, restarts, ending>>

BeginEnd ==
  /\ ending' = TRUE
  /\ UNCHANGED <<phase, kept, given, restarts>>

Restart(s) ==
  /\ restarts' = [restarts EXCEPT ![s] = @ + 1]
  /\ kept' = [kept EXCEPT ![s] = 0]
  /\ UNCHANGED <<phase, given, ending>>

Next ==
  \/ Ask \/ Grant \/ Revoke \/ Free \/ BeginEnd
  \/ \E s \in Services : Keep(s) \/ GiveBack(s) \/ Restart(s)

Spec == Init /\ [][Next]_vars
=============================================================================
