---------------------------- MODULE MCInspection ----------------------------
(* Two jobs, ordinary or the components of one job, two QPMs that another   *)
(* cluster shares, and a service that is configured only.                   *)
EXTENDS Inspection

MCJobIds == {1, 2}
MCServices == {"q1", "q2"}
MCKeys == {<<"a", 1>>, <<"a", 2>>, <<"b", 1>>}
MCHosts == [s \in MCServices |-> IF s = "q1" THEN {"n1"} ELSE {}]
MCAlphabet ==
  [n \in {"COMPLETED", "COMPLETING", "CONFIGURING", "PENDING", "RUNNING", "SUSPENDED",
          "UNKNOWN"} |->
     CASE n = "COMPLETED" -> 1 [] n = "COMPLETING" -> 2
       [] n = "CONFIGURING" -> 3 [] n = "PENDING" -> 4 [] n = "RUNNING" -> 5
       [] n = "SUSPENDED" -> 6 [] OTHER -> 7]
MCJobStates ==
  {<<"PENDING">>, <<"RUNNING">>, <<"COMPLETING">>, <<"COMPLETED", "COMPLETING">>,
   <<"SUSPENDED">>, <<"CONFIGURING">>, <<>>}

\* The queues with both jobs, one, or none; a component in each of the states beside
\* one that waits, runs or is suspended.
MCQueues ==
  {q \in UNION {[S -> MCJobStates] : S \in SUBSET MCJobIds} :
     2 \in DOMAIN q => q[2] \in {<<"PENDING">>, <<"RUNNING">>, <<"SUSPENDED">>}}

\* One allocation, or two of the same job, of two jobs or of two clusters.
MCReserved ==
  {{}} \cup {{<<"q1", k, "ACTIVE">>} : k \in MCKeys}
  \cup {{<<"q1", <<"a", 1>>, "ACTIVE">>, <<"q2", l, t>>} :
          l \in MCKeys, t \in {"ACTIVE", "REJECTED"}}
  \cup {{<<"q1", <<"a", 1>>, "ACTIVE">>, <<"q1", <<"b", 1>>, "ACTIVE">>}}
=============================================================================
