----------------------------- MODULE MCIdentity -----------------------------
(* Two ids, which a heterogeneous job takes both, and two users.  Reserves  *)
(* and lookups come from root, as from the burst-buffer helper and the      *)
(* SPANK plugin, or from a user, for that user or for the other one.  The   *)
(* releases come from the users, whose word counts least.                   *)
EXTENDS Identity, TLC

CONSTANTS alice, bob

MCUsers == {alice, bob}

Request(op, id, component, u, sender) ==
  [op |-> op, id |-> id, component |-> component,
   offset |-> IF component = 0 THEN 0 ELSE 1, user |-> u, sender |-> sender,
   number |-> 1]

MCRequests ==
  {Request("reserve", 1, 2, u, Root) : u \in MCUsers}
    \cup {Request("reserve", 1, 0, u, u) : u \in MCUsers}
    \cup {Request("release", 1, 0, NoUser, s) : s \in MCUsers}
    \cup {Request("lookup", j, 0, u, Root) : j \in {1, 2}, u \in MCUsers}
    \cup {Request("lookup", 1, 0, alice, bob), Request("lookup", 1, 0, bob, alice)}

MCSymmetry == Permutations(MCUsers) \cup Permutations(Procs)
=============================================================================
